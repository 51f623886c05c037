# Verification of the Dvantora engine

Dvantora researches local service markets.  A client asks for a run on a market
(a service in a location); a worker collects evidence for six signals,
normalises and scores them, writes a report, and the app shows it.  This
directory holds TLA+ models of the part of the engine that carries that logic,
the TLC configurations that check them, and theorems about them that TLAPS
proves.  Paths are relative to the repository; `PROJECT.json` maps every
definition to the lines it models.

Contents: 1 the system, 2 the modules, 3 the runs, 4 where documents and code
disagree, 5 the proofs, 6 what is left out, 7 the plan.

## 1. The system

Two kinds of processes share one Postgres database and nothing else.  The API
(FastAPI, one thread per request, `engine/api`, `engine/app`) resolves markets,
accepts runs, cancels them and reads results.  Worker processes
(`engine/pipeline/worker.py`) poll the database for work.  There is no broker:
the table `research_runs` is the queue.  Everything hard about the program
happens in the database, between transactions.

| Component | State | Operations | Correct when |
|---|---|---|---|
| Run queue (`pipeline/queue.py`, loop of `pipeline/worker.py`) | `research_runs`, row locks, index `research_runs_one_active_idx` | `enqueue`, `claim_next`, `reap_stuck`, `set_status`, `run_forever` | one active run per market, one executor per run, no run stranded, outcomes with their rows |
| Run executor (`worker.py execute_run`, `pipeline/stages.py`) | `run_stages`, `evidence`, `signals`, `scores`, `reports`, `events_outbox` | collect, score, analyse, report, finalise; the failure handler | tables agree with each other after success, failure, exception, crash and re-execution |
| Starting a run (`pipeline/start.py`, `find_fresh_run`) | rows of the account's month, idempotency keys | `start_run` for `POST /runs` and the app's form | keys unique, quota nearly kept, reuse only of a fresh run |
| Market resolver (`markets/resolver.py`) | `markets`, `market_aliases`, the taxonomy | `resolve`, `resolve_by_key` | no silent guess, an alias keeps its market and counts exactly |
| Cancel endpoint (`api/routes/runs.py`) | none | read the status, then `set_status` | never revives or strands a run |
| Scoring (`signals/score.py`) | none (pure) | `compute`, `_apply_gates` | gates only lower a verdict; missing evidence neither drags the score nor raises confidence |
| Normalisers (`signals/normalise.py`) | none (pure) | `normalise` per signal | better evidence never looks worse, no score without a measurement |
| Collectors (`collectors/`) | `collector_mode` of each process, fixture files, HTTP | `build_collectors`, `live_sources`, `collect` | example data never passes for live data, in reuse or on a page |
| Report builder (`report.py`), analysis provider (`ai/`) | none | `build_report`, `analyse` | the report declares its gaps |
| Events outbox | `events_outbox` | `emit_event`; no code delivers them | an event with each transition |
| Read endpoints, app pages | none | `get_run`, `get_report`, `list_runs`, history, pages | labels that agree with the rows and with each other; no answer mixes two moments into something false |
| Accounts, errors, configuration, database access | development principal, settings, pool | constructors, start-up, `apply_schema` | - |

How they interact: a request thread runs `resolve` and `start_run` in one
transaction and commits once; a worker polls in a first transaction
(`reap_stuck`, then `claim_next`, commit) and executes in a second one that
commits once at its end (`worker.py:475`), or rolls back and records the failure
in a third.  Nothing but committed rows passes between processes.

What is hard:

- *Statements of READ COMMITTED transactions interleave.*  A check in one
  statement (`enqueue`'s SELECTs, the quota, `_get_or_create_market`) says
  nothing about the next one; only row locks and unique indexes hold.
- *A claim outlives its worker, and a worker its claim.*  The lease is stamped
  once and never renewed; `execute_run` does not look at it again.
- *Long transactions.*  `execute_run` locks its row from the first
  `stages.start` to the end; reapers and cancels wait for it, and what it writes
  on the way (stages, `scoring`, `analyzing`) is seen by nobody.
- *Unguarded writes.*  `set_status` has no condition on the old status.
- *Re-execution* over rows an older execution left, with five different conflict
  clauses (append, replace, keep).
- *Thresholds*, on rounded numbers, in the curves, in the score and in the resolver.
- *Modes.*  Whether data is live or an example is decided by each process's own
  environment; a run may be requested in one mode, executed in another and
  executed again in a third, and all its evidence rows stay.

`PROJECT.json` lists each hazard at its line with the properties aimed at it.

## 2. The modules

    RunLifecycle          what a reader sees of the runs (abstract)
      ^ implemented by RunQueue    (queue, workers, locks, crashes)
      ^ used by StartRun           (for what becomes of a run once it is queued)
    RunOutcome            the results of one run, as committed (abstract)
      ^ implemented by ExecuteRun  (one run's tables, inside RunQueue's execute)
    Readers               ExecuteRun with the clients that poll the run
    Scoring               compute, over any readings
      ^ extended by Normalise      (payloads and populations, before compute)
    Provenance            collector modes, reuse of runs, labels; an execution
                          is one step here, as RunOutcome has it
    MarketBook            markets and aliases, one resolution at a time (abstract)
      ^ implemented by Resolver    (before StartRun's first statement)

Each detailed module has an `MC` module with its finite instance (the abstract
ones are checked as properties of those that implement them, `Scoring` as a
part of `Normalise`) and a module `_proofs`.  Definitions commented "Variant" are plausible bugs of the
one that follows; each is used to show that some property can fail.

**RunLifecycle.**  One variable, the committed `status` of each run.  `Submit`
needs a market without an active run, `Dispatch` is a poll that takes one queued
run and returns stranded ones, `Settle` gives an outcome, to a run that has one
already too: that is what the code does.  No step leads to `scoring` or
`analyzing`.

**RunQueue.**  Columns of `research_runs` as committed; `lock`, the transaction
that holds a row; per worker its place in `run_forever`, the run in its hand and
the rows its `reap_stuck` has still to visit; the `POST` and cancel handlers.

| Code | Action |
|---|---|
| `enqueue`, its SELECT and its INSERT | `PostCheck`, `PostInsert` |
| `cancel_run`, its SELECT and its UPDATE | `CancelRead`, `CancelWrite` |
| `reap_stuck` | `ReapBegin` (the snapshot), `ReapRow` (wait, test again, lock) |
| `claim_next` with the commit | `Claim`, `ClaimNothing` |
| `execute_run` | `BeginExecute`, `StartScoring`, `StartAnalyzing`, `InsufficientEvidence`, `Complete` |
| exceptions | `ExecuteRaises`, `MarketTaken` (unique index), `RecordFailure` |
| time, the supervisor | `LeaseLapse`, `Crash` |

A transaction of one row that commits at once is one step.  Waiting for a row
lock is a guard, and so is waiting of an index check for a transaction in doubt
(`InDoubt`).  A reaper visits rows in the order of their ids; the second test of
a row after a wait is on the row as it then is.  That order is an assumption about
Postgres: `reap_stuck` has no ORDER BY, and a table of this size is scanned in one
order by every worker.  Time is a flag per claim: `live`, then `lapsed`.
`WaitsFor` says which worker's transaction waits for which other one, for a row or
for an index entry in doubt.  Postgres ends a circle of them by aborting one
transaction, which is an `ExecuteRaises` or a `Crash` of that worker.

**ExecuteRun.**  `db`, the tables as committed, and `tx`, the same tables as the
open transaction sees them; every statement group of `execute_run` is a function
from tables to tables, a commit copies `tx` to `db`, a rollback or crash `db` to
`tx`.  What is written carries the number of its execution, so that properties
can tell rows of two executions apart.  One execution at a time: that is
`RunQueue`'s `OneExecutorPerRun`, proved there.  `Collect` may yield any
evidence status, `CollectorRaises` is the exception or empty result,
`Normalisable` says which collected signals may still have no score, `Covered`
is the 0.5 gate.  A cancel may come between executions, and after the run has
ended, because it may have read the status earlier.

**Readers.**  `ExecuteRun` and any number of clients.  `get_run` and `get_report`
select the run's row first (`LoadRun`) and what belongs to it in a second statement
(`ReadStages`, `ReadReport`), `list_runs` does it in one (`ListRuns`); the executor,
a failure or a cancel may commit in between, since a statement sees what is
committed when it starts.  A client keeps what it is shown: a status, the stages shown as
unfinished, the execution whose score or report it is.

**RunOutcome.**  Status, signals, score and report of a run.  `Publish` replaces
signals, score and report at once by those of one execution, `Decline` (too
little evidence) replaces the signals and leaves an older result, `Abandon` (an
exception, a cancel) changes the status only.

**Scoring.**  `compute` as one operator over records of six signals: `Nearest`
(round), `Composite`, `Confidence`, `BaseVerdict`, `GatesApplied`, `Cap`.  Scores
are in hundredths, confidences in thousandths.  The state is a market's latest
evidence and result; a step changes one signal, which makes monotonicity an
action property.  The code computes in doubles and uses `round()`; the module
takes exact quotients and rounds ties up.

**Normalise.**  The state adds to Scoring's the payloads collected for a market
and its population; a step changes the payload of one signal (`Find`, `Lose`) and
publishes.  `Demand`, `Competition`, `Advertising`
with `SlotFill`, `Density`, `CustomerValue`, `Trends` are the normalisers, branch
by branch.  Payloads have optional keys, because the code's defaults matter
(`get`).  Shares are in hundredths, growth and slopes in thousandths, prices in
cents, populations in thousands; the logarithm is a table `Ln`, a constant of
which is assumed that it increases, starts with `Ln[1] = 0` and has the code's
fixed points.  `WellFormed` states
what sources give: counts are not negative, a share is at most 1, and an
advertising payload has an advertiser count or a competition index.  Of the bands
only `declining` is kept; nothing else reads one.

**Provenance.**  Runs of markets with their evidence rows (signal, vendor,
status), stored report and completion.  `build_collectors` and `live_sources` are
functions of a mode; every `Request` and every `Execute` brings its own mode.
`Collections` says what the collectors of a mode may bring: fixture files are a
constant, a live collector answers, reports `absent` for each of its reasons, or
raises and stores nothing.  `find_fresh_run` and `Reusable` are the reuse with
its vendor test, `Fail` stands for a decline, an exception and a cancel,
`_data_mode`, `ReportMode`, `IsExample` and `ListMode` are the labels of the
report page and of the list.  A report also keeps, for the properties only, the
vendor each sub-score rests on, which the stored payload does not say.

`Request` is one step: the race between its SELECT and its INSERT is RunQueue's and
StartRun's matter.

**StartRun.**  One account and one month.  A request is served one statement at
a time: `FindFresh`, `CheckQuota`, `FindKey`, `FindActive`, `Insert`, in the
code's order, which puts freshness and quota before the key.  `Insert` is atomic
against both unique indexes (waiting for rows in doubt is in RunQueue, the
failing INSERT is here: answer `error`).  `fresh` lists reusable runs by
completion, none twice, `Dispatch` and `Settle` are RunLifecycle's, `Expire` ends a run's
freshness, by age or because its data comes from other vendors than those in use.

**Resolver.**  `services` and `locations` grow (`Seed`: `apply_schema` of a
deployment), `markets` and `aliases` are committed tables, each handler holds
the market and alias rows its transaction has written.  `LookupAlias`, `Match`,
`GetMarket`, `CreateMarket`, `RecordAlias`, `Commit` follow `resolve`;
`LookupKey` is `resolve_by_key`; `Abort` is `start_run` raising after the
resolver has written, or the request dying.  How alike two texts are is a
constant (`ServiceConf`, `LocationConf`, in thousandths); the gates, the margin,
the floor and the shortlist are the code's.  Services and locations are read in
one step.  An alias hit returns the stored market even if the taxonomy has
become ambiguous since.

**MarketBook.**  The committed markets and aliases.  `ResolveKey` may add a market,
`FirstResolve` adds a text with its market, its confidence and one hit,
`ResolveAgain` adds one hit and changes nothing else.  An alias therefore never
moves, loses a hit or appears without its market.

## 3. The runs

| Run | Instance | Asks | States |
|---|---|---|---|
| `queue_safety` | 3 workers, 1 cancelling thread, 3 runs of 2 markets, 2 crashes, followed where `Followed` says | exclusion, outcomes, finality, circles of waiting, refinement | 488 thousand |
| `queue_crashes` | 2 workers, 1 cancelling thread, 1 run, 2 crashes, fair | are claims found and counted, does an accepted run end? | 12 thousand |
| `queue_terminal`, `queue_evidence` | 2 workers, 2 runs, no crash | section 4 | counterexamples |
| `execute_outcome` | 2 collectors, 2 executions, 1 polling client | do the tables agree, is an execution one step, what do pages show across commits? | 174 thousand |
| `execute_timeline`, `execute_declined` | the same | section 4 | counterexamples |
| `market_verdict` | 2 to 5 payloads per signal, and none; population known or not | verdicts, what they rest on, what decides them, monotonicity | 14 thousand |
| `start_requests` | 2 threads, 3 runs, 2 markets, 1 key, quota 1 | keys, quota | 127 thousand |
| `start_key` | the same | section 4 | counterexample |
| `resolver_requests` | 2 threads, 3 requests, 3 texts, 2 services, 3 locations | aliases, guesses, refusals | 73 thousand |
| `provenance_modes` | 2 runs of a market mapped to Google Ads, 1 of another, 3 executions | reuse and labels across modes | 101 thousand |

Why these bounds.  *Queue*: two runs of one market are what the index, the
`InDoubt` wait and the revival of a cancelled run need; two workers and a lapsed
lease give a stolen claim.  A circle of waiting needs three workers, three runs of
two markets and a worker that died, with which all states are too many.
`queue_safety` therefore follows two parts of that instance from the common initial
state (`Followed`, a constraint).  One is `Duel`: all that two workers and a
cancelling thread can do with two runs of a market, without a crash.  The other is
`Ahead`, the way to a state with two runs in flight, the claimant of one dead and
the other claimed and not yet begun, and `Circles`, what follows from there while
no run is claimed a second time, the first run is not executed and only the third
is cancelled; circles do occur within it.  A crash frees the same locks as an exception does, so crashes of
executors are left to `queue_crashes`, where one run, stranded twice, is enough.
Attempts and leases are not
bounded by the model: `AttemptsBounded` shows that they are bounded by workers
and crashes, so the state space is finite by itself.  *Executor*: of the two signals
either alone is exactly half the weight, which is enough to score, and one may
have evidence without a usable value, so there are declines with
and without evidence, partial and complete outcomes; two executions give every pair
of old and new outcome.
A client's steps concern only itself and the tables, so a second one adds no case.
*Market*: the
payloads reach both ends of every curve, its peak, both branches of advertising
and of density, a declining and a rising trend on three geographies, prices of
zero, scores on both sides of the gates, and means that are rounded up to exactly
70 and 45; the theorems cover all other
payloads and readings.  *StartRun*: with quota 1 and two threads the
overshoot occurs; three runs let a key's run be superseded.  *Resolver*: the
seeded taxonomy without its second Richmond, which a deployment may seed at any
time; `vague` becomes ambiguous then, `flips` would go to the other one, `plumber`
fails on the service half alone.  `MaxRequests` is 3: two racing and one that was
matched earlier.  *Provenance*: three executions let a run be executed in both
modes and a second run compete with it for reuse; the fixture files give every
kind of result, and without the unmapped market no live collector would find
nothing for want of a mapping.

What the passing runs show, by property:

- `OneActivePerMarket`, counting uncommitted writes; `OneExecutorPerRun`,
  `ExecutionUndisturbed`: the row lock, not the lease, is what excludes workers.
- `ClaimIsRecoverable`, `EveryRunEnds`: no stranded run.
- `ExecutionsWithinClaims`, `AttemptsBounded`: no limit in the code, yet at most
  one attempt per worker and one more per crash.
- `CirclesAreRare`: transactions that wait in a circle include a reaper and the
  executor of a run that had ended (cancelled, say) before it was executed, whose
  first status write waits for the index.  Reapers alone never wait in one, because
  they visit rows in one order, and executors alone never do.
- `OutcomeHasItsRows`, `SettledIsFinal`: an outcome is committed with its rows
  and is final once nobody holds the run.
- `TimelineMatchesStatus`, `SuccessIsConsistent`, `ScoredHasEvidence`,
  `NoTraceWithoutEvent`, `OutcomeSpec`: the tables agree for every order of
  failures and executions, and change by one whole execution at a time.
- `FinalPageIsSettled`: a page with a status of success, at which the client stops
  polling, shows no stage unfinished, whichever side of a commit its two SELECTs
  were on.  It holds because no commit opens a stage again.  `ReportKeepsUp`: a
  request that found a success is never refused, and no report that is served is older
  than the score or report the client was shown before.
- `ScoreWithinEvidence`, `LosingEvidenceShows`: what is missing neither drags the
  score nor raises confidence.  `PursueWithoutDemandIsFull`: Pursue is possible with no
  demand evidence at all, but only on the five other signals, each from its surest
  source, when confidence is exactly 0.5.
- `VerdictMatchesNumbers`: the coverage, score, confidence and gates that are published
  decide the verdict; every threshold is compared with the number shown, at 45.00,
  70.00, 0.500 and half the weight too.
- `BetterEvidenceNeverHurts`, `CoarserTrendNeverSurer`: the same
  from payloads on, through curves, roundings and clamps.  Better evidence means
  key by key; for advertising only the growth has a direction, the curve itself
  rises and falls.  `PursueIsMeasured`: a price or index that was not measured
  never counts as a sign that the market pays.
- `ReuseIsLive`: a run handed out where live data is expected scores at least one
  live signal and each from its live vendor.  The vendor test alone does not give
  this, for a run whose live collectors all raised has no row that fails it; the
  weight scoring requires (half of it cannot be reached without a live signal)
  keeps such runs out.  `LabelsAreHonest`, `ListAgreesWithReport`: the labels err
  towards "mixed" only, and the list, which reads rows, never promises more than
  the report, which was stored.
- `OneRunPerKey`, `QuotaOvershootBounded`; `LifecycleSpec`: whatever the workers do, the
  committed statuses move as RunLifecycle says.
- `MarketsAreReal`, `BookSpec`: rollbacks and races leave no alias without its
  market, move none and lose no hit; `NoSilentGuess`: the gates
  on pairs imply that each half stands out; `RefusalOffersChoice`: a refusal
  offers two pairs when the best one was good enough, because the floor is the
  threshold less the margin.

**Fairness** is used by `queue_crashes` only.  Each worker's `Poll` and
`Execute` are weakly fair: `run_forever` loops without an exit other than a
signal, sleeps for a bounded time, catches every exception of an execution, and
a dead process is started again by its supervisor; Postgres gives a free row to
the transaction that waits for it.  `LeaseLapse` is weakly fair because time
passes.  Nothing is assumed of clients: no request must come, and a cancel that
was read may never be written.  Crashes are finite (`MaxCrashes`); with crashes
for ever nothing could be promised.  Deadlock is checked in every run.

## 4. Where documents and code disagree

Five runs check what the documents say and find it violated.

| Run | The sentence | The code |
|---|---|---|
| `queue_terminal` | terminal statuses end polling (`docs/05-api-contract.md:194`) | cancel and execution overwrite each other's terminal status |
| `queue_evidence` | retrying never duplicates evidence (`docs/01-architecture.md:217`) | a stale claim is executed again, and appends |
| `execute_declined` | too little evidence: no `scores` row (`docs/04-signals-and-scoring.md:70`); a report only while `complete` or `partial` (`docs/05-api-contract.md:240`) | the rows of an earlier execution stay, and `get_report` looks for a row only |
| `execute_timeline` | polling shows stages done, running and pending (`docs/05-api-contract.md:164-194`, `docs/08-frontend-integration.md:138-141`) | `execute_run` commits once, at its end |
| `start_key` | the same key returns the same run (`docs/05-api-contract.md:153`) | a fresh run of the market is looked up first |

Seen while modelling, without a run of their own: a collector that fails is said
to leave an `absent` evidence row (`engine/pipeline/worker.py:3`), one that raises
leaves a failed stage and no row.  A run is said to be reused when its evidence of
each live signal came from the live vendor (`docs/adr/0005-seven-day-freshness-window.md:44`);
one whose live collector raised has no evidence of that signal and is reused too.
The trend penalty is documented against the market's geography
(`docs/04-signals-and-scoring.md:254`), and the code multiplies by the level
measured at whatever the market's is; a suburb's trend for a city market is noted
as "coarser" (`engine/signals/normalise.py:338`) and not reduced.  The list of runs can
say "mixed" for a run whose report says "example" or "live", after an execution in
another mode.  `POST /markets/resolve` is
documented as without side effects (`docs/05-api-contract.md:205`) and commits a
market and an alias.  A retried key at the quota is answered 429, because the
quota is counted before the key.  Two concurrent requests for one market or one
key give an HTTP 500 for the loser of the INSERT, not 409 or the same run; so do
two first resolutions of one market.  A key used again for another market returns
the first market's run.  The quota can be overshot.  Transitions are said to carry
an outbox event (`docs/02-data-model.md:347`); a cancel and a `worker_error` write none.
`run_stages.attempt` is never written, and the spend limit is never enforced.

## 5. The proofs

All theorems hold for every value of the constants allowed by the ASSUMEs:
finite sets of workers, runs, handlers, services and locations, "no worker" and "no
run" outside them, a positive quota, readings and similarities in range, positive
weights, an increasing table of logarithms, well-formed payloads.  The specifications are those
TLC checks.

**RunQueue_proofs.**  `Basics` is the inductive core: types, `LockInv` (a worker
in `execute_run` holds its row, a lock names a worker that is executing or
reaping, nobody holds two) and `RowsExist` (a run in anybody's hand is inserted).
`OneExecutor` follows: two executors of a run would hold one lock.  `OneActive`
adds that at most one of a market's rows is active counting uncommitted writes;
the delicate step is `StartScoring` of a cancelled run, where `~InDoubt` and
`~Duplicate` are both needed.  `OneExecutionPerClaim` and `BoundedAttempts` count:
evidence plus workers holding the run stay within `attempt`, and every attempt
beyond the holders is paid for by a worker or a crash.  The counting lemmas on
finite sets come first (`InHandFinite`, `CountingSteps`).  `Recoverable` and
`OutcomeRows` have invariants of their own.  `Undisturbed`, `TerminalStays` and
`SettledFinal` are action properties proved from `Basics`.  `ImplementsLifecycle`
maps each step to a step of RunLifecycle or a stutter: `PostInsert` to `Submit`
(needs the index), `Claim` to `Dispatch` (needs that reaped rows are
`collecting`), every `SetStatus` to `Settle` (needs that the row exists).  `RareCircles` follows a
circle of waiting: a reaper that waits has locked smaller rows only (`VisitsInOrder`),
so in a circle of reapers the one at the greatest row would wait for a greater one;
an executor waits only for the index, which by `OneActive` means that its own run
had ended.

**ExecuteRun_proofs.**  The invariant says of each place in `execute_run` how `tx`
and `db` are related (equal when idle or failing; otherwise the status, score and
report of `tx` are still those of `db`) and what `tx` holds there: stages
settled so far, ok evidence of this execution for what was collected, signals of
this execution once scored.  With it the invariants of the tables follow at the
two commits, and `ImplementsOutcome` maps these to
`Publish` and `Decline`, failures and cancels to `Abandon`, all else to a stutter;
`ScoreAndReportTogether` says that score and report never part.

**Scoring_proofs.**  `PublishedCorrect` reduces everything to "the result is
`compute` of the signals".  Sums over six named signals make the weighted mean
linear: `CompositeAtLeast` and `CompositeAtMost` bound it by a sub-score,
`NearestMonotone` carries inequalities through the rounding, `GatesMonotone` and
`BaseVerdictMonotone` through the verdict.  `NumbersDecide` goes through the cases of
the gates, each of which only caps.

**Normalise_proofs.**  What is proved of Scoring is used by way of `MarketIsScored`:
a change of one payload changes one reading.
`BetterEvidence` shows each curve monotone in its keys (`LogScale` by the order of
the table, products and quotients by lemmas of their own, `Nearest` and `Clamp` by
theirs) and hands the rest to Scoring's `BetterReadingStep`.  `PursueMeasured` goes
back from the gate on monetisation to the payload that scored.
`PursueWithoutDemand` adds up the ceilings of the five confidences: the next lower one
of any of them takes the rounded confidence below the gate.  `CoarserTrend` is
about the confidence of a sum with one term lowered.

**Provenance_proofs.**  Type correctness needs three companions: each score's
vendor is among the sources of its report, each source of a report is still an ok
row, and what succeeded covers half the weight.  From these, `ReuseLive` (a
success scores a live signal, its row passes the vendor test), `LabelsHonest` and
`ListAgrees`.

**StartRun_proofs.**  `TypeCorrect` has the types and that the list of fresh runs
holds none twice.  `RemoveFirst` is about the least place of a run in the list; that
there is one comes from the order of the naturals being well-founded
(`LeastExists`), without an induction of our own.
`KeyIsUnique` needs the index on keys only.  For `QuotaNearlyHolds` the invariant
is about requests under way: runs created plus handlers past the quota check are
at most the quota plus the handlers less one.

**Resolver_proofs.**  `IInv` adds to the types what a handler holds at each
statement (`Holds`: the market it settled on is committed or written by itself
before an alias is recorded), what the alias row it wrote says (`Writes`: the
committed row with one hit more) and that one open transaction at most has a
text's row (`Exclusive`, the row lock of the upsert).  Without `Writes` and
`Exclusive` neither the count nor `AliasStable` is inductive: a commit must not
overwrite a newer row.  `LocalStep` carries all the steps that commit nothing.
`ImplementsBook` is the refinement of MarketBook: only `Commit` moves, and what it
writes is a first resolution or one hit more (`CommitResolves`).
`NoGuess` rests on `AcceptedHalvesStandOut`: a rival of one half, paired with the
other half, is a rival pair, and the margin on minima forces the margin on the
half.  `RefusalsOfferChoice` counts: the rival that stopped the best pair is above
the floor (threshold less margin), and is offered itself or gave way to three
others at least as good (`ShortlistReachesFloor`).

**Readers_proofs.**  The executor's invariant gets three conjuncts: an open
execution has finished the stage of every collector it is past (`EarlyDone`), a
success has no stage unfinished, the committed report is older than the open
execution.  With them every commit goes forward (`Forward`): if nothing is unfinished
nothing becomes so, and the report's execution never decreases.  So what a client was
shown stays true of the tables (`ShownStays`) however old its page is,
from which `PagesSettled` and `ReportsKeepUp` follow.

Only model-checked: `EveryRunEnds` (liveness is beyond the prover).  Proved without
a run, or on an instance only as a part of a stronger property:

- `TerminalStays` (no step of the queue revives a run), `VerdictOnlyLowered` (gates
  lower), `ScoreAndReportTogether`;
- `PursueEarned` and `BetterReadings`, for any readings, which the run covers from
  payloads on by `PursueWithoutDemandIsFull` and `BetterEvidenceNeverHurts`;
- `HitsExact` and `AliasStable`, which `BookSpec` implies;
- the types of Scoring and of ExecuteRun (`TypeCorrect` in both).

The five counterexamples are TLC's.

## 6. Not modelled

- Collectors' HTTP calls and fixtures, the wording of analysis and report, HTML
  templates, response layouts: input and output, or wording.
- Doubles and `math.log` in `normalise.py` and `score.py`: integers and a table.  A
  tie in rounding goes up here and to even there.
- `_ratio` (difflib) and `normalise_raw`: a constant similarity, and texts that
  stand for their normal form.
- The connection pool, the migration runner, authentication: no state the
  properties are about.
- `get_evidence` shows the committed evidence rows; `market_history` selects what
  `list_runs` does.
- Forms, redirects and templates of the app, error responses, the development
  principal, settings other than the modules' constants.
- Amounts (`spend_cents`), `last_seen_at` and timings other than the lease.

## 7. Plan

1. Done: queue, executor, scoring, normalisers, starting a run, resolver,
   provenance, pollers; their proofs, and the refinements of RunLifecycle by
   RunQueue, of RunOutcome by ExecuteRun and of MarketBook by Resolver.
2. A composition of Resolver and StartRun in one transaction, and of Provenance's
   reuse with StartRun's `Expire`.
