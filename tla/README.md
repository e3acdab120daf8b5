# Formal models of grid_bot_monitor

TLA+ specifications of the grid-bot monitor in `src/source`, the TLC
configurations that check them on small instances and TLAPS proofs of their
main properties for all instances.  Paths below are relative to `src/source/`
unless they start with `src/`; "README:n" is line n of `src/README.md`.

1. [The system](#1-the-system)
2. [The modules](#2-the-modules)
3. [How state and actions correspond to the code](#3-how-state-and-actions-correspond-to-the-code)
4. [The runs, their bounds and what they show](#4-the-runs-their-bounds-and-what-they-show)
5. [Fairness](#5-fairness)
6. [The proofs](#6-the-proofs)
7. [Where the code and its documentation disagree](#7-where-the-code-and-its-documentation-disagree)
8. [What is not modelled](#8-what-is-not-modelled)
9. [Plan](#9-plan)

How to run: `tlc -config lifecycle.cfg MCBotLifecycle.tla` (any pair of the
table in section 4) and `tlapm BotLifecycleProofs.tla` (any `*Proofs` module).

## 1. The system

One asyncio process.  It watches up to five perpetual-futures symbols, decides
once a week whether a grid bot should be launched on each, launches one when a
button is pressed in Telegram, and then checks the health of each bot.

| Component | Code | State it keeps | Operations |
|---|---|---|---|
| Bot lifecycle | `application/services/bot_management_service.py`, `grid_service.py`, `presentation/bot/handlers/*`, `presentation/scheduler/jobs/lifecycle.py`, `main.py` | rows of `grid_launches`; scheduled jobs (memory only); orders at Pionex | `/pause`, `/resume`, `/close`, launch by API, launch by hand, start-up recovery |
| Health monitor | `application/services/health_monitor_service.py`, `health_classifier.py` | `health_status` and other monitoring columns of a row; rows of `health_snapshots` | a check every 30 minutes per symbol; `/status` |
| Alert service | `application/services/alert_service.py` | `_sent`: time of the last alert per bot and type, in memory; rows of `alerts` (written, never read) | send, debounced |
| Auto-adjust | `application/services/auto_adjust_service.py` | none of its own | every 60 minutes per symbol: pause a RED bot, suggest to reconfigure a long YELLOW one |
| Gates and builder | `application/services/gates/*`, `application/use_cases/*`, `grid_builder.py`, `domain/entities/verdict.py` | none (pure rules) | assess regime, positioning, liquidation safety; build a proposal; resolve a verdict |
| Advisor | `application/services/run_daily_positioning_check.py`, `run_weekly_full_assessment.py`, `oi_snapshot_service.py`, `decision_log_service.py` | rows of `oi_snapshots` (one per symbol and day) and `decision_logs` | daily check 00:05, weekly assessment Saturday 09:00, the same from chat commands, `/reconfigure` |
| Provider | `dependencies.py:59-72` | a session per block | begin, commit, roll back; swallows every exception |
| HTTP client | `infrastructure/http/*` | semaphore of 5, a cache of open interest (60 s), a cache of liquidation estimates (120 s) | GET and POST with three attempts |
| Telegram | `infrastructure/telegram/*`, `presentation/bot/*` | none of its own; Telegram keeps the messages, their buttons and the updates not yet confirmed | handlers of commands and buttons, keyboards, error replies |
| Clean-up | `presentation/scheduler/jobs/monitor.py` | none | deletes snapshots older than 90 days every night |

**How they interact.**  Handlers and jobs are coroutines of one loop, so code
is atomic between two awaits and interleaves at each of them.  They share three
stores that no transaction joins: the database, the exchange and the in-memory
job store.  A launch calls `on_launch`, which schedules the symbol's two jobs; a
close calls `on_close`, which removes them; `main` schedules the jobs of every
open row again after a restart.  Services find "the" bot of a symbol by symbol
and status, never by primary key.  A check reads the row, calls Pionex three
times, sends its alerts, stores a snapshot and writes the row, in four separate
blocks.  Auto-adjust reads what checks wrote, and calls the lifecycle's pause.

**What is hard about it.**

* *Partial failure.*  The provider rolls a failing block back and does not
  re-raise.  The caller gets `None`, or an entity that is not stored, and goes
  on: replies, schedules, places orders.
* *Interleaving.*  Launch buttons pressed twice, a close suspended in its HTTP
  call while a launch runs, a check writing back what it read before three
  awaits, four kinds of assessment racing for one snapshot per day.
* *Crash and restart.*  Jobs and debounce stamps are lost; rows and orders are
  not.  A crash can fall between placing an order and storing the bot, or
  between an alert and the row it announces.
* *Delivery.*  An update that was taken but not confirmed comes again after a
  restart, one that was confirmed is lost with its task; a press may be minutes
  old, and an error reply is itself a message that may fail.
* *Limits.*  All calls to Pionex share five slots; concurrent callers miss a cache
  together and their answers replace each other's, late ones included.
* *Time.*  The intervals of the jobs, the debounce time, the seven-day window
  and its boundary, retries with lost answers.
* *Numbers.*  Six thresholds with per-symbol overrides, clamped stop-losses,
  percentages with a zero or missing base, three-valued estimates.

**What makes each component correct.**

* *Lifecycle*: at most one open row per symbol; `paused_by_monitor` and status
  agree; every open row is monitored unless a close removed its jobs, and one whose order is
  live unless that close went on without a confirmed cancellation; a pause that
  replies success is stored, and so is the bot of a launch; every handler ends.
  (The pause and the launch are where the code falls short, section 7.)
* *Monitoring*: no alert is held back; the chat is told of a status before the
  row takes it, and the two agree between checks, unless a message or an UPDATE
  is lost; checks keep coming; the
  suggestion is sent exactly on a streak of YELLOW snapshots.
* *Gates and builder*: a worse market never gets a better status; stops bracket
  the price; a proposal that is not failed is safe from liquidation; launch
  buttons mean a calm market, as far as there is a snapshot to tell.
* *Classifier and metrics*: a worse metric never gets a better status or fewer
  alerts; the score stays between 0 and 1; a near liquidation price is seen.
* *Advisor*: one verdict per stored snapshot, one LAUNCH per symbol and day; a
  change of open interest is never measured against the same day; every run
  ends.
* *HTTP client*: slots are neither lost nor made up, none is held over a back-off,
  and callers get them in the order they came; a served answer is younger than its time to live; every call ends.
* *Chat*: an outdated press launches nothing; a handler that fails says so, or
  there is a reason for its silence; buttons stay until a service behind one of
  them returned.

The hazards, each at its line and with the properties aimed at it, are listed in
`PROJECT.json`.

## 2. The modules

| Module | Contents |
|---|---|
| `Values` | value objects shared by the rules: gate and health statuses as ordered integers, symbols, trends |
| `Gates` | the rules of the three gates, the grid builder, the verdict and the launch offer, as operators |
| `Health` | the metrics of an order and the classifier, as operators |
| `RuleCases`, `MCRuleCases` | draws inputs for `Gates` and `Health`, and states what the rules promise |
| `RuleProofs` | proofs for the gates and the builder |
| `HealthProofs` | proofs for the metrics and the classifier |
| `BotLifecycle`, `MCBotLifecycle` | commands, launches and jobs over rows, orders and jobs |
| `BotLifecycleProofs` | its inductive invariant and nine theorems |
| `Fleet` | the abstract lifecycle: a book of bots, the orders, the watched symbols; no handlers, awaits or failures |
| `FleetRefinement` | the refinement mapping: `BotLifecycle` seen as a `Fleet` |
| `FleetProofs` | the proof that `BotLifecycle` implements `Fleet` |
| `HealthMonitor`, `MCHealthMonitor` | checks, alerts, snapshots and auto-adjust of one bot over time |
| `HealthMonitorProofs` | its inductive invariants, six theorems, and the proof that it implements `Bulletin` |
| `Bulletin` | the abstract monitoring: what row and chat say of the status of a bot; no checks, timers or alert types |
| `BulletinRefinement` | `HealthMonitor` seen as a `Bulletin` |
| `Advisor`, `MCAdvisor` | concurrent assessments over snapshots and verdicts; extends `Gates`, so gate 2 and the verdict are the same operators the rule properties are about |
| `AdvisorProofs` | its inductive invariant, five theorems, and the proof that it implements `Ledger` |
| `Ledger` | the abstract assessments: which snapshots are entered and which a verdict has spent; no runs, gates or failures |
| `LedgerRefinement` | `Advisor` seen as a `Ledger` |
| `ApiClient`, `MCApiClient` | the calls to Pionex: semaphore, retries, caches |
| `ApiClientProofs` | its inductive invariant, five theorems, and the proof that it implements `Pool` |
| `Pool` | the abstract semaphore: places and a line served in its order; no attempts, caches or answers |
| `PoolRefinement` | `ApiClient` seen as a `Pool` |
| `Chat`, `MCChat` | messages with buttons, updates, handlers and the error middleware |
| `ChatProofs` | its inductive invariant and four theorems |

`BotLifecycle` and `HealthMonitor` look at the same health check from two
sides.  `BotLifecycle` has many bots, no clock, and of a check only what touches
the lifecycle columns and the stale paused flag; `HealthMonitor` has one bot, a
clock, and everything else a check does.  They share no variable: nothing but
checks writes `health_status`, and no step of a check depends on other bots.

`Chat` and `ApiClient` are the two edges of the system.  In `Chat` a call of a
service returns or raises, whatever it did: what the services do is the subject
of `BotLifecycle` and `Advisor`, which allow any number of commands and launches
of any symbol at any time and so need not know which message they came from.  In
`ApiClient` a request is answered or fails; what an answered or lost create or
cancel does to the orders is in `BotLifecycle`.

Definitions introduced as "Mutant of X" are deliberate mistakes, never used by
a specification: each says how one plausible slip in X would look, and the
property it is paired with in `PROJECT.json` fails when X is replaced by it.
That keeps every property honest about being able to fail.

## 3. How state and actions correspond to the code

### BotLifecycle

| Variable | Stands for |
|---|---|
| `rows` | `grid_launches`, by primary key: symbol, status, `paused_by_monitor`, `external_id`, `health_status` |
| `orders` | what Pionex knows of each order |
| `jobs` | APScheduler's in-memory jobs `hc_<symbol>`, `aa_<symbol>` |
| `tasks` | running handlers and jobs; `pc` names the await one is suspended at, `bot` the entity it holds |
| `up` | the process runs |
| `placed`, `unscheduled` | history: orders placed by the auto launch; symbols whose jobs a close removed, each with whether its cancellation was confirmed |

One action per await of a handler: `FindBot`/`FindNothing` (the query by symbol
and status), `CancelAccepted`/`CancelHttpError`/`CancelAborted`, `Save` (which is
`repo.add`, an INSERT: `Add` and `InsertAllowed` carry the table's primary key,
check constraint and partial unique index), `UnscheduleMonitoring`,
`LoadVerdict`, `PlaceAccepted`/`PlaceRetried`/`PlaceFailed` (each with the
possibility that the exchange acted although no answer came),
`PersistFlushed`/`PersistSwallowed`, `ScheduleMonitoring`, `Classify`,
`UpdateMonitoring` (writes back the paused flag read before the awaits),
`Evaluate`, `NotifyPaused`, `Return`.  `Crash` and `Start` are the process;
`OrderFinishes` the exchange.  `ClosedAtDefault` selects the migrated schema
(`closed_at` has `server_default now()`) or the one without that default.

The status LIQUIDATED is left out: nothing sets it.

### Fleet

`Fleet` says what all of this amounts to for somebody who sees the table, the
exchange and the scheduler only.  `FleetRefinement` maps the lifecycle columns
of `rows` to `book`, `orders` and `up` to themselves, and a symbol to `watched`
when both of its jobs are scheduled.  What it forbids: an entry of the book that
changes or goes away, a second open bot of a symbol, an order cancelled that no
open entry names, a watch ended for a symbol without an open bot, a start that
watches anything but the open bots.  What it openly allows is as telling: an
order is placed apart from any entry, and a new entry names none.

### HealthMonitor

| Variable | Stands for |
|---|---|
| `now`, `due` | the monotonic clock and the next run of the two jobs |
| `health` | the row's `health_status` |
| `snapshots` | the newest `health_snapshots`, as many as the query of auto-adjust fetches |
| `sent` | `AlertService._sent` |
| `check` | the running check: its await, its start, the status it read, the one it found, its alerts |
| `aa` | the auto-adjust job |
| `told`, `unsure`, `streak`, `postponed` | history: the status in the last alert the chat got; an alert lost or its status not stored; YELLOW snapshots in a row; how often the next check was put off |

`StartCheck` is the trigger with the read of the row; `Classify`/`FetchFailed`
the three calls and the classifier; `SendAlert`, `RecordAlerts`,
`StoreSnapshot`, `UpdateBot` the four blocks after it, each of which may fail
silently where it writes or, for the message, where it sends (the notifier
swallows what Telegram refuses); `MissCheck` a run that APScheduler skips because
it is late; `StartAutoAdjust`, `CountYellow`/`CountFailed`,
`EndAutoAdjust` the other job; `LaunchEnds` a launch of the symbol, which adds
both jobs with `replace_existing` and so restarts their timers.  The classifier
may find any status here; which one is the subject of `Health`.

`Bulletin` knows the status in the row, the one in the chat, and the `news`:
another status that was announced and is not stored yet.  `BulletinRefinement`
finds the news in a check between its message and its UPDATE.  A row that
changes without news, or news made while the row waits for earlier news, is no
step of the `Bulletin`; a lost message, and news that is dropped because the
UPDATE fails or the process ends, are.

Two constants hold facts about the released schema: `StatusStored` is FALSE
when every UPDATE of the row fails (an aware datetime in a naive column), and
`SnapshotsStored` is FALSE when every INSERT of a snapshot fails (its conversion
back to an entity lazy-loads `alerts` in async code).  Run `monitor` sets both
TRUE, which lets each single write fail or succeed; run `doc_status_alert` sets
both FALSE.

### ApiClient

| Variable | Stands for |
|---|---|
| `now`, `lag` | `time.monotonic()`, and how far the wall clock has been set back |
| `free`, `waiters` | `_API_SEMAPHORE` and its queue |
| `calls` | the running calls: method, await, attempts made, when they looked into the cache, read the wall clock, were sent |
| `oiCache` | `_oi_cache`, one entry for all symbols of a response |
| `estimates` | `_cache` of `StalenessGuardAdapter`, per parameters |

`Begin`, `BeginOi`, `BeginCheck` start a method and `Attempt` each of its attempts
(the cache of open interest is looked up in every attempt, the guard's once,
before them); `Acquire` takes a slot or queues, `Release` hands it to the oldest
waiter, `Resume` is that waiter's turn.  `Succeed`, `SucceedOi`, `RetryLater`,
`Fail` are the ends of a request, `Retry` the end of a back-off.  An answer
carries `seen`, the time between sending and answer at which the exchange looked
at its books; that is what freshness is measured by.  Four kinds of methods stand
for all: those whose answer is not cached (`order`), the one that is not retried
either (`funding`), and the two cached ones.  Timestamps of signed requests are
left out.

`Pool` has places, `inside`, and a `line`.  `PoolRefinement` maps the calls that
hold a permit to `inside` (a waiter that was handed one holds it before it is
resumed) and the semaphore's queue to `line`.  Nobody enters while others wait,
a place that is left while somebody waits is taken by the first of the line in
the same step, and nothing else moves the line.  In one case the last is not to
the letter.  When a permit comes free while the only waiter has been handed
another one and not been resumed yet, asyncio counts it as free, lets a call that
arrives in that turn of the loop queue all the same, and hands it the permit when
the waiter is resumed; the model hands it over at once.  Order and number of
permits are the same.

### Chat

| Variable | Stands for |
|---|---|
| `now`, `up`, `crashes` | the wall clock; the process polls; restarts so far |
| `cards` | messages with buttons, and the buttons they still show |
| `updates` | presses and commands, from the user to the end of their task: whether a poll confirmed them, the await they are at, what the user got to see |

`Script` lists the awaits of every handler; `Answer`, `Return`, `Edit`, `Reply`
complete one and go on to the next.  `Fail` is an exception in one of them
(but not in a loop or a read that swallows its own), which ends in the middleware: `Raised` decides whether there is a
chat to reply to and whether its message is too old, `ErrorReply` sends or fails.
`Poll` is aiogram's: it confirms the updates it took before and starts a task for
each new one without waiting for it.  `Crash` ends all tasks; what was not
confirmed comes again.

### Gates, Health, RuleCases

Operators only.  Prices, rates and percentages are integers on a scale chosen
per rule, and comparisons of quotients are cross-multiplied, so they are exact.
Where a quotient is a value of its own (`LiquidationDistance`, `FillRatio`) it
is rounded to the side on which comparing it with an integer limit gives what
the unrounded one gives.  `RuleCases` has one variable, the input, so that the
properties are invariants and the same statements can be proved.

### Advisor

| Variable | Stands for |
|---|---|
| `now` | day, and a tick within it |
| `snaps` | `oi_snapshots`, at most one per symbol and day |
| `last` | the newest row of `decision_logs` per symbol |
| `tasks` | running assessments, with `pc` at an await and the locals of the run |
| `judged` | history: how many verdicts judged the snapshot of a day |

`Gate1`, `FetchMarket`, `ReadHistory`, `StoreSnapshot`, `Gate3`,
`PersistVerdict`, `ReadPrevious`, `Notify` are the awaits of a run in the order
of the code; each may fail as its block can: with an exception that ends the
symbol (`Abandon`), with a swallowed failure (`None`), or with a commit that
loses rows the caller believes in (`Lost`).  `Crash` ends all runs.

`Ledger` is the same for the reader of the decision log.  `LedgerRefinement`
maps the stored rows to the days on which one was entered, `judged` to the days
whose snapshot was spent, and the newest row to what it says.  A verdict that
says LAUNCH has to spend an entered snapshot that no other verdict has spent or
will spend; one that judged a snapshot whose commit was lost (`Lossy`) says
"blind", for its gates saw what the table never held.

## 4. The runs, their bounds and what they show

| Run | Instance | Shows |
|---|---|---|
| `lifecycle` | 1 symbol, 2 rows, 2 orders, 2 concurrent tasks, the schema without the default of `closed_at`; at the start no row, or a running one with a live order, a paused one of a manual launch, or a closed one | `TypeOK`, `OneOpenPerSymbol`, `PausedFlagAgrees`, `MonitoringCoverage`, `OrphansUnreachable`, `LiveOrdersWatched`, `ImplementsFleet`, `TasksRunDown`; with fairness `Answered`, `LaunchedGetsMonitored` |
| `monitor` | interval 3, auto-adjust every 4, debounce 2, a check takes up to 1, threshold 2, clock to 12, the next check put off at most once | `NothingSuppressed`, `ChatAgrees`, `ChecksKeepComing`, `SuggestsOnStreak`, `ImplementsBulletin` |
| `rules` | values at, just below and just above every limit of the rules | `PositioningMonotone`, `StopsBracketPrice`, `LiquidationSafe`, `OfferedOnCalmReadings`, `WorseNeverBetter`, `ScoreBounded`, `LiquidationSeen` |
| `advisor` | 1 symbol, 2 concurrent runs of any kind, 2 days, window of 1 day, failures, fairness | `LaunchesAreFresh`, `BaseIsOlder`, `ImplementsLedger`, `RunsRunDown`, `EveryRunEnds` |
| `client` | 3 calls for 2 slots: open interest of 1 symbol, the estimate for 1 set of parameters; both times to live 2, clock to 2 | `TypeOK`, `SemaphoreSound`, `OiFresh`, `CallsRunDown` |
| `client_live` | 3 calls for 1 slot: funding (not retried), the estimate for 1 set of parameters; time to live 1, clock to 1, wall clock set back by at most 1, fairness | `EstimateFresh`, `ImplementsPool`, `EveryCallEnds` |
| `chat` | 2 updates, 1 card: a digest or a RED alert, or `/reconfigure`; a reply possible up to age 1, an answer at age 0, clock to 2, 1 restart | `LaunchesInTime`, `SilenceExplained`, `ButtonsUntilDone` |
| `doc_launched_order`, `doc_pause`, `doc_manual_launch`, `doc_funding_fails`, `doc_status_alert` | small instances of the above | each finds a counterexample to a sentence of the documentation or a test; see section 7 |

Some properties are theorems and no run's question, since another property says
more.  `StoredWasTold` is what `ImplementsBulletin` says of one step;
`BuiltNeverCautions` is behind `OfferedOnCalmReadings`; the type invariants of
`HealthMonitor`, `Advisor` and `Chat` are proved, and their runs spend the time on
the rest.

Why the bounds are enough.

* *Lifecycle.*  Two tasks are needed for every race named in section 1 (two
  launches, a close and a launch, a check and a command); none of the properties
  relates three.  Two rows and two orders let a second launch store or place
  something beside the first.  The proofs of section 6 lift all of these bounds;
  only `Answered` and `LaunchedGetsMonitored` depend on the instance.  The schema
  without the default of `closed_at`, which its check constraint calls for, is the
  richer one: manual launches store rows.  With the migrated one they do not; the doc
  runs use it.
  A row without an order is the same whether an earlier run left it or a manual
  launch stores it, and pausing and resuming change no order, so that one old row
  per status is enough.
* *Monitor.*  The clock sees four checks, one more than the query of auto-adjust
  looks at, and three auto-adjust runs, with the smallest
  numbers that satisfy `RareChecks` (debounce + longest check <= interval, as
  5 + a few minutes <= 30) with equality, where an error of one shows.  The
  intervals of the jobs are not multiples of each other, so that auto-adjust
  falls before, into and after a check.  All of it is proved for every instance.
* *Rules.*  Every comparison in the rules has inputs on both sides of it and on
  it, for every symbol and trend.  The proofs cover all integers.
* *Advisor.*  Two runs race for one snapshot.  Two days are enough to lose one,
  meet one as a duplicate, find a fresh one the day after, and have a history of
  two rows, the second stored while the reading run was suspended; with a
  window of one day the older row is at its edge or outside.  One tick a day hides
  nothing the properties look at.  Funding is calm, so that gate 2 tells a
  snapshot with a history (PASS) from one without and from none (CAUTION); its other
  answers are in `rules` and `doc_funding_fails`.  That a run goes on from one symbol to the next
  is left to the proofs, which cover any list of symbols (`RunsEnd`,
  `LedgerImplementation`), any number of runs and any clock.
* *Client.*  More calls than slots, so that some queue while others hold and back
  off; the clock reaches the time to live and outlasts the first back-off.  Two
  calls miss a cache together, and the later answer of the earlier one replaces the
  other's entry.  `client_live` adds the call that is not retried, a single slot and
  a clock that is set back.  Uncached signed calls and more symbols
  are in no run; all but `EveryCallEnds` is proved for every instance.
* *Chat.*  Two updates are a press and its repetition, or two users; one restart
  loses or repeats them.  Telegram takes answers for less time than the 300 s
  within which the middleware replies, hence the ages 0 and 1, and time 2 is
  beyond both.  `/reconfigure` is the command with a reply on either side of a
  service call; the lists of awaits of the others are parts of it, but for
  the loop or read in them that never raises.  All of it is proved for every
  instance, with every command.

Deadlock is checked except in `chat`: some step is possible in every other
state, since a process can be stopped and started again, a call made and an input
forgotten.  An instance of `Chat` stops when its updates are used up, its restarts
are spent and its clock is at the bound.

## 5. Fairness

`FairSpec` of `BotLifecycle` and `Advisor` (`MCFairSpec` in run `lifecycle`) asserts
`WF_vars(Step(t))` for every task: asyncio resumes every coroutine whose await is over, and each await ends,
since HTTP calls have timeouts, retries are bounded (three attempts) and database
calls return or raise.  Nothing is assumed of the users, the clock, the exchange,
or of any call *succeeding*: the liveness runs hold with every call failing.
Weak fairness suffices because only the task itself or a crash disables its
step.  `LaunchedGetsMonitored` rests on the same: once the row is stored, only
`ScheduleMonitoring` of its launch stands between it and its jobs.

`FairSpec` of `ApiClient` adds `WF_vars(Tick)`, the clock, without which a
back-off would not end, to `WF_vars(Step(c))` of every call.  Weak fairness suffices for the queue as well: a
permit is handed to the oldest waiter, who cannot lose it again, so no waiter
depends on the others being unlucky.  The end of the modelled time ends every
back-off.

What fairness has to supply is little: `TasksRunDown`, `RunsRunDown` and
`CallsRunDown` say that every step that touches a running task, run or call, its own
or another's, makes a measure smaller (`StepsLeft`, the awaits it has before it
at the most), and they are proved for every instance.  So none can go round in
circles; left to the liveness runs is that its next step stays possible, and is
taken.

`HealthMonitor` states "checks keep coming" as a bound
(`ChecksKeepComing`), hence needs no fairness.

## 6. The proofs

All are checked by TLAPS for every value of the constants that satisfies the
named assumptions (`ConstantsOK`, `InputsOK`, `RareChecks`, `NoNews`, `ClientOK`,
`CachesOK`, `ChatOK`), which TLC evaluates in the runs.

**`BotLifecycleProofs`.**  `OneOpenPerSymbol` and the others are not inductive
by themselves: what a save does to the table depends on the entity the task read
many awaits ago.  `IInv` adds `TaskOK`, what each task knows at its await (the
entity it holds still has the lifecycle columns of its row; a new bot to persist
has no exchange id; the order of a confirmed cancellation is not live), and
`ExtKnown`, that ids in rows name orders that exist, so a newly placed order
belongs to no row.  Two lemmas carry the interleaving: every step keeps rows and
never revives an order (`StoresOK`), and whatever keeps those keeps `TaskOK` of
all other tasks.  `Inductive` gives `TypeCorrect`, `OneOpen`, `PausedFlag`,
`Coverage`, `Orphans`, `LiveOrders`.  The last needs `OneOpenPerSymbol`: the row
that a close still holds when it removes the jobs is the only open one of its
symbol (`CloseHoldsTheRow`), so no other live order loses its watch with it.
`RowsNeverChange` and `TableNeverChanges` (assuming `ClosedAtDefault`) are not
promises but the facts behind `doc_pause` and `doc_manual_launch`, for every
instance: as released no step changes a lifecycle column or adds a row.
`TasksEnd` is an action property from the same invariant: each await leads to awaits with fewer steps
left, and the one that repeats itself, the POST of a launch, counts its attempts
(the types bound them).

**`FleetProofs`.**  `Implementation`: `Spec => ImplementsFleet`.  `InitImplements`
maps the initial states; every action of `BotLifecycle` is shown to be a step of
the `Fleet` or a stutter, from `IInv` of `BotLifecycleProofs`: `TaskOK` supplies
that a saved entity has the columns of its row, that a cancelled order is the one
an open row names, and that a close which removes jobs still has its row.  The
lemmas at its head translate table to book and job store to watch.

**`HealthMonitorProofs`.**  `Inv` has three parts besides types.  `Timing`: the
next check is due one interval after the running one began or later.  `Stamps`:
every stamp in `sent` is older than the running (or next) check by an interval
minus the duration of a check; this is what makes the debouncing inert, and it
survives resets of the timers and missed runs because those only postpone.  `Chat`: at each await
of a check, which of the row, the status found and the chat agree; it needs
`NothingSuppressed`, since a change the debouncing swallowed would break it.
`StreakStored` adds that the streak is what the newest stored snapshots say, a
bounded queue related to an unbounded count; an invariant of its own since it
needs `Inv` and nothing else needs it.
`Informed` is the other such invariant: a check past its message has alerts or found
the status of the row, since a change of status is an alert that is never held
back.  With it `BulletinImplementation` goes by the actions of a check: the message
is an announcement or, when only metrics are RED, a reminder; the UPDATE stores
what was announced, its failure and the end of the process drop it.  `NoNews` is
all it assumes: None is not a piece of news.
Theorems: `TypeCorrect`, `Undebounced`, `ToldFirst`, `Agreement`, `KeepComing`,
`SuggestsInTime`, `BulletinImplementation`.

**`RuleProofs`.**  `InputsDrawn` says what inputs can be; the rest is about the
rules for all integers.  `Monotone` cross-multiplies rises of open interest;
`Bracketed` and `NeverCautions` rest on lemmas about the clamped stop distance
(between the minimum and 30% of the price, on a positive price); `Safe` splits
by trend.  `Calm` is an equivalence, in two lemmas: `OfferedOnlyInCalm` splits by the
ways to a launch offer; `CalmIsOffered` shows that on calm readings gate 1 finds
nothing to object to, gate 2 a missing history or snapshot at the most, and gate 3,
which for a built grid is PASS or FAIL, passes.  It is about readings, not about the
market: without a snapshot there is none of the funding rate, and the equivalence
then says that a launch is offered at any (which is how `doc_funding_fails` comes
to matter).  The one assumption is the range of the
drawn inputs.

**`HealthProofs`.**  `NeverBetter` takes the metrics one at a time: which limits
each is compared with, and that a status built from worse parts is no better.
`Bounded` sums the parts of the score; `Seen` follows the liquidation price that
is picked to the distance and to the alert.

**`AdvisorProofs`.**  `LaunchesAreFresh` needs to know who may still judge a
snapshot.  `OneADay`: one row per symbol and day.  `JudgedOnce`: a stored
snapshot is unjudged, or held by exactly one run, or spent on one verdict.
`LaunchesHaveSnapshot`: a LAUNCH names one; `TaskOK` says why (a result without
a snapshot is a CAUTION).  `BaseIsOlder` holds since two rows are a history and the index
allows one of today.  `OwnVerdictLast` (one run, no failures: the newest verdict is the
run's own) gives `SilentDaily`: the daily check never reaches its alert.
`RunsEnd` orders the awaits of a run by symbol, then by gate.
`LedgerImplementation` needs of `IInv` that a result with a stored snapshot names one
nobody has judged (`JudgedOnce`), so that its verdict can spend it, and of `TaskOK`
that only failures leave a result that is `Lost`.
Theorems: `TypeCorrect`, `FreshLaunches`, `OlderBase`, `SilentDaily`, `RunsEnd`,
`LedgerImplementation`.

**`ApiClientProofs`.**  `SlotsConserved` counts the calls that hold a slot, and is
inductive together with `QueueOK`: the queue holds the waiting calls, each once
(`SemaphoreSound` is the two).  `Moves` says of every step of a call that it
keeps its slot, takes a free one, queues, or gives one up to the first in the queue,
and that it takes the call nearer to its end.  `Permits`, `CallsEnd` and
`PoolImplementation` are each shown for these four moves, not action by action.
Freshness needs `EntriesOK`, that the stamp of an entry is not later than the
time the exchange saw what it holds, whichever answer stored it, and `CallOK`,
the order of the times within a call.  The bound of the guard has the term `lag`:
it reads the wall clock, so an estimate lives as much longer as that clock is set
back.  Theorems: `TypeCorrect`, `Permits`, `OpenInterestFresh`, `EstimatesFresh`,
`CallsEnd`, `PoolImplementation`.

**`ChatProofs`.**  `Inv` says of every update which awaits lie behind it (`Placed`)
and what the user was told on the way (`Said`), from `Orderly`, a fact about each
handler's list of awaits: an edit follows a service call, a launch follows its
answer, a handler that comes to its end has spoken.  Theorems: `TypeCorrect`,
`LaunchWindow`, `Silence`, `Pressable`.

**Only model-checked.**  `Answered`, `LaunchedGetsMonitored`, `EveryRunEnds` and
`EveryCallEnds`, since liveness under fairness is outside TLAPS's reach; the
measures they rest on are proved.  Every
invariant and every action property of a passing run is a theorem.

## 7. Where the code and its documentation disagree

Five disagreements have a run that exhibits them.

* `doc_launched_order`.  `place_grid` never sets `external_id`, so the auto
  launch raises after the order exists and stores no bot.
  `src/tests/unit/application/services/test_grid_service.py:160`.
* `doc_pause`.  `BotManagementService._save` calls `repo.add`, an INSERT of an
  existing primary key; the provider swallows the error.  `/pause` leaves the row as
  it was and replies success, and so do `/resume`, `/close` and auto-pause
  (`RowsNeverChange`); `Fleet` has no action for them.  README:176, README:209-211; the test
  asserts the flag and the status on the entity in memory,
  `src/tests/unit/application/services/test_bot_management.py:150`.
* `doc_manual_launch`.  New rows omit `closed_at`, whose server default violates the
  table's own check constraint: no launch stores a bot (`TableNeverChanges`).
  `on_launch` schedules jobs for it all the same.  README:201 and
  `src/tests/unit/application/services/test_grid_service.py:200`.
* `doc_funding_fails`.  The second assessment of a day meets the unique index on
  snapshots; the provider swallows the error, the service returns `None`, and
  gate 2 answers CAUTION whatever the funding is.  README:59.
* `doc_status_alert`.  `last_health_check_at` is aware, its column is not; the
  UPDATE always fails and is swallowed, the row stays GREEN, and a recovery is
  never announced.  README:140.

Others found while reading, part of the models where they touch their state and
without a run of their own:

* The daily check stores its verdict, then reads the newest verdict as "previous"
  and compares it with itself, so the alert on a change (README:226) never
  comes: theorem `SilentDaily`.
* The Details button of alerts carries the action "details", which no handler takes
  (`presentation/bot/keyboards/inlines.py:58`) and which is no `ActionType`, as the comment at line 22
  promises.  A press does nothing, not even end the button's spinner.  README:151.
* `/verdict` reads the newest verdict of BTC only (`decision_handlers.py:59`),
  whichever symbol was judged last (README:198); its hint to run `/assess` names a
  command that does not exist.
* An assessment whose runs all fail is reported as complete
  (`decision_handlers.py:39`); the test of the weekly one expects a reply that says
  so.  `src/tests/unit/presentation/bot/test_decision_handlers.py:110`.
* A check writes back the paused flag it read before its awaits
  (`bot_repository.py:93`).  As long as pauses are not stored there is nothing newer
  it could undo; `PausedFlagAgrees` keeps watch for the day they are.
* A close whose cancellation failed with an HTTP error still removes the jobs and
  replies "closed".
* Open interest up more than 20% fails gate 2 only when funding is crowded
  (README:60); two snapshots of any age are a history (README:61).
* A thin liquidation buffer is judged on the losing side only and excused by a
  stop-loss in front of it (README:71); a neutral grid passes with a buffer on one
  side only.  `LiquidationSafe` states what the rules do guarantee.
* Only a FAIL of gate 1 skips the later gates (README:42).
* `unrealized_pnl`, an amount, is passed as `unrealized_pnl_pct`
  (`health_monitor_service.py:206`), and `last_price` of a row is set to the
  liquidation price (`:281`).  The score of a RED pnl can exceed 1;
  `ScoreBounded` excludes exactly that case.
* The debouncing never acts (`NothingSuppressed`): 5 minutes against checks 30
  minutes apart.  The intervals in the settings are not used; 30 and 60 are fixed
  in `lifecycle.py:16-17`.
* Snapshots are never stored as released, so the YELLOW suggestion (README:177)
  never comes; `SuggestsOnStreak` holds either way.
* Chat buttons act on a symbol, not on the bot they were shown for.
* A press that Telegram delivers twice while it still takes an answer launches twice;
  `LaunchesInTime` only keeps later ones from doing so.
* `get_running_bots` takes the timestamp of its request before it queues for a
  slot, so it may leave outdated; nothing calls it.  The other signed requests take
  theirs inside the slot.
* The grid request model takes a leverage of at most 3
  (`infrastructure/http/pionex/models/bot.py:18`) where gate 3 allows 5 (README:70);
  the builder's default of 1 keeps clear of both.
* The handler of the `resume` callback has no button.

## 8. What is not modelled

* Floats: rules are in exact arithmetic.  Rounding in `last - (last - d)` or in a
  ratio at a limit is outside the models.
* Indicators (`indicator_service.py`): pandas-ta over candles.  Only the relation
  between the last price and the 14-day range is used.  `grid_levels`: no rule
  reads it.
* Formatter and the texts of the error presenter: wording and layout, no state.
  Parsing of Pionex's answers into models: a malformed answer is a failed call.
* The nightly clean-up: it deletes snapshots of 90 days ago, far beyond the five
  rows auto-adjust looks at.
* Settings, logging, the exception classes: configuration and plumbing.
* `run_all_checks` and `evaluate_all`, which nothing calls.
* A database that is down at start-up: `main` ends, as after a crash.
* *`Advisor` composed with the launch buttons.*  A launch button carries the id of a
  verdict, and its handler reads that row, which nothing changes; whether it was
  superseded is not asked.  `BotLifecycle` lets every launch find its verdict or
  miss it, at any time, so the product would only have fewer behaviours.
* *`BotLifecycle` joined with `HealthMonitor`.*  They meet in `health_status`, which
  `BotLifecycle` lets a check set to anything; the same holds.

## 9. Plan

The plan of this project is carried out: values, gates and builder, classifier and
metrics, lifecycle and the fleet it implements, monitoring, advisor, HTTP client and
chat are modelled and checked, every safety property checked is proved, and four of
the five stateful components are proved to implement an abstract specification.
`Chat` is the fifth: what its user is promised (`LaunchesInTime`,
`SilenceExplained`, `ButtonsUntilDone`) could be stated as one too.

What a change of the code would call for:

* When `_save` becomes an UPDATE, `doc_pause` must pass, `RowsFrozen` and
  `TableFrozen` will fail and the `Fleet` needs actions for pausing and closing an entry; `OneOpenPerSymbol`,
  `PausedFlagAgrees` and `TaskOK` are stated so that they should survive it.
* When `place_grid` sets `external_id`, `Place` and `Enter` become one step of the
  `Fleet` but for a crash between them.
* When new rows get no `closed_at`, `ClosedAtDefault` is always FALSE and
  `doc_manual_launch` must pass as an ordinary invariant.
* When the naive column takes the aware time, `StatusStored` is always TRUE and
  `doc_status_alert` must pass as an ordinary invariant.
