# Verification of robinhood-mcp

TLA+ models of the execution engine of robinhood-mcp, of its order strategies, of the executor and
client that carry its orders to Robinhood, and of the reports made of its executions; model-checked
with TLC and, but for liveness, proved with TLAPS. The program keeps trading jobs in a SQLite file and
advances them for days, through crashes, restarts, lost answers and operators; the models say what
must hold meanwhile.

Paths below are relative to the repository's root, so the implementation is under `src/`.

## The system

| Component | State it keeps | Operations | Interacts with |
|---|---|---|---|
| Job life cycle, `src/engine/job.ts` | the status of a job and of an order intent | `assertTransition` | used by the store |
| Job store, `src/engine/store.ts` | tables `jobs`, `order_intents`, `job_events` in one SQLite file | `createJob`, `updateJob`, `dueJobs`, `reserveIntent`, `settleIntent`, `pendingIntents` | shared by every process |
| Supervisor, `src/engine/supervisor.ts` | the timer, the `ticking` flag, the row it is advancing | `start`, `reconcile`, `tick`, `advanceJob`, `performAction`, `failJob` | store, strategies, executor |
| Strategies, `src/engine/strategies/*.ts` | a JSON object in the job's row | `init`, `advance` | called by the supervisor; they return actions and never act |
| Executor and policy, `src/shared/executor.ts`, `execution-mode.ts` | the spend ledger (memory) | `price`, `assertAllowed`, `submitOrder`, `cancelOrder`, `findOrderByClientOrderId` | kill switch, client |
| Kill switch, `src/shared/kill-switch.ts` | one row of the same SQLite file | `read`, `write` | read before each order; written by the risk tools |
| Client, `src/shared/client.ts` | the token bucket | `request`, `getAllPages` | Robinhood |
| Reports, `src/analytics/cost-basis.ts`, `src/tools/risk.ts`, `src/tools/journal.ts` | - | `computeCostBasis`, `buildPnlCurve`, `peakToTrough`, `buildRoundTrips` | the order history |
| Processes, `src/daemon.ts`, `src/trading-server.ts` | - | start, stop, death | each has a supervisor on the same file |
| Tools, `src/tools/*.ts` | - | `algo_start`, `algo_cancel_job`, `risk_kill_switch_engage`/`release`, order tools, reports | store, executor |

What is hard about it: every handler is cut by awaits, and what it read before an await is
used after it (a job row, the kill switch, the daily cap); a crash can come between any two
writes; a POST can be lost, refused, or accepted with a lost answer; a lookup can be
unfinished; the order tools run beside the supervisor of their process, and several processes
work on the same file at once. What makes
each part correct:

- the engine: at most one order per slice of a job, whatever crashes; no intent forgotten; no
  live order given up; an ended job stays ended; due jobs advance; a halt halts;
- an exit strategy (bracket, OCO, trailing stop): never two exits for one position, none for a
  position that does not exist, and no end of the job that leaves an order unwatched;
- a maker (grid, chase, iceberg): never more than the requested size, and inventory only from
  fills that happened;
- a schedule (TWAP, DCA, accumulate, ladder, rebalance): the total and the number of orders
  stay within what was asked, and it ends;
- the way to Robinhood: what the daily cap lets through is bounded although it is checked before
  the awaits of a submission and counted after them; the limiter never overdraws; a lookup is
  honest about what it did not see; every call comes back;
- the reports: lots are matched first in first out, nothing is made up where the history is
  incomplete, two reports of one history agree, and the drawdown is the worst there was.

`PROJECT.json` lists every component with its status and every hazard with its line.

## Modules

| Module | Models |
|---|---|
| `JobModel` | the statuses, the transition table and `updateJob`'s test (`job.ts`, `store.ts:212-217`) |
| `Engine` | store, supervisors, the reserve / submit / settle protocol, restart, tools, Robinhood |
| `SliceLedger` | the abstract promise of the engine: slices of a job are released in order, at most one order is sent for each |
| `MCEngine` | the symmetry set for TLC |
| `EngineProofs` | the theorems about `Engine` |
| `StrategyHost` | what a strategy runs on: one job, one supervisor, the job's orders at Robinhood, the tools |
| `Legs` | what a job has learnt of an order from the open orders (`observe`, `isResolved` of five strategies) |
| `ExitLegs`, `Bracket`, `Oco`, `TrailingStop` | the exit strategies |
| `Exits`, `MCExits` | the exit strategies on the host, their properties; the trails for TLC |
| `Clock` | the time a deadline is compared with |
| `Chase`, `Iceberg`, `Grid` | the strategies that rest orders in the book |
| `Makers` | these three on the host, and their properties |
| `Sizes` | rounding a size to the venue's increment (`executor.ts`), and the id of an order that has none of its own |
| `Samples` | the window of sampled prices (`accumulate.ts`, `momentum.ts`, `mean-reversion.ts`) |
| `Twap`, `Dca`, `Accumulate`, `Ladder`, `Rebalance` | the schedules and plans |
| `Position`, `Momentum`, `MeanReversion` | one position on a signal: what the two strategies share, and each signal |
| `Takers`, `MCTakers` | these seven on the host, and their properties; the rebalance plans for TLC |
| `HttpClient` | the token bucket all callers of a process share, and the attempts of a request (`client.ts`) |
| `OrderGate` | pricing, policy, ledger and submission of an order (`executor.ts`, `execution-mode.ts`), and the shapes the order tools let through |
| `OrderLookup` | `findOrderByClientOrderId` and the walk of the pages, while orders arrive |
| `Gateway`, `MCGateway` | these three together: a process, its concurrent callers and the venue; the orders for TLC |
| `GatewayProofs` | the theorems about `Gateway`: types, lookups and the daily cap |
| `HostProofs` | what `StrategyHost` keeps whatever the strategy is |
| `ExitsProofs`, `TakersProofs` | the theorems about `Exits` and `Takers` |
| `MakersProofs` | the theorems about `Makers`: chase and iceberg, then the grid |
| `SumLemmas` | lemmas about the sum of a function over a finite set and about folds over a sequence |
| `FillReports`, `MCFillReports` | tax lots, profit curve, drawdown and round trips over a history of executions; the executions for TLC |
| `ReportsProofs` | the theorems about `FillReports` |

### Engine: state

- The database, which survives a crash and is shared: `status`, `released` (the `state`
  column), `due` (the jobs whose `next_run_at` has passed), `intent` (the `status` of an order
  intent, by client order id), `unresolved` (what a reconcile reported),
  `engaged` and `pausedJobIds` (the kill switch row).
- The memory of each process, lost in a crash: `pc`, the work list of reconcile (`todo`,
  `answer`), the rows a tick read (`batch`, `seen`), and the job being advanced (`cur`,
  `toCancel`, `toSubmit`, `done`, `cid`).
- Robinhood: `order`. An order is `wire` while the request is on its way, then `live` or
  `refused`, and `closed` once filled or cancelled.
- `toolOrders`, also memory: how many calls of order tools a process has parked at the awaits behind
  the last check. They use the executor the supervisor uses and have no intent.
- `crashes` bounds the crashes; `sentSinceHalt` and `clearedAtHalt` are history variables: the orders
  sent since the last engage, and those it found past the check and unsent.

A strategy is what the engine sees of it: a job is a sequence of slices, the persisted state
is how many have been released, and an advance may release some more, ask for one open order
to be cancelled, end the job, wait, or throw. A client order id is a triple (job, slice,
mint): the program's ids are random, and writing the slice into the id is what lets
"the same slice twice" be said. `Mints` is how many ids can be minted for one slice.

### Engine: actions

| Action | Code |
|---|---|
| `Start`, `Recovered` | `start`: load the pending intents; once reconcile is through arm the timer, which keeps ticking only in a process something else holds open (`AfterStart`): in a trading server, and not in a daemon |
| `Lookup`, `ApplyLookup` | one iteration of `reconcile`: Robinhood's answer, and what is written after the await |
| `Tick`, `CallStrategy`, `EndTick` | `tick`: the snapshot of `dueJobs`, then one job after the other |
| `StrategyReturns` (`Persist`) | `advanceJob` 199-213: the step is persisted before any action |
| `StrategyThrows` | `failJob` |
| `CancelOrder`, `CancelFails` | the cancel actions, which come first in every strategy's list |
| `RefuseOrder`, `ReserveIntent` | `performAction` 272-285: a price is awaited, the checks run, the intent is written |
| `ClearToSend`, `RefuseReserved` | `submitOrder`: priced and checked a second time |
| `SendOrder` | the POST leaves, after the awaits of the account number and of a rate-limit token |
| `OrderAnswered`, `OrderRefused`, `AnswerLost` | the intent is settled: submitted, or failed whatever the reason |
| `EndAdvance` | `advanceJob` 227-239 |
| `UpdateThrows` | `JobTransitionError` from an `updateJob` outside every `try`: the process exits |
| `ClearToolOrder`, `SendToolOrder`, `ToolOrderFails` | an order tool in `submitOrder`: past the last check, sent, or given up because the account could not be read |
| `algo_start`, `algo_cancel_job` | the tool handlers, each without an await that matters |
| `risk_kill_switch_engage`, `PauseJob`, `EngageReturns` | the engage: the switch is written, the running jobs are paused one by one, the row is written again with their ids |
| `risk_kill_switch_release`, `ResumeJob`, `ReleaseReturns` | the release: the recorded jobs are resumed one by one, then the switch is written |
| `Judge`, `Close`, `BecomeDue`, `Crash` | Robinhood, time, and the crash of a process |

One action is the code between two awaits: Node runs it without interruption. A few actions
split a stretch that has no await (`Tick` and the first `CallStrategy`; `Persist` and
`EndAdvance` of a step without actions). That adds behaviours and removes none, so what is
proved or checked to hold holds without them, and every violation listed below also happens at
a real await. The kill switch's handlers have no await either, but each of their writes is an action:
while one runs, its own process does nothing else (`NoCall` guards the rest), another process may
write between two of them, and a crash may cut it short.

### The strategies: state and actions

A strategy never acts: `advance` reads the open orders and quotes and returns a step, which the
supervisor persists and then performs. So each strategy module is a set of actions, one per
branch of `advance`, that end in `Return` (the step) and live on `StrategyHost`. The host is the
engine as one job notices it, at the same grain as `Engine`: `Tick`, `Return` or `FailJob`,
`RefuseOrder`, `ReserveIntent`, `SendOrder`, the three answers, `CancelOrder` and `CancelFails`,
`EndAdvance`, `UpdateThrows`, `Crash` and `Restart` (with its reconcile as one action, which
`Engine` has step by step), and `Engage`, `Release` and `CancelJob`.

- The database: `strategy`, `status`, `lastError` (whether the column is null: `release` and each
  advance clear it, and strategies read a refused order from it), `state`, `intent`, the switch.
- The memory of the process: `pc`, `row` (what the job looked like when the tick read it),
  `actions` still to perform, `done`.
- Robinhood: `order`, `request`, `filled` (one unit at a time), `cancelSent` (an accepted cancel
  takes effect later, or never), `read` (an order that was live at one reading of the open
  orders is listed by the next).
- `disturbed` is a history of what came between the code and its plan: a crash, a halt, an
  order cancelled by other means.

`Faults` selects what may go wrong outside the process; the list is at its declaration. Reading
the open orders and returning are one action: nothing the process does in between is seen by
others, and what others do in between has the effect it would have after the return.

| Module | Action | Branch of `advance` |
|---|---|---|
| `Bracket` | `BracketEntry`, `BracketEntryFill`, `BracketExits`, `BracketMonitor`, `BracketSubmitRejected`, `BracketRoundedToZero` | the four phases, the reading of `last_error`, a quantity of zero |
| `Oco` | `OcoPlace`, `OcoMonitor`, `OcoCancelling`, `OcoLegRejected`, `OcoDoubleFill`, `OcoRoundedToZero` | the three phases, both readings of `last_error` |
| `TrailingStop` | `TrailingNoPrice`, `Dormant`, `Arm`, `Trail` | no quote, before activation, the first watermark, the trail and its exit |
| `Chase` | `ChaseOpening`, `ChaseWatch`, `ChaseConfirm`, `ChaseCancelRefused`, `ChasePostRejected`, `ChaseRoundedToZero` | `post`, the watch, `resolveCancel` |
| `Iceberg` | `IcebergExpire`, `IcebergOpening`, `IcebergWatch`, `IcebergSliceRejected` | the deadline, the first slice, a slice resting or replaced, a refused slice |
| `Grid` | `GridWork`, `GridNoPrice`, `StopGrid`, `BreachStop`, `GridOrderRejected` | observe, settle, seed and place; the stops |
| `Twap` | `TwapDone`, `TwapRoundsToZero`, `TwapSkip`, `TwapSlice` | the early returns, a price past the limit, a slice |
| `Dca` | every disjunct of `DcaAdvance` | the early return, the skipped and the bought occurrence, both endings |
| `Accumulate` | every disjunct of `AccumulateAdvance` | target reached, warming up, no dip, price above the limit, a slice |
| `Ladder` | `LadderRejected`, `LadderPlaced`, `LadderPlace` | the reading of `last_error`, the end one advance after the last batch, a batch |
| `Rebalance` | every disjunct of `RebalanceAdvance` | one batch per advance, the sells before the buys; retries and skipped legs; the end |
| `Position` | `PositionClosed`, `PositionExpires`, `PositionRejected`, `PositionNoPrice` | what momentum and mean reversion have in common |
| `Momentum`, `MeanReversion` | the disjuncts of their `...Advance` | warming up, the entry, holding, the exit of each signal |

Abstractions. A client order id is one of `Legs`: the bracket and the OCO name theirs, the others
take one nobody has used. A bracket, an OCO or a trailing stop is for a position of one unit. The
prices of a chase are distances in the direction the book runs away from the order, so one model
serves both sides; a grid's level number is its price. Counters that are only compared with a
small number are capped there. The seven takers:

- Sizes count a unit finer than the increment, so that rounding down shows; the program's binary
  fractions are taken as exact. The slices of an iceberg and the exit of a grid are rounded likewise.
  A purchase of DCA is one unit, a ladder's sizes count increments.
- TWAP, DCA, accumulate and the ladder are modelled buying; selling mirrors each test.
- `interval_minutes` and `next_run_at` are not modelled: an advance may come at any time. The
  deadlines of accumulate, momentum and mean reversion are compared with `Clock`.
- A ladder's rungs have their ids from `init`. The other takers leave the id to
  the submission; here the order takes it when the step is returned, which nothing can observe.
- A rebalance starts from one of a set of plans, the legs within the tolerance already left out.
- Mean reversion's test against a standard deviation compares squares of integers.

`init` is `Init`: what it refuses never becomes a job, and a quantity that
rounds to zero later is the field `sized`. Entry prices, realized profit and every text are left
out.

### The gateway: state and actions

`Callers` are the tool calls and the supervisor of one process. Each is at one await at most:
`task` says in which call (`pricing`, `account`, `posting`, `cancelling`, `walk_account`,
`walking`) and `req` where its request is (`queued` for a token, `flying`, in `backoff`,
`answered`, `failed`). Shared are `tokens`, the ledger `spent` and the cached `account`. The venue
is `ordered` (the value it accepted), `lost` (the part whose answer was lost) and the history: its
length `orders`, the place `target` of the order a restart looks for, and `onWire`, a request of
the earlier life that may still arrive.

| Action | Code |
|---|---|
| `TakeToken`, `Refill` | `TokenBucket.take` and `refill`; a waiter that wakes looks again, and there is no queue |
| `Retry`, `Wake`, `Fail`, `Answer` | one attempt of `request`: 429, 5xx and a broken connection are tried again while attempts are left, all else ends it; a write has one attempt |
| `submitOrder`, `Priced`, `AccountRead`, `Posted` | `Executor.submitOrder`, cut at its three awaits: the quote, the account number, the POST. The ledger is read before the last two and written after them |
| `cancelOrder`, `Cancelled` | `Executor.cancelOrder`: neither checked nor counted |
| `CallFails` | the error that reaches the tool |
| `OrderAnswered`, `AnswerLost` | the venue takes the order, and its answer arrives or not; one it refuses is a `Fail` |
| `findOrderByClientOrderId`, `WalkAccountRead`, `ReadPage` | the lookup of a restart: one page of `getAllPages` after the other |
| `BrokenPage`, `StrayPage` | a page without a usable cursor or with the one it was asked for, a body that is no page; a cursor that leads elsewhere |
| `WalkFails` | the `catch` of `reconcile` |

`Engine` has the lookup as one answer out of four and the submission as one refusal or none; this
module says which answers are possible and why. A page holds one order. Values are whole dollars,
an order is one record, and the kill switch is read as anything, because any process may have
written it. `ShapeIsLegal` joins what `assertOrderShape` refuses and what the native tools'
schemas leave out.

### The reports

`FillReports` has one variable, the history, and every history of up to `MaxFills` executions is a
state. `computeCostBasis`, `buildPnlCurve`, `peakToTrough` and `buildRoundTrips` are folds over
it, and each property compares one with a definition of another kind: unit-by-unit matching, the
other report, all pairs of points. Quantities and prices are whole numbers, so the code's
tolerances (1e-12, and a billionth of the largest position) are zero here. `Sorted` says what the
stable sort by time makes of the venue's list, newest first: a fill without a readable time goes in
front. The journal leaves such a fill out (`ReviewOf`), the tax lots do not.

## Runs

| Run | Question | Bounds |
|---|---|---|
| `engine_core` | can anything make the engine order a slice twice, forget an intent or a paused job, revive a job or ignore a halt? | one server with tools, one job, two slices released one or two at a time, two ids for a slice, one order tool past the check beside the supervisor, one crash, all faults |
| `engine_live` | is every pending intent settled or reported, every due job advanced, and no live order given up? | one trading server whose operator starts and cancels jobs, two jobs of one slice, one crash, unfinished lookups |
| `engine_two_supervisors` | violated: two processes order one slice twice | two trading servers, no crash |
| `engine_unhandled` | violated: a cancel while a job is advanced takes the process down | no crash, no fault |
| `exits_main` | can anything make an exit strategy fire twice, drop its protection, or forget to end? | one job of any of the three, three orders, one crash, one halt, one order cancelled by hand, every fault but unread fills; three prices, two trails, an activation price or none |
| `makers_main` | does a chase or an iceberg ever have too much in the book, or wait for ever? | three orders, one crash, one halt, one order cancelled by hand, every fault; one repost; a total of five in slices of four, an increment of two, a minimum of none or four |
| `grid_main` | does a grid double a level, sell what it has not bought, or lose a level? | three levels, two placements per advance, one cycle, four orders; one crash, one order cancelled by hand, late listings, unreadable fills |
| `chase_overfill` | violated: a chase trades more than its size | no crash, no fault |
| `takers_main` | can anything make a schedule, a plan or a position send more than it released or was asked for, or forget to end? | one job of any of the seven, three orders, one crash, one halt; refusals, lost answers, outages, unfinished reconciles; two prices, a window of two, a deadline of one |
| `gateway_main` | what do the daily cap, the bucket and a lookup promise to callers that run concurrently? | two callers with two calls each, one the restarted supervisor; a burst of one, one retry, two pages; a cap of one order; five kinds of orders, three quotes |
| `reports_main` | do the reports say what the executions add up to? | every history of up to four executions, of two assets, two quantities, three prices, dated or not; two live prices |
| `momentum_phantom` | violated: a momentum job sells a position it never opened | no crash; refusals |

Two slices and a step that releases both are what it takes to have one order under way while
another waits; the second id is what a second order for a slice would use; the crash can come
at every point of the protocol and the restart runs the whole reconcile. More crashes, jobs
and slices are covered by the theorems. `BatchSize` is the code's 25, above the number of
jobs: the order in which `dueJobs` lists them, which rules out starvation beyond a batch, is
not modelled.

The faults: `timeout` (an answer is lost, the order may be live), `late` (a request outlives
its crashed sender and the restart's lookup), `inconclusive` (a lookup ends before the history
does). `engine_core` has all of them. `NoOrphanOrder` is checked with `inconclusive` only: after a
timeout the code calls a possibly live order failed, and the ops and journal reports tell the
operator so; that is what the code means to do.

What the violations mean:

- `engine_two_supervisors`: the overlap test of `tick` is a field of one process, and no row is
  claimed. Two conversations that hold a trading server each are enough.
- `engine_unhandled`: `updateJob` at `supervisor.ts:208`, `228` and in `failJob` throws
  `JobTransitionError` when an operator cancelled the job (or the kill switch paused it as its
  last step was being carried out). It is outside every `try`; `void this.tick()` drops the
  rejection and Node exits.
- `chase_overfill`: what the replaced order traded between the acceptance of its cancel and its
  leaving the book is never read; the repost is for the whole size.
- `momentum_phantom`: `advance` compares the deadline before it reads `last_error`. An entry that
  was refused just before the deadline is closed by a market order for a position that does not
  exist. `mean-reversion.ts:144` has the same order.

More that the code does against its words, or that a reader might not expect, and that no run
shows:

- `risk.ts:534-536` says every order is refused "from the moment this returns". The switch is
  checked before the last awaits of a submission, so an order that had passed it is sent after
  the engage has returned: the supervisor's, and one of each order tool that is at these awaits.
  `HaltAdmitsTheCleared` is what does hold.
- `daemon.ts:99` says "Hold the process open; the supervisor's timer is unref'd on purpose", and
  awaits a promise that never settles. A pending promise holds no handle, the timer is unref'd
  (`supervisor.ts:71`), and the signal handlers hold none either: the event loop is empty, and the
  daemon exits after `start`, before its first tick, unless something else keeps the loop alive.
  The repository's README.md:231 recommends it for unattended execution. A daemon started
  again and again reconciles each time and advances nothing: it has no tick in `Engine`.
- `oco.ts:15-17` says that a double fill is "detected rather than assumed away, and it ends the job
  loudly". It is when both legs are missing at one reading, or when the cancel is refused. A survivor
  that fills after its cancel was accepted is missing at the next reading, and the job completes
  saying that it was cancelled (`oco.ts:331-345`). `OcoCompletesByItsCancel` says what holds.
- An iceberg whose rest is below the venue's increment completes without a reason
  (`iceberg.ts:197-203`), where one whose rest is below the venue's minimum says how much is missing.
  `init` does not ask for a total of whole increments, nor for slices of at least one: with smaller
  slices the job completes at once having traded nothing. `IcebergLeavesNoSlice` bounds the rest.
- A crash inside the engage, before its second write, leaves jobs paused that no release resumes;
  `PausedJobsAreRemembered` is stated of processes that did not crash.
- The exit of a trailing stop has a random id, the state it is returned with is the state before
  it, and the job ends in a later write. A crash in between and the next retraced quote exits
  again. `TrailingExitsOnce` is stated of undisturbed jobs.
- Concurrent orders pass the daily cap together, and an accepted order whose answer is lost is
  never counted. The ledger is documented as a brake on one process; `SpendIsBounded` says how far
  it can be passed.
- A repeated or missing cursor, and a body that is no page, end a walk as if the history had
  ended: `not_found` of such a walk is believed, and the intent is abandoned. `LookupIsHonest`
  excludes walks the venue has broken. A request of the earlier life that arrives after the walk
  began is not found either, and that is what it says. The search also starts five minutes before
  the local time of the intent, so a local clock that is further ahead hides the order.
- `place_order` lets a `limit_price` through with a market or stop-loss order, and the caps then
  value the order at that price.
- `journal_reconcile` says "safe to retry" of a pending intent that is absent upstream, which an
  order that is being submitted at that moment is as well.
- The reports ask for orders in state `filled`: the executions of an order that was cancelled
  after it had partly filled are in none of them. The journal's `start` selects orders by their
  creation and then executions by their time. An execution without a readable time comes first in
  the tax lots and is left out of the journal.

A crash between the write of a bracket's state and that of its entry's intent leaves an entry that
was never sent, and two absences from the open orders read as its fill: the exits go out. And
the stop of a grid sells the whole inventory of the last advance at market while resting sells of the
same coins may be unknown, still live or already filled.

What holds only undisturbed. The exit strategies learn of a refused order from `last_error`, which a
crash between two writes or a release of the kill switch clears; and a job that resumes takes an
order it cannot see for a filled one. So `CancelNeedsAFill`, `ExitsNeedEntry`,
`TrailingExitsOnce`, `IcebergLeavesNoSlice` and `SellsAreFunded` are stated of jobs that nothing
disturbed, `OcoCompletesByItsCancel` and the iceberg's half of `OneOrderAtATime` of jobs without crash
and halt. `SellsFundBuys`, `LadderIsWhole` and `PositionIsReal` are stated of undisturbed jobs too, the last
before the deadline only (`momentum_phantom`).
`TrailNeverRetreats`, `IcebergNeverOverfills`, `GridHasNoHoles`, the chase's half of
`OneOrderAtATime`, the second half of `OcoEndsClosed`, `NeverMoreThanReleased` and
`CompletesInFull` hold through everything. `OneOrderPerLevel`
holds through a crash as long as the restart's reconcile finds the orders; with a lost answer or an
unfinished reconcile a level can be doubled, which is why `grid_main` has neither.

The bounds. Three orders are all that a bracket ever has, the entry and two exits; for a chase
with one repost they leave one more than it should need, for an iceberg they are a slice of 4,
one of 2 when only a part of it traded, and one more, with a rest of 1 that rounds
to nothing; four orders let a level of the grid be bought, sold
and bought again while its neighbour works. Two placements of three seeded levels make the
queue wait. One unit per order makes a partial fill the iceberg's and the chase's business only
(`chase_overfill` has two); it is also one increment, so the rounding of the grid's exit is in the
theorems only. The takers never need more than three orders: two slices
and one spare, three rungs in batches of two (the code's 3 would place them at once), three legs of a
plan, an entry and its exit. `MAX_LEG_ATTEMPTS` is 2 for the code's 3: one retry and the giving up.
The totals 3 and 7 of the TWAP make one slice round to zero and two slices round down.
One crash can come between any two writes, and what is true after it
includes everything the restarted process does. In the gateway one token for two callers makes
them wait for each other, two orders that each fill the cap race for it, and two pages with up to
five orders make the walk end before the history does; a daily cap of none is left out, since
nothing is compared with it. Four executions are two lots and two sales that cut them unevenly, or
a round trip with one more begun. `CHECK_DEADLOCK` is off because a job ends.

### Fairness

`Fairness` is weak fairness of the supervisor of each process as a whole, of a handler of the kill
switch that has begun, of Robinhood judging a request that reached it, and of `next_run_at` coming.
What justifies the first is the event loop and the timer of a trading server, which its client's stdio
holds open; that a server that is gone is started again is an assumption about the client. A daemon gets
nothing from it: after `start` it is `off`, and can only start anew (`AfterStart`). Nobody has to
crash, call a tool, let an order tool go on, or fill an order. With an operator who engages and releases
the switch for ever, a job can starve: each engage can take the process down in `UpdateThrows` before
the next job's turn. The operator of `engine_live` starts and cancels jobs only for that reason; the
order of `dueJobs`, oldest first, which the model leaves open, may or may not be enough.

The strategy runs have the same fairness: the supervisor with the strategy it calls, and
Robinhood's judgement of a request, which may be that it was lost. Fills, quotes, cancels that take effect and
operators are under no obligation. `FiredExitsEnd`, `NobodyWaitsForEver` and `BoundedJobsEnd` are about
running jobs: one that the switch has paused is not expected to go on.

`Gateway` has weak fairness of each caller's next step and of the refill: awaits end, a request is
aborted after 30 seconds, the waits are timers, and time fills the bucket. Nobody has to call.
`MaxCalls` bounds the calls, and for `EveryCallReturns` this is more than a bound: the waiters for
a token have no queue, so without it others could take every token for ever.

## Theorems

For every value of the constants. In `EngineProofs`:

| Theorem | States | Assumes |
|---|---|---|
| `TypeCorrect` | `TypeOK` | - |
| `HaltIsPrompt` | `HaltAdmitsTheCleared` | - |
| `EndIsFinal` | `TerminalIsFinal` | - |
| `PendingIntentsAreOwned` | `PendingIntentIsOwned` | - |
| `OneOrderPerSlice` | `AtMostOneOrderPerSlice` | one process |
| `PausesAreRemembered` | `PausedJobsAreRemembered` | one process |
| `EngineImplementsLedger` | `RefinesSliceLedger` | one process |
| `NoOrderIsOrphaned` | `NoOrphanOrder` | one process, requests answered |

The argument. `TypeInv` adds to the types that a process which advances has a job and that it
has an order exactly while it is submitting one. `HaltInv` counts: what a process has
sent since the engage and what it still has past the check are together no more than what was past it
then, because nothing passes the check any more. `SliceInv` is the heart: no order without
its intent, no two intents for a slice, no intent for a slice not yet released (`IntentsInv`);
the row a process advances from is still the row in the database, and the slices it has left to
submit have no intent (`AdvanceInv`); a reconcile looks up ids that have an intent
(`RecoverInv`). Without `AdvanceInv` the induction fails at `Persist`: the state it writes
follows from the row the tick read, and only with one process is that the row as it is. That is
where two supervisors break it. `KnowledgeInv` adds what the database knows of an order, and that what a
lookup found absent stays absent until the verdict is applied, which is where a late request
breaks `NoOrphanOrder`.

`HaltJobsInv` says what each handler of the kill switch has done to the row: an engage has written
no ids yet, and a release still has before it every job of the row that is paused. With two
processes a release and an engage can overwrite each other's row.

In `GatewayProofs`, from the assumptions on the constants alone:

| Theorem | States |
|---|---|
| `TypeCorrect` | `TypeInv`, with the bucket between zero and its burst |
| `LookupNeverLies` | `LookupIsHonest` |
| `SpendStaysBounded` | `SpendIsBounded` (for a finite set of callers of which the restarted supervisor is one) |

`IInv` adds to the types that a caller that waits for a quote has an order to price. `WalkInv` says where a walk
stands: an order that was there when it began, and was not found yet, is not newer than the next page
to read. It stays so when orders arrive, because they come in front of what has been read; a
verdict of absence is given at the last page, below which nothing lies. A page out of order breaks
the invariant, which is why it speaks of unbroken walks.

`SpendInv` counts an order against the allowance (the cap, and one largest order for each further
caller) from the check of the cap until it is given up or in the ledger: the caller that passed the
check last found the ledger and its own order within the cap, and each of the others adds one order at
most. What the venue took is in the ledger, lost, or about to be counted. `SpendIsBounded` alone is
not inductive: it says nothing of orders that have passed the check and are not yet at the venue.

The theorems about the strategies rest on `HostProofs`, which is about the engine and any strategy,
for every finite set of ids (`StrategyHostAssumption`).
`HostInv`: what an intent says of its order (none: never sent; submitted: accepted), that an id is
reserved before its order is sent and only for the action at hand, and how the fill of an order goes
with its status. `CalmInv` says more of jobs without a crash and a halt: an order that was asked for is
at Robinhood, still to be sent, or its failure is in `last_error`. Lemmas say what one step can do to an
order, to the actions left, to what has been read, for every step of the host at once.

`ExitsProofs` assumes that `PairLegs` are among `Legs` and that no other strategies are:

| Theorem | States |
|---|---|
| `ExitsInvariant`, `ExitTypesAreKept` | the inductive invariant; `TypeInv` |
| `NoCancelWithoutAFill` | `CancelNeedsAFill` |
| `CompletedOcosWereCancelled` | `OcoCompletesByItsCancel` |
| `ExitsWaitForEntry` | `ExitsNeedEntry` |
| `OneTrailingExit` | `TrailingExitsOnce` |
| `OcoClosesItsLegs` | `OcoEndsClosed` |
| `TrailsNeverRetreat` | `TrailNeverRetreats` |

The state of an exit strategy is a memory of what was read, so its invariant (`OcoInv`, `BracketInv`,
`TrailingInv`) says in each phase what must be so at Robinhood. A leg marked as seen open has been
accepted; a leg that counts missed checks was accepted or has failed loudly; the phase `monitor` of an
undisturbed job means that both exits are out or on their way; a cancel that is under way has the fill
of the twin behind it, and only the survivor is ever cancelled.
None of the properties is inductive without that: what a step does
follows from the memory, and only the invariant ties the memory to the orders.

`MakersProofs` assumes that `"none"` is not an id and that there are no other strategies than the three:

| Theorem | States |
|---|---|
| `MakersInvariant` | the inductive invariant, for chase and iceberg |
| `OneOrderOut` | `OneOrderAtATime` |
| `IcebergsStayWithinTotal` | `IcebergNeverOverfills` |
| `FinishedIcebergsLeaveNoSlice` | `IcebergLeavesNoSlice` |

`ChaseInv`: nothing is in the book or about to be sent but the order the chase remembers, and it forgets
it only once it has left the book, because a cancel is asked for only of an order that has been seen.
`IcebergInv`: what all the other orders have traded and may still trade is within `filledQuantity`, the
slice in hand is for exactly `working.quantity`, and both together are within the total. It holds even
when a slice is credited in full because nobody could say what it traded: the credit is never less than
what is forgotten. `IcebergCalmInv` adds, for the undisturbed, that the credit is exact, and that a
job about to complete without a reason has a rest that rounds to nothing.

`TakersProofs` assumes no other strategies than the seven, and at least as many ids as a ladder has rungs:

| Theorem | States |
|---|---|
| `TakersInvariant`, `TakersTypes` | the inductive invariant; `TypeInv` |
| `NothingGoesOutTwice` | `NeverMoreThanReleased` |
| `CompletedIsReleased` | `CompletesInFull` |
| `ClosedWasOpened` | `PositionIsReal` |
| `LaddersAreWhole` | `LadderIsWhole` |
| `SellsComeFirst` | `SellsFundBuys` |

These strategies do not look at their orders again, so nothing in `state` says which order belongs to
what was released. `ClaimsInv` says that some assignment of claims to ids exists: a claim covers what
its order has traded and may still trade and what the step still has to send under that id, and all
claims together are within what was released. A step that releases more claims that much more for the
id it takes, the steps of the host only use claims up, and no crash makes one. The property alone is
not inductive: between the write of the state and the POST the order exists only as an action.

Around it are an invariant for each state: a TWAP's slices are multiples of the increment and the last
leaves less than one (`TwapInv`), every rung has an id and a size of its own and the rungs telescope to
the total (`LadderInv`), a leg of a plan that waits has sent nothing and has attempts left
(`RebalanceInv`). `EndsInv` says what is so once a step has decided to complete. For jobs that nothing
disturbed, `LadderCalmInv` says that every rung before the last batch was accepted and the others are
accepted, still to be sent, or about to be missed through `last_error`; `PositionCalmInv` that an open
position has one order, its entry; `RebalanceCalmInv` that each leg sent has an order of its own and
that a plan with a buy sent has all its sells accepted. Each of them needs the clause that the end of
the step may still fail: without it, the state in the middle of a batch breaks them.

About the grid, from the same assumptions and the one named:

| Theorem | States | Assumes |
|---|---|---|
| `GridKeepsItsShape`, `MakersTypes` | the inductive invariant; `TypeInv`, for all three strategies | - |
| `PairsAreKept` | `GridHasNoHoles` | - |
| `OneOrderALevel` | `OneOrderPerLevel` | no answer is lost, no search is unfinished |
| `LimitSellsAreFunded` | `SellsAreFunded` | - |

An advance of the grid folds over its orders and then over its queue (`ReviewAll`, `PlaceAll`). A fold
that keeps to a type runs from element to element (`FoldRuns` in `SumLemmas`), so what it does is shown
by induction on the number of elements gone through, with an invariant of the loop: `Reviewed` (each
order gone through is kept as it was seen, or its answer is in the queue) and `Gone` (each placement is
resting or still waiting, the new orders follow the old ones, no level has two).

- `GridShape`: orders at different levels under different ids, a queue without repetitions. The last is
  why no answer is ever dropped: the code refuses to queue beyond `2 * LevelCount`, and there are no more
  different placements than that (`QueueHasRoom`). `GridHasNoHoles` would be false of a queue that could
  hold one twice.
- `GridBook`: every order asks for what the grid remembers under its id (`GridAsks`), and every order that
  may still trade is remembered, or is the exit of a stop (`GridSees`). The grid takes an order that it
  misses twice for closed; `HonestInv` makes that so: when a strategy is called, whatever may trade is
  live with its intent submitted, so it is listed or has been seen. This is where a lost answer breaks
  it: the intent is called failed and the order trades, unlisted, while the level is placed anew.
- `GridFunded`: the resting sells are within the inventory (`Funds`), whatever happens. While nothing has
  disturbed the job, the inventory and what the forgotten sells have traded are within what the
  forgotten buys have traded (`Booked`), because an order that is taken for closed has then traded in
  full. `SellsAreFunded` is not inductive: what a sell exposes is compared with buys that are
  forgotten, and only the ledger of the forgotten orders ties the inventory to them.

`ReportsProofs` assumes that there are finitely many assets, that the executions are of the type `Fill`
(a quantity above zero) and that prices are naturals:

| Theorem | States |
|---|---|
| `FirstInFirstOutAlways` | `LotsAreFirstInFirstOut` |
| `JournalAndLotsAgree` | `JournalAgreesWithLots` |
| `OnePassFindsTheWorst` | `DeclineIsTheWorst` |

Here no step has to keep anything: each property compares folds over the whole history. All that the
steps give is that the history is one of executions (`HistoryIs`), and the proofs are those of the
loops, by induction on the number of elements gone through, with these invariants:

- `TakesFrom`, of the match of one sell: what it has taken is a front of the units of the lots gone
  through, the lots left over are the rest of them, the basis is what that front had cost, and as long
  as something is left to sell, no lot is.
- `Fifo`, of the books of an asset: its open units are the units bought without as many in front as were
  disposed of; disposed of and unmatched make what was sold; and while nothing is unmatched, the profit is
  what was sold for less what that front had cost.
- `Tallies`, of the journal of an asset beside the books: the position of the open trade is what was
  bought less what was sold, the trades have received and paid what the sales and the purchases add up
  to, and some trade is incomplete exactly when something is unmatched. With `Fifo` the position is the
  open units less all that is unmatched; a sale finds no lot only once the last one is gone, so the
  first unmatched unit is also the first to take a position below zero. That the profits agree follows
  with `CostOfUnits`: the cost of lots is the total of their units.
- `Walked`, of the pass over the curve: the peak is the largest value so far and stands at the point it
  names, and the worst decline is at least that of any pair of points gone through, and that of the pair
  it names.

Sums over orders or callers are `SumFunctionOnSet`, a fold over a finite set, and a fold over a sequence
is one over its indices. Induction over sets is proved from the well-foundedness of their cardinality,
by a minimal counterexample (`MinimalSubset` in `SumLemmas`), and over sequences from that: no theorem
with an operator parameter is needed.

Model-checked only are the liveness properties (`PendingIntentsResolve`, `DueJobsAdvance`,
`FiredExitsEnd`, `NobodyWaitsForEver`, `BoundedJobsEnd`, `EveryCallReturns`), which are out of the proof
system's reach. Every invariant and every action property of the passing runs is a theorem.

## Not modelled

- Two processes between the `SELECT` and the `UPDATE` of one `updateJob`, and `SQLITE_BUSY`: the
  models with two processes only serve the violation, which does not need either.
- In the engine and under the strategies, why the policy refuses an order: a refusal may happen to any
  order (fault `refusal`). `OrderGate` has the policy.
- A price or quantity of zero, which the patterns of the tools let through: zero stands for a price
  that was not given.
- A daily cap of none, milliseconds, signatures, and the reads that only hand an answer through.
- `journal_reconcile`, `sizing.ts`, exposure and concentration, `performanceOf`'s ratios: formulas
  over one snapshot, without a state that changes.
- The portfolio, ops and devtools reports, logs, text, and events other than the two a property reads.

## What could follow

The engine, all thirteen strategies, the way to Robinhood and the reports are modelled and checked, with
theorems about each of them. What could follow is `LookupIsHonest` as the interface `Engine` assumes: that
the walk implements the four answers of `LookupVerdicts`.

A run is for a question: later runs will take the place of violations that say the same twice.
