# TLA+ models of Omni Analyst

Omni Analyst keeps a store of claims about entities, notices what it should know
and does not, asks sources for it, turns calibrated predictions into trades, runs a
delta-neutral funding-carry book at a crypto venue, tells its users what happened,
and keeps their personal finance ledger. This directory holds
TLA+ specifications of the parts whose correctness depends on the order of steps,
TLC runs over small instances of them, and TLAPS proofs of what holds for every
instance. Paths below are relative to the repository (`src/omni/...`, `ops/`,
`tests/`, `migrations/`).

## 1. Inventory

| Part | State | Operations | Hard behaviour | What makes it correct |
|---|---|---|---|---|
| Order ledger `portfolio/orders.py` | `trade_order`, `trade_order_event` | `record_intent`, `transition`, `record_fill` | concurrent callers, retries | legal lifecycle only; a fill never overfills; the second intent under a key changes nothing |
| Trading cycle `trading/loop.py`, `order_safety.py`, `fill_commit.py`, `bridge.py` | locals of one coroutine | `run_cycle` | overlapping cycles, crash around the venue call, uncertain answers | a decision reaches the venue once; the ledger's last word is true |
| Carry book `trading/carry_loop.py`, `carry_runner.py`, `ops/close_book.py` | `carry_cycle` log, positions, `funding_accrual` | `run_carry_cycle`, `wind_down_book`, `unwind`, `record_cycle` | half-filled pairs, failed unwinds, crash before the boundary is recorded | no trading on a naked leg; no funding passed over; carry only for what was held |
| Reconciliation `portfolio/reconcile.py` | none | `reconcile` | snapshot against a venue that moves | a divergence stops trading |
| Positions and funding `portfolio/state.py` | positions, cash, accruals | `load`, `apply_fill`, `apply_funding` | idempotent accrual | each settlement once |
| Venues `venue/*.py` | the venue's own books | `execute`, balances, positions | partial fills, terse answers, rounding, reduce-only | says only what happened |
| Gap detection `coverage/gaps.py`, `writer.py` | `gap`, `claim` | `detect_gaps`, `persist_gaps`, `write_claims` | reads demand and coverage at different moments | open gaps are real and keep their history |
| Fill pipeline `fill/pipeline.py`, `derived.py` | leases, backoff and attempts of a gap | claim, ask, write, record, settle | expired leases, crashes, retries, limits | only the lease holder settles; suppliable facts get covered |
| Scheduler `scheduler/worker.py` | tasks | sweep, fill, predict, resolve, surface, alert loops | loops side by side, restarts | each loop keeps running |
| Singleton lease, heartbeat `scheduler/singleton.py`, `__main__.py` | advisory lock of a session | acquire, watchdog, shutdown | session lost while the process lives; shutdown order | one scheduler at a time, again and again |
| Prediction ledger, publication `conviction/*`, `autonomous/backfill.py` | predictions, findings, outcomes | predict, surface, resolve, replay | check-then-act in the passes, replay beside the loop, no price yet | nothing made or told twice, an outcome written once, every call scored |
| Notifications `alerts/notify.py` | `notification_delivery` | queue, claim, send, settle, expire, purge | crash between send and outcome, lease outlived by a sender | at least once, a bounded number of times, within a window |
| Alerts `alerts/rules.py` | alerts, `alert_firing` | `evaluate` | racing evaluations, one-shot alerts, late claims | each crossing fires and is told once |
| ccxt adapter `venue/ccxt_venue.py` | none between calls | `execute` and its reads | lost and late requests, terse answers, lagging reads, cancel racing a fill | one order per key, and answers that stay true |
| Venue manager, Questrade `venue/manager.py`, `questrade_venue.py` | stored credentials, venue objects | refresh, connect, renew, save | single-use tokens shared by two processes | the stored token is good, one exchange at a time |
| Finance ledger `finance/service.py`, `reconcile.py`, `transfers.py`, `banksync.py` | `finance_transaction` | enter, split, transfer, reconcile, delete, import | statements older than the ledger, pending rows without ids, matching by amount and date | each bank row once, groups whole, reconciled rows locked |
| Envelope budget `finance/budget.py` | `finance_budget`, categories | set an amount, delete a category, `month_view` | carry, reset and hold over months edited in any order | no cash made or lost |
| Login throttle `auth/throttle.py` | attempt windows | count, admit | shared between processes | limit holds |
| Risk, sizing, policy `portfolio/risk.py`, `sizing.py`, `trading/policy.py` | none | pure arithmetic | boundaries | only refuses or sizes |
| Ingest, capabilities, research, orchestrator, API, UI | claims, findings | adapters, statistics, request handlers | I/O and numerics | out of scope here |

### How the parts interact

* The sweep writes `gap` rows from demand and claims; the fill workers lease them
  from the same table, call sources, write claims and settle the gap. Nothing but
  rows of the database passes between the two.
* A prediction is read by the trading cycle, sized by the bridge, written to the
  order ledger, executed by a venue, and the fill is written to the ledger and the
  positions in one transaction. `reconcile` compares those positions with the venue
  before the next cycle; `require_settled_orders` refuses to go on over an order
  whose outcome is open.
* The carry cycle uses the same ledger, positions and venue, adds the funding
  ledger and its own log, whose newest `funding_settled_through` is the boundary
  from which the next cycle's funding window opens. A database advisory lock
  leaves one process trading a venue; `ops/close_book.py` takes the same lock.
* Both cycles reach a venue through `Venue.execute`. What they may be told is the
  contract of `HonestVenue`; `Placement` shows that the ccxt adapter keeps it. The
  models of the cycles accept no more from a venue than the contract allows, in
  particular that "resting" may be out of date when it is read and that a fill
  pieced together from the trade tape carries no partial flag.
* The scheduler process holds an advisory lock on one session; its predict,
  surface, resolve and backfill passes rely on being alone. For up to 30 s after
  the session dies they are not.
* An evaluation of alerts writes the firing and the row of the delivery queue in
  one transaction; the delivery workers know nothing but the queue.
* The API and the scheduler each keep a connection to a user's venue and meet in
  the stored credentials, under a rotation lock.
* A bank sync reads from the provider without a lock and then imports under the
  user's lock; the budget view reads what the ledger holds.

The hazards in `PROJECT.json` give each hard behaviour its line in the source and
the properties that watch over it, or the reason why none does yet.

## 2. Modules

| Module | Models | Kind |
|---|---|---|
| `OrderLedger` | one order row of `portfolio/orders.py` as operators | pure, no variables |
| `TradeOnce` | what the ledger promises to whoever trades through it | abstract specification |
| `TradingLoop` | `run_cycle` over ledger, book and venue | extends `OrderLedger`, refines `TradeOnce` |
| `HonestVenue` | what a venue adapter promises to the cycles | abstract specification |
| `Placement` | one intent through `ccxt_venue.execute` and the network | refines `HonestVenue` |
| `TokenRotation` | one user's Questrade connection in two processes | stand-alone |
| `GapQueue` | sweep, gap rows, fill workers | stand-alone |
| `CarryCycle` | carry cycle, wind-down, boundary | extends `OrderLedger` |
| `AtLeastOnce` | what a queue of notifications promises | abstract specification |
| `DeliveryQueue` | `alerts/notify.py` | refines `AtLeastOnce` |
| `AlertFirings` | `alerts/rules.py` over that queue | extends `DeliveryQueue` |
| `Conviction` | the passes over one prediction key, and the scheduler's lease | stand-alone |
| `FinanceLedger` | the transactions of a finance user and their import | stand-alone |
| `Envelopes` | the month view of the budget | stand-alone |
| `TradingLoop_proofs`, `MCTrading_proofs` | theorems about the trading path: cycles, adapter, sessions | TLAPS |
| `CarryCycle_proofs` | theorems about the carry book | TLAPS |
| `GapQueue_proofs` | theorems about gaps and fill workers | TLAPS |
| `DeliveryQueue_proofs`, `AlertFirings_proofs` | theorems about notifications; the second extends the first | TLAPS |
| `Conviction_proofs` | theorems about calls and their schedulers | TLAPS |
| `MCBooks_proofs` | theorems about the finance ledger, its imports and the budget | TLAPS |
| `MCTradingLoop`, `MCGapQueue`, `MCCarryCycle`, `MCAlertFirings` | small instances | TLC |
| `MCRecredit` | `CarryCycle` with the memory of who was short at each settlement | TLC |
| `MCTrading`, `MCBooks` | several small instances in one run | TLC |

`MCTrading` (cycles, placement, venue sessions) and `MCBooks` (carry, ledger,
budget) put side by side parts that share no state: the variable `part` is drawn
in the initial state and never changes, and the parts a behaviour is not of keep
still. This composes nothing; it lets one run answer for parts of one subject.
The compositions proper are `TradingLoop` and `CarryCycle` over the operators of
`OrderLedger`, `AlertFirings` over `DeliveryQueue`, and the cycles over the answers
that `HonestVenue` allows. `MCTrading_proofs` and `MCBooks_proofs` prove what the parts
keep for any constants, under the names the runs check.

Operators whose names begin with `Mut` stand beside the definition they deform.
No specification uses them: each is a plausible bug of the code, put in the place
of the definition to see that a property notices it.

### Grain of atomicity

The code is asyncio over PostgreSQL. Whatever runs between two awaits is one step;
a statement or a transaction under a row lock is one step; every awaited database
or venue call starts a new one. Between two steps another process, the venue or
the operator may act, or the process may die. A crash drops the locals and leaves
what the database and the venue hold.

### TradingLoop

`pc` follows `run_cycle`: `idle`, `loaded` (book snapshot in `seen`), `verified`
(reconciled), `scan` (pending rows in `rows`), `recorded` (intent written),
`fresh` (row read as `intent`), `sending` (moved to `submitted`), `answered`.
`orders` is `trade_order` by prediction, since the idempotency key is portfolio
and prediction; `book` is the position; `venue` what the exchange did, which only
`VenueExecute`, `VenueWorks` and reconciliation touch. Exceptions that nothing
catches (`IllegalTransition`, a refused overfill, `ExecutionUncertain`) end the
cycle. `OperatorBooks` and `OperatorCloses` are the person a halt sends for: they
act only on an order that no process has in hand and the venue no longer works.

### GapQueue

A gap is a fact with a class. A row of the table is `open`, `attempts`, `lease`,
`expired`, `resting` (its `next_attempt_at` is to come). `fill_gap` is `asking`
(candidate number `turn`), `writing` or `deriving`, `recording`, `settling`. The
five gap classes are reduced to the two that depend on the number of sources,
`missing` and `unverified`, with the code's order of weights between them. A derived
claim is inserted without a look at what is held (`perception/divergence.py:255`):
with the dates of one that is there it raises, and the attempt ends as an error.

### CarryCycle

One run is a cycle or a wind-down (`mode`). It loads the book and checks that every
position is half of a pair, reconciles (a cycle does it inside, a wind-down before
it), values the settlements of the window, applies them one transaction at a time,
selects, and trades exits before entries, perpetual leg before spot leg. A pair
that does not come back matched is unwound leg by leg; an unwind that falls short
ends the trading. `Record` is `record_cycle`: the boundary moves only when a cycle
settled its window. Quantities are whole units of the smaller amount step, so that
`Rounded` is the adapter's rounding and the half per cent of tolerated dust is
below one unit. `quiet` is a history variable, written by `FundingSettles` (and by the
wind-down that drops a settlement) and read only by properties. So is `shorted` of
`MCRecredit`, which one property needs and which is therefore kept out of the
larger instance.

### Placement and HonestVenue

`at` follows `execute`: the call is refused or below the minimum, or `create_order`
goes on the `wire`, where it may be lost before or after the exchange has taken it.
A failed call is resolved by its client order id; a terse answer is completed by
reads that may lag (`past`); what is still live may be cancelled while it fills.
`told` is what each call answered, the history the refinement maps to
`HonestVenue`: its `stage` is the exchange's order, or "dead" once an answer said
that nothing was executed. A second call under the same key comes only after one
that could not tell. `PriceMoves` says whether a market may move below the minimum
between the two calls: then the second would answer "empty" for an order the first
one placed. No caller in the repository makes that second call, so the run leaves
it out.

### TokenRotation

`phase` follows `refresh_venues`: settings read, lock awaited, connecting, saving
the next token, back. A live venue object renews its access in the meantime with
its own token (`renewal`). `redeemable` is what the broker still takes; `NewToken` is
some token that is in nobody's hands, which is all that matters of its value. The lock is
a session's, and may be lost with it (`unlocked`); an answer or a save may be lost
(`severed`). The owner may store a new token, clear it, or disable the venue.

### DeliveryQueue and AlertFirings

A row is waiting, leased or settled; its clock is three facts (due or not, past the
delivery window, past the retention). A pass of a worker claims a batch, sends each
message outside any transaction and writes the outcome, fenced on the attempt
count. A lease may lapse while its worker is alive, and a worker may die at any
step. A row that failed below the limit is put off to a later time and so leaves
what the passes under way have found due, each of which asks for what was due when
it started. `AtLeastOnce` has three actions, queueing, acceptance by the channel and
settlement; that a message may be accepted again after the row was settled is part
of its promise.

`AlertFirings` adds claims that become visible in any order, evaluations that read
the alert and its claims, fire and queue in one transaction, and may overlap. The
condition is a level per publisher: only a crossing fires.

### Conviction

Two scheduler processes start, take the lease, run their passes, are stopped, crash,
or lose the connection that holds the lease and do not know it before the watchdog
looks. `Predict`, `Surface`, `Resolve` and the backfill are read-then-write passes
over the predictions of one key. A window without a price leaves a call pending.

### FinanceLedger and Envelopes

Rows of `finance_transaction` are numbered as they are inserted. Every write is one
step (`finance_write` runs it in one transaction under the user's lock); a sync is
two, `Fetch` before the lock and `Import` under it. `Matching` is
`match_transactions`: by id first, then by amount, nearness in time and payee, then
without the payee, each ledger row taken once in a batch; the order in which the
database returns equally near rows is open (`Heaps`). `Landing` says where each row of
the batch ends up, with its match or on a new row in the order of the batch. The
unique index over live ids refuses an import that would break it (`refused`), which
section 5 shows never happens to the bank's own ids. A transfer is mirrored in
whatever account the payee names, the entry's own included, for nothing in
`create_transfer_side` compares the two; a group on one account stands as well.

`Envelopes` has the inputs of `month_view` as its state, and the view itself as
functions over months.

## 3. Runs

| Run | Instance | States | Properties |
|---|---|---|---|
| `overlap` | cycles: 2 predictions, 2 runners, sizes of 1 and 2 units; placement: 2 calls of 1, 3 or 4 units with step 2; sessions: 2 processes, one owner write or fault | 1,695,544 | `TypeOK`, `SentAtMostOnce`, `OneSenderPerOrder`, `TerminalOrdersAreTruthful`, `BookedIsExecuted`, `NoTradingAroundUnsettled`, `TradesOnce`; `OneOrderPerKey`, `AnswersHonestly`; `OneRotationAtATime`, `StoredTokenIsGood`; `PartsTypeOK` |
| `gaps` | 1 fact, 2 workers, an adapter and a derived source with every answer, cap 2, any number of crashes | 1,278,381 | `TypeOK`, `RowsConsistent`, `AttemptsExplain`, `HolderOwnsRow`, `SuppliableGetsCovered` |
| `carry` | carry: 2 assets, pair of 2 units, 1 funding instant, every doubtful answer, remainders; ledger: 3 rows, 1 sync at a time, a statement of 2 rows on the next two days; budget: 3 months, 1 category | 1,646,390 | `BooksTypeOK`, `DivergenceIsParked`, `TradesOnMatchedBook`, `NothingPassedOver`; `GroupsStandTogether`, `ReconciledIsLocked`, `ImportsAccountForAllOnce`; `EnvelopesHoldTheCash` |
| `delivery` | 2 notes, 2 workers, 2 attempts, batches of 1, 1 crash, 1 lapse | 979,515 | `QueueTypeOK`, `OneSenderUnlessLapsed`, `AttemptsAreBounded`, `DeliversAtLeastOnce`, `QueuedIsSettled` |
| `alerts` | 2 claims of one publisher, 2 evaluations, 1 delivery worker, 1 crash | 156,288 | `TypeOK`, `EachFiringQueuedOnce`, `CrossingFires`, `FiringIsSettled` |
| `calls` | 2 schedulers of which one may lose its lease, 2 live calls, 1 replayed | 1,057,648 | `TypeOK`, `AloneUnlessLeaseLost`, `NothingDoubled`, `OutcomesAreFinal`, `SettlesOnOneScheduler`, `DueCallsAreScored` |

States with symmetry where the cfg declares it: runners and assets are
interchangeable. No run with a liveness property declares any. Deadlock checking
is off in `delivery` and `alerts` alone, where the notes of the instance are used
up and settled in the end; a full finance ledger is a stutter (`LedgerFull`).

The runs below are expected to be violated. Each states what a comment or a test
of the repository says and shows a behaviour of the code that does otherwise; the
findings in `PROJECT.json` quote the line.

| Run | Property | What the counterexample shows |
|---|---|---|
| `resized` | `ShortfallIsReal` | an intent found again after a crash is sent at the new size and measured against the old row |
| `hopeless` | `HopelessGapIsGivenUp` | the capped row is resolved and the next sweep opens another from nothing |
| `recredit` | `CreditsOnlyHeldLegs` | a run that dies between trading and recording leaves a boundary that credits later legs with earlier settlements |
| `unwind` | `UnwindsAreExecutable` | the way back from a half-closed pair is a reduce-only order on a flat perpetual |
| `rounding` | `ShortfallsAreReported` | a leg rounded by the adapter fills whole and stays `partially_filled` in the ledger |
| `rotation` | `ConnectsWithStoredToken` | the scheduler reads the settings while the API connects, waits for the lock and presents the token the API has just consumed |

### Why the bounds are enough

* Two runners and two predictions give every race on one row and every
  interference across rows; a third runner repeats the loser's role. The proofs
  cover any number for the properties that depend on it. The cycles of
  `overlap` have two sizes, so that an intent resumed after a crash is sent for less
  or for more than its row says (`SentBeyondRow`). `Resized` names the prediction this
  happens to; the other one is always sized to the larger (with both resized there
  are twice as many states and no violation). Sent for more, a row may be `filled` by
  a part of an order that is still working: the code compares the fill with the
  row. `TerminalOrdersAreTruthful` and `BookedIsExecuted` therefore ask the venue's
  agreement of a filled row only where it was filled in full (`FilledInFull`), and
  `resized` states the cause by itself.
* Three units at a step of two are rounded, four are not, and one is nothing. Two
  calls are a first answer and what may follow it.
* Eight tokens suffice because a token nobody has any more is used again: with two
  processes TLC finds one to spare in every reachable state of the sessions, which
  is the hypothesis `TokensLast` of two theorems. With one owner write and one
  fault together, the sessions alone have several million states and no
  violation; the run allows either.
* An attempt cap of 2 separates the first failure, the last one and one too many.
  Crashes and freely expiring leases let a lease be lost by death and by slowness.
* In the delivery queue two workers and one lapse are the holder and the one that
  takes over; the crash and the lapse may fall on either and on any attempt.
* `Frail` names the scheduler whose lease connection may die. If either could, the
  two roles would be exchanged and nothing else; `MaxRivals` and `MaxCalls` bound
  how many calls a pass finds to make.
* Three ledger rows hold a split or a transfer beside an imported row, and the two
  bank rows fall on either side of the match window of an entry (`Window` is 1 where
  the code has 7 days). A request fetches again as often as it likes, so a batch may
  be any statement the bank ever made. Three months are a first, a carried and a
  twice carried one.
* A pair of two units distinguishes an empty, a partial and a whole fill of each
  leg. Two assets let one pair break while another is held, opened or still to be
  closed. `Horizon` = 1 puts one settlement before, within or after any run.

## 4. Fairness

* `GapQueue.FairSpec`: weak fairness of the sweep and of each worker, because
  `_sweep_loop` and `_fill_loop` of `scheduler/worker.py` run for ever and survive
  exceptions; weak fairness of lease expiry and of the end of a backoff: time
  passes; strong fairness of `SourceAnswers`: a source that can answer with data
  and is asked again and again does so some time, which is what "a source can
  supply the fact" means; and crashes cease some time, since a worker that dies in
  every attempt covers nothing. `HopelessGapIsGivenUp` is checked under the same.
* `DeliveryQueue.QueueFairness`: weak fairness of each worker's pass (the delivery
  loop of `scheduler/worker.py`) and of the clock of each row. Nothing is assumed of
  the channel: a note that is never accepted expires or runs out of attempts.
* `AlertFirings.FairSpec`: also of each evaluation, for `evaluate_alerts_once` is a
  loop as well.
* `Conviction.Fairness`: weak fairness of each process's lifecycle (the supervisor
  restarts it, the watchdog probes every 30 s) and of its resolve loop; and some
  time nothing interrupts the processes any more. `SettlesOnOneScheduler` and
  `DueCallsAreScored` say what has happened by then.

Crashes and lapses are never fair: nobody relies on one. `SuppliableGetsCovered`
asks only for facts whose better-ranked candidates decline, since a candidate that
fails or answers with nothing ends the attempt before the next one is asked.
The other modules state safety only.

## 5. Proofs

TLAPS proves 34 of the 40 properties of the passing runs, for every value of the
constants: every invariant, every action property and every refinement. The other
six are the liveness properties, named at the end of this section.
What a module assumes is the named assumption beside its constants, which TLC
evaluates in the runs; where a theorem needs more, the hypothesis is in its
statement and explained below.

### TradingLoop_proofs

| Theorem | Property | Holds for |
|---|---|---|
| `TypeCorrect` | `TypeOK` | any predictions, runners, sizes, ceiling |
| `OneSender`, `NeverSentTwice` | `OneSenderPerOrder`, `SentAtMostOnce` | the same |
| `BooksStaySound` | (the inductive invariant) | the same |
| `BooksTruly`, `FinishedOrdersAreTruthful` | `BookedIsExecuted`, `TerminalOrdersAreTruthful` | the same |
| `CycleTradesOnce` | `TradesOnce` | any predictions, runners, sizes, ceiling |

* `TypeOK` is inductive as it stands. It is split into the stores that runners
  share and the locals of each runner, and proved action by action.
* "Sent at most once" is not inductive: nothing in it says why a runner about to
  send has not been forestalled. `OneSenderPerOrder` adds what the code relies on:
  a runner at the venue owns a row that is `submitted`, has sent nothing yet while
  it is `sending` and once when it is `answered`, no two runners at the venue hold
  the same row, and a row not yet submitted is unknown to the venue.
  `MarkSubmitted` is the step that matters: the checked transition under the row
  lock. The steps that only give an order up are one lemma (`LettingGo`).
* `BookedIsExecuted` is inductive beside those two, in three parts: what is booked
  of a row, and what row and venue say of each other's amounts (`RowsBooked`), what
  an answer in hand says of the venue (`AnswersTold`), and that an order the ledger
  calls rejected, cancelled or filled in full is dead (`ClosedAreDead`). All three
  hold whatever the bridge sizes, resumed intents included. A row that is `filled`
  and was sent for more than its quantity is the one case in which the ledger's
  word is not the venue's; the finding of `resized` names it.
* `CycleTradesOnce` maps every action to one of `TradeOnce` or a stutter. The
  refinement needs no hypothesis on sizes: `TradeOnce` speaks of sends, of the
  phases of an order and of units that only grow while it is committed.

### MCTrading_proofs

| Theorem | Property | Holds for |
|---|---|---|
| `NobodyTradesAroundUnsettled` | `NoTradingAroundUnsettled` | any predictions, runners, sizes, and any of them `Resized` |
| `OneIntentIsOneOrder` | `OneOrderPerKey` | any calls, units, steps; prices that move or not |
| `TheAdapterIsHonest` | `AnswersHonestly` | any calls, units, steps; `~PriceMoves` |
| `OneProcessRotates` | `OneRotationAtATime` | any processes and tokens |
| `TheChainHolds` | `StoredTokenIsGood` | any processes, while `TokensLast` |
| `TheChainHoldsForEver` | `StoredTokenIsGood` | finitely many processes, infinitely many tokens |
| `PartsTypeCorrect` | `PartsTypeOK` | any constants, while `TokensLast` |

* Trading around an open order is excluded by `AllAccounted`: once a runner has
  found every order settled, each open one is in `meanwhile` (a rival sent it
  since), a partial fill of its own cycle, or the one it has at the venue. The
  property alone says nothing about the time between the look and the send.
* `PlacementSound` is the invariant of one intent: later calls have done nothing
  yet (`CallsSound`); the order exists exactly if some call's request was placed,
  no more than one ever was, a read that lags shows an earlier state of it, and one
  seen dead is dead (`OrderSound`). The refinement of `HonestVenue` adds
  `SmallSound`: an answer "empty" without an order was given because the intent is
  below the minimum, and where prices do not move (`~PriceMoves`) no call of a small
  intent is sent.
* Alone, `StoredTokenIsGood` does not survive a step, for a token just handed out might
  be consumed, or overwritten by itself, before it is stored. `AllFresh` says that
  it is redeemable and nowhere but in the hand of the process it was given to.
  `NewToken` has to be new for that, hence the hypothesis `TokensLast`, some token
  is in no use. It is no assumption about the code (a broker does not run out of
  tokens): `TheChainHoldsForEver` derives it from infinitely many tokens and
  finitely many processes. In the finite instance of `overlap` TLC finds it true
  in every reachable state of the sessions.

### CarryCycle_proofs

`CarryTypeCorrect`, `EveryDivergenceIsParked` (`DivergenceIsParked`),
`PairsTradeOnMatchedBook` (`TradesOnMatchedBook`) and `NoFundingPassedOver`
(`NothingPassedOver`) hold for any assets, pair size, amount steps and horizon, for a
venue that enforces reduce-only or not, leaves remainders or not, and gives any of
the doubtful answers. None of the three safety properties is inductive. The invariant
`CarryInv` is proved for all of them at once, since each part leans on the others:

* `PlanOK`: until the trading begins the book is the snapshot `legs`, which is made of
  matched pairs; what is still to be traded is untouched.
* `PairOK`: every other pair is matched, and each leg of the pair in hand is
  where it was, moved by what was filled (`got`) less what was unwound.
* `SentOK`: of an order in flight, what it left the venue and the book to agree on.
  A fill short of what was asked, and every doubtful answer, leaves the order open;
  a whole one has no remainder and brings book and venue together.
* `DivergenceIsParked` itself: a run starts to trade only over settled orders, so
  what differs is of this run.
* `FundingOK`: where each settlement that a quiet pair is owed may still be: ahead of
  the boundary before the run applies, in `due` while it does, credited after.

### GapQueue_proofs

`RowsStayConsistent`, `OnlyTheHolderSettles` (`HolderOwnsRow`), `GapTypeCorrect` and
`AttemptsAreExplained` (`AttemptsExplain`) hold for any facts, workers, sources,
answers and cap. `RowsConsistent` is made inductive by the types of the row
variables (`RowsTyped`). The action property follows from it step by step: a
claim needs a free or an expired row, a completion has to own a live lease, and
the sweep changes no row that is open. `AttemptsExplain` is inductive beside the
rest of the types (`GapInv`): its second part needs that a row is in the hands of
one live holder, which is what `RowsConsistent` says.

### DeliveryQueue_proofs and AlertFirings_proofs

* `QueueTypeCorrect`, `OneSenderOrALapse` (`OneSenderUnlessLapsed`) and
  `RetriesAreBounded` (`AttemptsAreBounded`) hold for any rows, batch, limits and
  any finite number of workers. The bounds count; what makes them inductive is
  `QueueSound`: a row that may still be claimed without another lapse or crash
  (`Free`) has room for one more holder and one more attempt. A row is `Free` in
  particular while some pass has found it due. Here the proof corrected the model:
  a failed attempt that is put off to a later time is due to no pass under way, since
  each compares with the time it started, and `WriteFailed` now says so.
* `QueueDeliversAtLeastOnce` (`DeliversAtLeastOnce`) maps every step to `AtLeastOnce`.
  It needs two facts more: a worker that saw its message go out has had it taken by
  the channel, and a purged row is not there any more.
* `AlertTypeCorrect` and `FiringsAreQueuedOnce` (`EachFiringQueuedOnce`) hold for any
  claims and any number of evaluations that race. The second is inductive as it
  stands, for `Fire` is one transaction: it records only what no other has and
  inserts one row for all of it.

### Conviction_proofs

`CallTypeCorrect`, `OneSchedulerWorks` (`AloneUnlessLeaseLost`), `NothingIsDoubled`
(`NothingDoubled`) and `OutcomesAreWrittenOnce` (`OutcomesAreFinal`) hold for any
processes and predictions. The invariant is `Alone`: while no lease connection
died, the process that runs holds the lease, and what its predict and surface
passes have read (nothing pending, not yet reported) is still so when they write.
`Bounded`, that finitely many predictions are ever written, is needed because the
surface pass takes the newest one. Outcomes are final with or without the lease.

### MCBooks_proofs

| Theorem | Property | Holds for |
|---|---|---|
| `NoCashIsMadeOrLost` | `EnvelopesHoldTheCash` | any months, categories and amounts |
| `LedgerStaysSound` | (the inductive invariant) | any slots, syncs, entries, postings, window |
| `GroupsStayWhole` | `GroupsStandTogether` | the same |
| `ImportsAreComplete` | `ImportsAccountForAllOnce` | the same |
| `ReconciledRowsAreLocked` | `ReconciledIsLocked` | the same |
| `BooksTypeCorrect` | `BooksTypeOK` | any constants of the three parts |

* The budget view adds over categories and walks over months, and a matching walks
  over a batch. The library's induction theorems cannot be instantiated, so the
  module makes its own from the least natural number: what fails somewhere fails
  first at some n (`LeastMember`, `CountingUp`, `MemberByMember`). With it, a sum
  over a finite set exists, is the one the community modules choose, and may take
  off any member first (`SumOfAnother`); a recursive function exists and every
  value of it follows from the one before (`StepsExist`, `OpeningsWalk`,
  `PassFits`).
* `EnvelopesHoldTheCash` then follows from one month to the next
  (`OpensWithTheCash`): what a month opens with, in envelopes and in the pool, is
  the cash of all months before it. It rests on nothing but the types of the rows
  and that a category's month is one row or none: whatever an envelope loses by
  its mode when a month ends, the pool is given.
* `LedgerInv` is the invariant of the ledger. `Sound` places a split on three rows
  in a line and makes the sides of a transfer point at each other, with rows numbered
  without a gap; that is what makes the group that `delete_transaction` collects
  all of what belongs together (`GroupsAreWhole`). `IdsAreTheBanks` and `Says` tie
  ledger, statement and batches that are out of date: an id the ledger knows was
  given to one transaction, and a batch that carries it means that one.
* A matching claims each row at most once, and the row with the id before any other
  (`MatchingFits`: each pass only adds claims to rows nobody has). So the rows of a
  batch land on rows of their own (`ImportLands`), each of its amount; the unique
  index never refuses (`IdsStayUnique`), for a row that already has the id is the
  one that is merged; and where all ids are known the same batch is matched by id
  throughout (`AgainAddsNothing`). The last needs the hypothesis the property states:
  a row reconciled before it had an id never gets one.
* A reconciled row is locked whatever the matching makes of an import: each row after
  it is the row before, that row merged with a bank row, which changes nothing of a
  reconciled one, or a new entry.

### What TLC alone covers

* Liveness: `SuppliableGetsCovered`, `QueuedIsSettled`, `CrossingFires`,
  `FiringIsSettled`, `SettlesOnOneScheduler`, `DueCallsAreScored`. TLAPS has no
  proofs under fairness here.
* The violations: each is a counterexample on an instance, and needs no proof.

## 6. Not modelled

* Prices, fees, cash, cost basis, NAV and risk limits: decimal arithmetic that the
  control flow sees as a refusal or a size.
* Exact times: leases, cooldowns and funding windows are events that may happen,
  in any order the code cannot exclude.
* The guards of `carry_runner.run_due_cycle` (hours, cadence, affordability): each
  returns before anything is read from the venue, and operators may override them.
* Sub-minimum single legs in the wind-down, assets outside the universe, and
  audience visibility of claims.
* A second trading session after the advisory lock of the carry runner was lost in
  mid-run: `CarryCycle` has one process, and two would leave its state space no room.
* Alert conditions other than a level, channels, destinations and message bodies;
  barriers, calibration and the gate's verdict; encryption, and the SDK calls of the
  other brokers.
* Finance rules, schedules, goals, currencies, accounts off the budget, the bank
  clients. Ids are the bank's own, distinct and lasting: files whose id column
  (`service.py:616`) holds check numbers or references, which may repeat, are not
  modelled, and that no import is refused is said of the bank's ids only. Three
  behaviours of the code are in the model, are not excluded by the properties and
  are worth knowing. An imported transaction that was deleted is added again by the next
  sync: `_exact_match` looks at live rows only, and the unique index does not cover
  the deleted one, although `migrations/071_finance.sql:89-91` says that dead rows keep
  their ids so that this is "detectable rather than silently duplicating";
  `ImportsAccountForAllOnce` asks nothing for such rows, so it would hold as well of code
  that did as the comment says. A file without ids imported twice may add a row
  (`tests/test_finance_api.py:7` calls a re-import idempotent). A payee that names the
  entry's own account gives a transfer whose sides cancel within it. Deleting a
  category takes what was spent in it out of the budget view:
  `EnvelopesHoldTheCash` speaks of the categories that are shown.
* The components with status `not_modelled` in `PROJECT.json`.

## 7. Plan

1. `CarryCycle`: an abstract specification of a pair (both legs move by the same
   amount or an order of it is open) that cycle and wind-down implement; the
   invariant `PairOK` is most of its refinement mapping.
2. `OrderLedger`: lemmas of the row operators used by two components (`TradingLoop`
   and `CarryCycle` each prove their own) moved to one module.
3. Modules not yet written: the login throttle's shared windows, finance schedules,
   the second trading session.
