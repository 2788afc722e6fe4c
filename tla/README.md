# A TLA+ development of AMI Trade

AMI Trade is a simulation-only trading-education app: a Flutter client, a
Python/FastAPI backend (`src/backend/app`), Postgres. Users convene "Rooms" of
AI analysts and chat with them for credits, and practise trading on a training
portfolio against live quotes. This directory specifies the parts of the
backend that own shared state and change it concurrently, model-checks them on
small instances, and proves their main safety results for every instance.

## 1. How the system runs

One uvicorn process serves the API. Sync handlers and `asyncio.to_thread` jobs
run in threads, so requests overlap; `main.py`'s lifespan starts about a dozen
background ticks (resting orders, price alerts, game queues, reminders, ...)
that overlap with them. A deploy or a crash kills everything at any point; the
database keeps what was committed.

All shared state is in Postgres, through `get_session()`
(`db/session.py:101-113`): commit on normal exit, rollback on an exception,
`autoflush=False`, READ COMMITTED. Three idioms decide what a step is, and the
specifications are built from them:

| idiom | example | in TLA+ |
| --- | --- | --- |
| `SELECT ... FOR UPDATE`, recheck, write | `_lock_user_row` | a lock step that copies the row, a commit step |
| conditional `UPDATE ... WHERE state IN (...)`, `rowcount` is the answer | `_claim`, `_stamp_triggered` | one step |
| read a row into the ORM, look, write back by id | `cancel_resting_order`, holdings | a read step, a commit step, anything in between |

## 2. Inventory

| part | state | operations | what makes it correct |
| --- | --- | --- | --- |
| **Credit ledger** `credit_service.py`, `entitlements.py` | billing columns of `users`: plan, balance, period, plan at grant, trial, cooldown | `spend`, `refund`, `balance_for`, subscription grant, pack, revoke, claim carry, rewards and adjustments | no write is lost or computed from a stale copy; a failed turn is given back; the month's allowance is granted once |
| **RevenueCat webhook** `api/webhooks.py` | `revenuecat_events` (unique event id) | deliver, redeliver | each event takes effect once, on the account that survives, and in the end |
| **Account claim** `merge_service.py`, `api/auth.py` | every table keyed by user, `subscription_events` audit | adopt, merge | nothing of value disappears with the orphan; opposite claims do not block for ever |
| **1-on-1, Brief** `api/one_on_one.py`, `api/brief.py` | a running stream and its slot, in memory | rate check, slot, charge, stream, refund on failure | a turn the user never got is refunded, its slot comes back |
| **Resting orders** `sim_resting_orders.py`, `order_pricing.py` | `sim_resting_orders` | submit, cancel, sweep (expire, reap, trigger, claim, fill, stamp) | an order moves the ledger at most once, never beyond its limit, always leaves the book |
| **Trading engine** `sim_engine.py`, `sim_shorts.py` | portfolio cash, holdings, trades, shorts | submit, fill, close, brackets, margin call, borrow, reset | cash, holdings and trade rows agree |
| **Room runs** `room_runner.py` | `room_runs`, `backtest_run_index`, pumps, the map of active runs and retries in memory | start, dedup, pump, CIO retry, shutdown, startup sweep, respawn | one charge per Room, earned or refunded once, across restarts |
| **Price alerts** `price_alert_store.py`, `price_alert_evaluator.py` | `price_alerts` | create, cancel, evaluate, fire | fired once, never after a confirmed cancel; a breached alert ends |
| **Games** `games_*.py`, `career_ledger.py` | fields, entries, duels, queued orders, career events | enter, pair, queue, trade, drain, mark, restart, score | a run ends once, with the points that belong to it; totals stay above zero; queued orders end |
| Options `sim_options.py`, `option_lifecycle.py` | option legs | open, expiry, assignment | collateral matches positions |
| **Cost basis** `cost_basis_lots.py` | none | FIFO lots from trade rows | lots sum to the position, oldest shares first |
| Identity `auth_service.py` | users, devices, sessions | anonymous start, sign-in, claim | one account per identity |
| Admin `api/admin.py` | the same user columns | plan, trial, credits | obeys the ledger's locking |
| Reputation, leagues, lessons | point ledgers | award, settle week | awarded once |
| **Limits** `rate_limit.py` | in-memory windows and slots | check, acquire, release | no more than the limit in a window; a slot comes back |
| Notifications, reminders, inbox | `notifications` | send | at most once a day |
| Mandate, safety floor | mandates | check an order | a decision on a snapshot |
| Market data, LLM gateways, agents, analytics, research context, trading mathematics, mobile, websites, tooling | none that others decide on | I/O, text, formulas | outside this development |

Where they meet: turns, Rooms, webhooks, claims, rewards and the admin console
all write one `users` row. The sweep calls the engine, which writes the
holding; the engine's sales retire resting orders; brackets, closes by hand and
the sweep sell the same shares. A claim re-keys what every other part stores.

The hard behaviours are listed line by line under `hazards` in `PROJECT.json`:
stale copies between read and write, duplicate and misdirected webhooks, claims
racing charges, two sweeps over one book, sweeps that die between booking and
stamping, cancels and closes racing a claim, calls that book what they decided
on an overtaken portfolio, Rooms cut by a shutdown or a crash between charge and
verdict, refunds that are made from five places, alerts fired from an old list,
slots and windows of streams that fail, scoring that races a restart, and the
clamp of a running total.

## 3. Modules

```
CreditPlans          pure rules on one billing row
  CreditAccounts     what the ledger promises: every operation one step
    CreditLedger     what the backend does: transactions, locks, deliveries
      CreditLedgerProofs     TLAPS
      MCCreditLedger         TLC: 3 configurations
OrderPricing         pure trigger and price rules
  RestingOrders      book, sweeps, clients, holding
    RestingOrdersProofs      TLAPS
    MCRestingOrders          TLC: 2 configurations
RoomCharge           what a charge promises: earned or given back, once
  RoomRuns           pumps, backstop, shutdown, startup sweep, CIO retry
    RoomRunsProofs           TLAPS
    MCRoomRuns               TLC: 2 configurations
  Turns              1-on-1 and Brief: limiter, slot, charge, stream, refund
    TurnsProofs              TLAPS
    MCTurns                  TLC
RateLimit            the sliding window (extended by Turns)
CostBasis            pure FIFO lots of trade rows
  SimLedger          one portfolio: cash, holding, trade rows, short
    SimLedgerProofs          TLAPS
    MCSimLedger              TLC
PriceAlerts          store, clients, evaluators
  PriceAlertsProofs          TLAPS
  MCPriceAlerts              TLC
GameRuns             entries, duels, queued orders, restarts, scoring
  GameRunsProofs             TLAPS
  MCGameRuns                 TLC
AccountMerge         a claim of a guest's games, beside those who write them
  AccountMergeProofs         TLAPS
  MCAccountMerge             TLC
```

`CreditLedger` refines `CreditAccounts`; `RoomRuns` and `Turns` both refine
`RoomCharge`. The components meet in the wallet and in the portfolio: the turns
of `CreditLedger` (`"running"`, `FailTurn`, `EndTurn`) are `Turns` with the
transaction of the charge opened up, and the sweep of `RestingOrders` ends in
the fill that `SimLedger` opens up.

### 3.1 The credit ledger

`CreditPlans` has a billing row and the functions of it that the code computes:
`EffectivePlan` (trial lifts, expired trial drops), `Ensured` (`_ensure_period`:
re-grant if the month rolled or the effective plan drifted), `Charged`
(`spend`, with the soft wall's top-up and cooldown), `Credited`, `Subscribed`,
`Revoked`, `Merged`. Months are numbered from 1 and 0 is NULL.

`CreditAccounts` is the abstract specification: committed rows, live accounts,
claims, processed events, a clock; every operation reads and writes the
committed row in one step.

`CreditLedger` adds row locks and, for each worker, a transaction `tx[w]`:

* `Begin*`, `Deliver`: the first read. `spend` and `refund` lock as they load;
  the others load without a lock (`pc = "loaded"`) and go through `LockRow`
  (`_lock_user_row`: flush, `FOR UPDATE`, read again).
* A claim takes the orphan's lock, then the adopter's (`"source"`, then
  `"locked"`). Two claims in opposite directions deadlock and Postgres breaks
  the cycle (`DeadlockVictim`).
* `Commit` writes the row computed from the *copy*, records the event, for a
  claim deletes the orphan and leaves the audit row, and releases the locks. A
  turn that could be paid for goes on `"running"` outside any transaction, and
  may fail (`"failed"`) and be refunded, or end. A client that disconnects or
  a process that dies is `EndTurn`: the code refunds neither.
* A revoke that finds no re-grant due never locks: it commits one UPDATE of the
  plan column (`CommitRevoke`), which may match no row (`StaleRevoke`). One that
  found the base plan (`lowers` is false) has changed no column and writes nothing;
  if it does lock, its `Reread` keeps whatever plan is committed by then.
* A delivery inserts its dedup row first; the unique index makes a second
  delivery wait for or find the first. A rollback leaves no dedup row, so the
  event is delivered again.

The clock may tick between any two steps.

### 3.2 The resting-order book

`RestingOrders` is one portfolio in one ticker. Overlapping sweeps (the tick and
`/evaluate`) and user requests are processes with a program counter:

* `BeginSweep` is `_expire_elapsed` and `_reap_stale_claims`, two conditional
  UPDATEs on disjoint states with one `now`, merged into one step. With the
  market closed the sweep ends there. `ReadBook` takes the list of live orders,
  *with the state each was read in*, and one quote. An order that is not live
  keeps a place in the list, marked `"gone"`, and is passed over; the code's
  query leaves it out, which comes to the same.
* Each order in turn: `Wait` (not due), `StampTriggered` and `TellTriggered`
  (first phase of a stop-limit), `Claim`, `Decide` (the engine's snapshot of the
  position picks buy, cover, sell or short), `OpenBooking`/`CommitBooking` (its
  transaction, on a copy of the holding row), `Refuse`, `StampFilled`,
  `StampRejected`. `Die` ends a sweep anywhere, leaving what it claimed.
* Clients submit an order that rests, cancel one, or close shares; each is a
  read and a commit, or fails (`Abandon`). Bracket closes and market sells are
  `CloseRead`/`CloseCommit` as well.
* `SellWrite` and `BuyWrite` are ORM writes of a copy: an UPDATE must find its
  row, a DELETE may not, an INSERT meets the unique constraint. `Retire` is
  `_retire_orphaned_resting_sells`, which every sale runs.

Time is relative, so that no run needs a long clock: `timer` is what is left of
a live order's life, and for a claimed order the ticks since `claimed_at`,
which is the time the *sweep* began (`late`).

Not in the module: cash, trade rows and average cost; market buys and orders
that fill at once; resets; borrow, option and short sweeps; a cover by hand;
several tickers (orders of different tickers share only the sweep's list).
The mandate's floor, a failed quote and a database error are all `Refuse`, which
is always possible. A claim of an order whose life ran out during a long sweep
is possible, as in the code.

### 3.3 Rooms

`RoomCharge` is the promise: a Room is charged once, and its charge is earned by
a verdict or given back whole, once, never both.

`RoomRuns` is the runner. One event loop runs a pump (a task) for each Room, so a
stretch without an `await` is uninterrupted; `pump[r].at` says where each pump
is, and the stages in `Sync` are those between two writes of such a stretch: no
other task moves then (`Alone`), but a crash can cut them.

* `StartRun` is `start_run`: dedup (`Attached`: the map of active keys, a row
  in flight, a verdict that is still recent), charge and registration in one step.
  `IndexBacktest`, `ChargeBacktest` are the harness, which has no dedup.
* The pump: `Begin` (the row), `SetUp`, then `Complete` with a verdict, and a
  refund and its flag if the verdict has the shape of an outage; `Fail` with
  refund and flag; `Raise` into the backstop `_fail_stranded_run`; `End` (key,
  journal).
* `Stop` and `Cancel` are the shutdown, which marks what it interrupts; `Die`
  loses the memory at any step.
* `Boot` is `_sweep_stuck_runs`: one more attempt, or failed and owed a
  refund. `Respawn`, `Abandon`, `Forget` are `resume_pending_retries`.
* `AskAgain`, `Answer`, `DropRetry` are `retry_cio_step`.

`Faults` names the best-effort steps that may fail: the refund, a write, the
journal. Three attempts at one journal entry are one that works or does not.
A run's `age` is counted in the windows the code compares it with, and attempts
and entries are counted up to `Bound`. The wallet itself is `CreditLedger`'s.

### 3.4 Turns and limits

`RateLimit` is the sliding window as functions of a limiter, `Turns` the two
handlers that use it, the per-user cap on streams and the charge. A 1-on-1 spends
and refunds on the loop; Brief awaits a thread, so its turn has stages
("spending", "refunding") in between. `Drop` is a response whose client left
before the generator's first step: its `finally` never runs. `Restart` empties the
limiters and ends the streams. Stored times are ages, and a tick is a fraction of
a second, because Retry-After is rounded to seconds. The loop that pops old times off
the left of a key's deque is the number it pops (`Popped`). `Turns` refines `RoomCharge`
too: "earned" is a turn that was answered or whose client hung up.

### 3.5 The portfolio

`CostBasis` is `compute_lots_fifo` as a recursive function along the trade rows; its
sums over rows and lots are prefix sums. Beside it stands a reference that knows no
lots: a set of single shares, each a row and its place in it, from which a sell
takes those that have fewer older ones than it asks for (`SharesAfter`).

`SimLedger` is one user's portfolio in one ticker. `Submit` (or `FillResting`)
copies the portfolio, `Decide` judges the copy and a quote, and `BookBuy`,
`BookSell`, `BookShort`, `BookCover` write what was decided after reading what the
portfolio has become (`OpenFill`); `EvaluateOutcomes`, `ManualClose`, the short's stops,
margin call and borrow, and `Reset` come between. The book of resting orders is a
set of requests here.

No transaction of the portfolio locks a row, and the bracket pass and the by-hand
close fetch a quote between their reads and their writes. So a transaction is two
steps. `OpenFill`, `ReadLots`, `ReadForClose` and `ReadShorts` keep in the thread
what the transaction has read (`copy`, `seen`); the commit writes absolute values
computed from that (`WriteCash`, `AddShares`, `TakeShares`, `Cover`), whatever the
rows have become, as the ORM does: an UPDATE must find its row, a DELETE need not,
and a column that has not changed is not written. A fill stamps `opened_at`
before its transaction begins, and a close stamps `closed_at` before it commits,
while lots are taken in the order of these times. So `WriteRow` files a row at any
place that comes after the rows the call knew when it stamped (`Spots`), before or
after those committed since. `overtaken` is a history: "cash" once a commit has
written over cash or shorts that another had changed since it read, "shares" likewise
for the holding or when a row may have been filed behind one. A commit between two
SELECTs of one transaction is left out.

### 3.6 Price alerts

`PriceAlerts` has two clients and two evaluators (a deployment overlaps). A create
picks the alerts it closes when it reads and closes them when it commits; a cancel
writes by id; the evaluator works from a list and a quote it read before a
language-model call for each alert; only `Fire` is a conditional UPDATE.

### 3.7 Games

`GameRuns` has the entry (`Enter`), the pairing of duels in the lock window
(`PairField`), a player's requests as check and write (`Ask`, then `Queue`,
`Cancel` or `Trade`), the bookkeeping a fill is owed (`ReadFill`, `RecordFill`), the
daily mark (`Mark`, `Bust`), the restart (`ReadRestart`, `SumRestart`,
`CommitRestart`), the drain of queued orders (`BeginDrain`, `Look`, `FillOrder`,
`Stamp`) and the scoring pass (`ReadField`, `ReadRun`, `SumRun`, `Score`,
`JudgeDuels`, `CloseField`). The sessions do not flush by themselves
(`db/session.py:90`), so a row is taken when a post to the career ledger flushes, and
a debit sums the player's points before that (`career_ledger.py:114`, then 127):
`SumRestart` and `SumRun` read the total that `CommitRestart` and `Score` clamp on,
with whatever wait for the row in between. A void run without a stipend posts nothing
and is taken by a later flush (`Flushes`); `Held` is what the pass has flushed. Two history variables say
where the code's own races have been: `overwritten` (a settled run was written
by a transaction that had read it before) and `stale` (a debit was clamped
against a total that had fallen meanwhile).

### 3.8 The claim

`MergeService.execute` gives the guest's rows to the user table by table, in one
READ COMMITTED transaction that ends with the deletion of the guest.
`AccountMerge` has its four statements on the games, in their order: runs
(`MoveEntries`), queued orders (`MoveOrders`), career rows (`ReadClaimed`,
`MoveCareer`) and duels (`MoveDuels`), then `Finish`. A statement sees what is
committed when it runs, takes the rows that name the guest and holds them;
what it deletes or fails on follows the unique constraints and the foreign key of
the tables. Beside it run those who read an account before and write it after:
requests that are authenticated (`AskEntry`, `Ask`, then `Enter`, `Queue`, `Forfeit`),
the pairing (`ReadPair`, `InsertDuel`), and the scoring pass over one field, a run at
a time (`ReadEntry`, `ScoreEntry`, `PostEntry`), then the duels (`ReadDuels`,
`JudgeDuel`), then `ClosePass`. Nothing is written but by a flush, which a post to the
ledger and the commit make: it writes the duels that are judged (`WriteDuels`), then
the runs that are scored (`WriteRuns`), and the pass holds what it has written. A run
that posts points is therefore taken before any duel; a void run that posts nothing
may be taken after its duel. Row locks are the guards `AwaitsPass` and `AwaitsClaim`: a write
waits for an open transaction that wrote the row, or a stipend of the same account and
period. When both wait for each other, `BreakDeadlock` ends one. `late` records what is written with the
guest's id into a table the merge has passed. `GameRuns` opens up what a run does
between entry and close; here a run is its state and the accounts its rows name.
The pairing's order of preference is any pair here, and a run's cancelled orders
keep their owner. The billing half of the same method is in `CreditLedger`.

## 4. Runs

Each run finishes within about three minutes on two workers. Deadlock is not
checked: requests, orders, alerts, turns and runs of games are bounded or end, so
every one of these systems may really stop. The type invariants of the ledger of
credits, the orders, Rooms, alerts and the claim have no run: section 6 states the
first four for every instance as theorems, and the claim's is a conjunct of its
inductive invariant.

| run | instance | shows |
| --- | --- | --- |
| `credit_races` | 1 account, 2 workers, 4 events, 2 requests, 3 ticks over 2 months | that the ledger implements `AccountsSpec` |
| `credit_claims` | 2 accounts claimed in both directions, 2 workers, a pack and a lapse, fair | `LockedCopiesAreFresh`, `EventsLand`, `FailedTurnsSettle` |
| `order_sweeps` | stop-loss on 2 shares and stop-limit on 1 of them, 2 sweeps, 1 client, life 1, stale 1 | `AtMostOneFill`, `LedgerAgrees`, `LimitHonoured`, `OneTriggerPush`, `NeverBackInTheBook` |
| `order_settled` | buy stop-limit, with or without a short to cover, 2 sweeps, 2 clients, fair | `ClaimsResolve`, `ElapsedOrdersLeave` |
| `room_faults` | 1 Room or backtest, 2 prices, every fault, crashes anywhere | `RefundsAreTold`, `VerdictStays`, and that the runner implements `ChargeSpec` |
| `room_restarts` | 2 Rooms of one key, crashes anywhere, refunds and journal may fail, fair | `RetriedOnce`, `JournalledOnce`, `OneRoomPerKey`, `RoomsEnd` |
| `ledger_overlaps` | 2 buys (a target and a verdict, a stop that may rest) and a sell that may rest or short with a stop, 2 threads, 2 prices, 3 rows, 1 day | `TypeOK`, `LotsAgree`, `CashIsExplained`, `OldestSharesFirst`, `PositionsCloseWhole` |
| `alerts` | 2 alerts, room for 1, 2 clients, 2 evaluators, 1 fault or restart, fair | `FiresOnce`, `CancelledNeverFires`, `NewestSurvive`, `BreachedAlertsEnd` |
| `turns` | 2 keys, 1 followed user, 3 turns, 2 at once, 2 a window of 2 ticks, 1 key remembered, fair | `TypeOK`, `SlotsAreHeld`, `Pace`, `SlotsComeBack`, and that turns implement `ChargeSpec` |
| `games` | 2 players and a desk in a weekly field, one of them in a monthly one too, 2 moves, 1 accident, fair | `TypeOK`, `ResultsArePaid`, `ClampHolds`, `EverythingEnds` |
| `claim` | guest, user and a rival, 2 quarterly fields of one period, 4 runs, 2 requests, claims or lost transactions | `NothingLeftBehind`, `DuelsFollow`, `OneOrder`, `CareerKept` |
| `lost_refund` | 2 accounts, 1 claim | `RefundsReachAnAccount` is **violated**: a refund finds no account |

What the properties mean:

* `AccountsSpec` (refinement): whatever two workers do between their reads and
  commits, each commit is one of the promised operations applied to the
  committed row at that moment, and an event is applied once. A pack has two
  promised outcomes, because the month may turn between `_ensure_period`'s check
  and the lock.
* `LockedCopiesAreFresh` is the reason: at the write, the worker holds the lock
  and its copy is the row. It is the invariant of the `populate_existing`
  re-read.
* `LedgerAgrees`, `AtMostOneFill`: filled means booked; booked means never
  claimable again, although stamps write by id and the reaper rejects claims
  whose sweep may still be alive.
* `LimitHonoured` is the DEF310 property: two sweeps may have read the order in
  different phases and at different prices.
* `NeverBackInTheBook` is an action property on the stage of an order.
* `ChargeSpec` (refinement), for Rooms: five refund sites (desks, backstop, sweep,
  respawn, outage) are kept apart by row status and memory alone, through crashes
  between any two of their writes. It promises *at most* one refund;
  `RefundsAreTold` says when there must have been one, and that no row claims
  one in vain.
* `OneRoomPerKey`: nobody pays for a second Room while one of the same ticker is
  alive. It excepts keys of which two Rooms were respawned (see section 5).
* `RetriedOnce` also says that a row marked interrupted is executed by nobody.
* `LotsAgree` is the check of `tests/conftest.py` and `def110_backfill.py`, also when
  a call books what it decided before others booked, and when others commit between a
  transaction's reads and its writes; `CashIsExplained` accounts for each dollar;
  `PositionsCloseWhole` is what a firing bracket leaves: nothing. They are not true of
  every interleaving: a commit that writes over another's breaks them, and so does a
  by-hand close (see section 5). They claim that nothing else does: each holds until
  `overtaken` says otherwise or a row is closed by hand. `OldestSharesFirst` and
  `TypeOK` have no such condition.
* `Pace`: no window of the limiter's length holds more than the permitted number
  of admitted requests, and a client that waits as long as it is told gets in, as
  long as the limiter remembers it.
* `NewestSurvive`: making room never ends one of the newest alerts, although the
  victims are chosen before the commit.
* `ResultsArePaid`, `ClampHolds`: state and career rows agree and no total is
  negative, outside the runs and players that `overwritten` and `stale` name. A total
  that fell while the debit waited for the run's row makes its player `stale`.
* `NothingLeftBehind` is what the claim does promise: only what somebody wrote with
  an account read earlier, into a table already passed, names the guest afterwards.
  `DuelsFollow` has the same exception.
* `CareerKept`: a claim deletes no career row but a stipend for which the user has
  a twin, at the commit and not just when it looked.
* `OneOrder`: claim and scoring pass take runs before duels, with one exception, so
  they can deadlock over two things only, and they do. Over a stipend: the claim waits
  for the one the pass gives the user, the pass for a run of the guest's. Over a duel:
  the claim waits for it, the pass for a void run of the guest's that posted nothing
  and is written after the duel. The database ends one (`BreakDeadlock`).

### Bounds, and why they are enough

*Credit ledger.* Races over one row need two actors that hold a stale copy or wait;
two workers give every such pair, and the clock, admin edits and webhooks are there
as well. Two accounts give both directions of a claim and an event that must
follow one. Three ticks over two months give a month boundary before and after
each step, an expiring trial and a cooldown that ends. `MaxRequests` bounds client
requests, admin edits and aborts together; deliveries, refunds and retries are not
bounded by it. Plans keep all four names with allowances 1, 2, 2, 4, so that
upgrades, equal tiers and drops all occur, and a Room of price 1 or 2 can and
cannot be paid for.

*Orders.* Two orders over the same shares give the retirement of one by the other;
marks below, at and above the prices give every branch of the trigger and of Rule
2; life and staleness of one or two ticks let an order elapse and a claim go stale
at each step.

*Rooms.* One Room meets every refund site, fault and crash, and money is per
Room; two prices tell a refund of the charge from one of the base price. Two Rooms
of one key are needed for dedup, restarts and the shared map. Faults of writes are
left out of `room_restarts`: a sweep whose transaction fails leaves Rooms queued in
memory and uncounted in the table, so what it claims is not bounded then.
A third Room of one key was checked without overruns and under symmetry (4.5
million states, safety only), too large to keep as a run.

*Portfolio.* Two threads make every stale decision and every overlap of two
transactions; three rows make a buy, a partial sell and a third order, so that lots
close in part, in whole and out of order. Prices are even because the margin is half.
`Onward` is FALSE: once a commit has written over another's, what is under way ends
but nothing new begins, because the properties then claim no more than the types and
the order of the lots. The theorems hold for both values.

*Alerts, turns, games.* Two of each actor; a cap, a limiter and a clamp small
enough to be hit; one accident anywhere. Field `f1` ends and `f2` stays open, so
that one run spans the other's scoring; one player ends below nothing or void, the
other and the desk above it and level.

*Claim.* One field with a rival gives a duel, whose sides and winner can each be
written behind the claim; two fields of one period give a shared field and two
stipends that collide. Two runs of the guest's are a kept one and a dropped one.

Sweeps, workers and calls are permuted where no property names them apart; runs
with liveness use no symmetry.

### Fairness

* `CreditLedger`: a worker that has been given something to do does it (threads
  run; Postgres grants a free lock), a stream ends, and RevenueCat delivers until
  it is acknowledged, which is its documented contract and why the handler rolls
  back on failure. Weak fairness suffices because aborts are bounded.
* `RestingOrders`: the clock ticks; the background tick keeps starting sweeps
  (`main.py` loops for ever and catches what a sweep raises); a sweep that is not
  killed goes on. Nothing is assumed of users, and `Die` is always possible:
  `ClaimsResolve` holds because the reaper gets to run.
* `RoomRuns`: the loop runs its tasks, time passes, and the service is restarted
  again and again, because the sweep runs at a boot only; a row left running
  by a crash waits for one. Nothing is assumed of users.
* `PriceAlerts`: each evaluator's loop goes on. `Turns`: each step of a turn
  returns or times out. `GameRuns`: the clock, the ticks, and requests that have
  begun; nobody has to enter, trade or give up.
* `AccountMerge`: none; its run checks safety only.

## 5. Findings

1. **A refund can vanish** (`lost_refund`, `credit_service.py:654`). A guest is
   charged for a turn, claims the account while it streams, the stream fails:
   `refund()` looks up the deleted row and returns. `one_on_one.py:274`: "never
   let a provider blip silently eat a turn the user never got". Webhooks follow
   the claim's audit row; refunds do not.

### Seen while modelling

Behaviour the models contain or leave aside, without a run of its own. Where a
line of the repository says otherwise it is quoted.

*Credits.* A claim adds both balances without rolling either to the current month
(`credit_service.py:604`; line 578 speaks of "not cross-month accumulation"). A lapse
that finds the base plan in its copy writes nothing: a plan bought while it was being
handled stays (`credit_service.py:540-542`, then the re-read at 233).

*Orders.* A cancelled order can fill: the cancel is an ORM read and write
(`sim_engine.py:2164`, here `CancelRead` and `CancelCommit`) that may overwrite a
claim, while `sim_resting_orders.py:37` says that a concurrent cancel loses to the
claim. A resting order that opens or covers a short returns no trade and is stamped
rejected (`sim_resting_orders.py:687`). Orders being filled are not retired when
someone else sells their shares, so a claimed stop can open a short
(`sim_engine.py:4199`).

*Portfolio.* Cash and shares are written as absolute values computed from an unlocked
read, so whatever another transaction commits in between is lost: a buy booked while
`evaluate_outcomes` waits for its quote (`sim_engine.py:4332`) gives its cash back
and loses its shares, though its row stays. Two fills that overlap lose one of two
debits. A row stamped before another and committed after it (`sim_engine.py:1808`) is
filed behind it, and may change which lot a sell has drawn on. Two shorts of a ticker
can be open, since nothing but a read keeps the second out (`sim_engine.py:2969`), and
one short can be covered and paid for twice. The by-hand close sells the row's original quantity, not what is left
of its lot, and closes sell rows too (`sim_engine.py:4437-4484`); after it the trade
rows need not explain the holding. One verdict can be booked twice: its guard
is a read of trade rows (`sim_engine.py:951-967`), and the resting path has none.
A sell decided while flat can book after a buy: long and short at once. Two first
requests can create two training portfolios, because the unique key has a NULL
column (`db/models.py:549-551`), and reading one then raises.

*Rooms.* A Room that raises before its first write has no row, so the backstop
refunds nothing (`room_runner.py:6791` says otherwise). A shutdown in the setup
before the desks leaves the row unmarked, and a re-convene attaches to it until
the dedup window is over (`room_runner.py:7049`). When boots have respawned two
Rooms of one key, the first to end removes the other's entry from the map, and
a third can be charged. A failed row is reported as refunded also when the refund
raised. The startup sweep respawns backtests without their as-of context, so
`backtest_run_index` may point to a verdict on live data
(`room_runner.py:6715`; line 7258: "an as-of context puts the ENTIRE run into
historical mode"). The model's `basis` shows it.

*Turns.* A response whose client is gone before the generator's first step never
releases its slot and keeps the charge (`Drop`; `rate_limit.py:187`). A crash in
mid-stream keeps the charge.

*Alerts.* A cancel, or making room, can overwrite a fire: the row ends cancelled
after the user was notified. A crash between fire and notification loses the
notification. Two concurrent creates exceed the cap until the next one.

*Games.* A restart that read a run before it was scored writes it forfeited
afterwards (`games_service.py:1785-1836`; `games_scoring_pass.py:258` wants a result
never to change once shown); a fill's bookkeeping can revive a settled run the same
way (`games_service.py:932-951`). A crash between a queued order's fill and its
stamp fills it again, and a cancel in between is confirmed although it was
filled (`games_service.py:1415`). The career clamp sums without a lock, so two
concurrent debits can pass zero, and the next debit then *adds* the difference.
Settlement of a scored run's positions is not retried once the field is closed. A
forfeit while the field is open blocks re-entry, which the preview calls
"immediate" (`games_service.py:1779`). One field that raises ends the scoring pass
for the fields behind it. A desk in several first-run duels is posted only one.

*Claims.* A claim can be refused for good. When both accounts entered one field, it
deletes the guest's run before it re-keys that run's career rows
(`merge_service.py:776`); their foreign key has no ON DELETE (`db/models.py:1926`),
so if the run was scored or forfeited every attempt raises (`"refused"`).
`db/models.py:1897`: "neither `game_fields` nor `game_entries` rows are ever
hard-deleted". Points can go to a deleted account: the pass read the run before the
claim and posts after it (`games_scoring_pass.py:690`), and nothing looks for them
again; `merge_service.py:392` re-keys the ledger lest "the adopted account's
career-point total silently becomes zero". A claim and a scoring pass can
deadlock, over a stipend or over the duel of a void run that posted nothing: one of
them is lost, and the user claims again or the next pass scores the field. After a
claim an account can hold two live runs of one cadence, which `enter_field` refuses (`games_service.py:816`).
Deleting a duplicate stipend lowers a total that debits were clamped against, so it
can be negative (`career_ledger.py:114`). A request the guest sent before the claim
may still enter a run, queue an order or forfeit afterwards, under the deleted id.

## 6. Proofs

The theorems below hold for every value of the constants that meets the named
ASSUMEs, which TLC evaluates in the runs.

### The credit ledger

`CreditLedgerProofs`, for any sets of accounts, workers, events and grants, any
price list, calendar and bound:

| theorem | statement |
| --- | --- |
| `TypeCorrect` | `Spec => []TypeOK` |
| `FreshUnderLock` | `Spec => []LockedCopiesAreFresh` |
| `ImplementsAccounts` | `Spec => AccountsSpec` |

*Assumptions.* Prices and allowances are naturals, months are positive, `None`
and `NoWorker` are neither accounts, events nor workers, and nobody claims himself.

*Inductive invariant.* `LockedCopiesAreFresh` alone is not inductive. `IInv`
conjoins

* `TypeOK`;
* `FreshCopy(w)` for each worker: a row cannot change under the lock, because
  every writer needs that lock;
* `Purpose(w)`: what the fields of `tx[w]` say given its operation. A delivery
  owns an event nobody has committed; a claim's pair was recorded; amounts are ones
  somebody asked for or paid. Without it a commit could not be shown to be an
  *allowed* abstract operation;
* `OneDeliveryPerEvent`, the unique index: without it a second commit of an
  event could not be excluded.

The proof goes action by action. Lemmas on the pure rules (`Ensured`, `Charged`,
... return rows) carry the arithmetic; the commit is split by operation. For the
refinement, each step maps to one abstract operation or to a stutter: loads,
locks, aborts and everything of a running turn stutter; `Commit` is `Touch`,
`Charge`, `Credit`, `Apply` or `Merge`, by `FreshCopy` on the committed row;
`CommitRevoke` is `Apply` with the bare drop to the base plan, or `Ignore`; a
locked revoke is `Apply` with the drop and re-grant or, when its copy already had the
base plan, with the re-grant alone. `Survivor`, a recursive function, never has to be unfolded: a delivery
checks that it is an account.

### The resting-order book

`RestingOrdersProofs`, for any orders and terms, any number of sweeps and clients,
any set of positive prices, any life and any staleness:

| theorem | statement |
| --- | --- |
| `TypeCorrect` | `Spec => []TypeOK` |
| `OneFillEver` | `Spec => []AtMostOneFill` |
| `BookAndLedger` | `Spec => []LedgerAgrees` |
| `LimitsHold` | `Spec => []LimitHonoured` |
| `OnePushEver` | `Spec => []OneTriggerPush` |
| `NoWayBack` | `Spec => NeverBackInTheBook` |

*Assumptions.* `OrdersAssumption` only: terms are well formed, prices are
positive, `None` is no order. `Stale` may be anything from one tick: the
theorems need no reaper that waits long enough, because a reaped claim is
rejected and never given back.

*Inductive invariant.* None of the properties is inductive: each rests on what
a sweep or a request still relies on between its read and its commit. `IInv` adds
to `TypeOK`

* `SweepInv(s)`: the order a sweep has in hand has been claimed, has left the
  live states for good and has not been booked; a sweep that is about to stamp
  it filled did book it; the mark it carries is past the limit; an order it is
  about to tell of was read in its first phase, is triggered by now, and nobody was
  told;
* `OneHolder` and `OneTeller`: two sweeps that hold a claim, or owe a push,
  hold different orders. `Claim` and `StampTriggered` establish them because
  both are conditional UPDATEs;
* `OrderInv(o)`: per order, the properties themselves, and that no push was sent
  before the trigger;
* `ClientInv(c)` and `OneSubmitter`: an order being submitted is still unplaced,
  one being cancelled or retired is not, a close sells no more than its copy holds.

The argument turns on `Forward`, which is the body of `NeverBackInTheBook`: no step
lowers the stage of an order. Everything a sleeping sweep or request knows is
a lower bound on a stage, so `Forward` is all it needs of anyone else's
step (`SweepFrame`, `ClientFrame`, `OrderFrame`), and `NoWayBack` comes out of
the same induction. `BooksWithinLimit` joins Rule 1 to Rule 2.

### Rooms

`RoomRunsProofs`, for any number of Rooms and keys, any positive prices, and any
combination of faults, crashes, backtests and overruns (`RoomAssumption`):

| theorem | statement |
| --- | --- |
| `TypeCorrect` | `Spec => []TypeOK` |
| `RefundsTold` | `Spec => []RefundsAreTold` |
| `VerdictsStay` | `Spec => VerdictStays` |
| `RoomsImplementCharge` | `Spec => ChargeSpec` |

*Inductive invariant.* Whether a refund may be made is nowhere written down in one
place: it follows from the row, the ledger and what a pump, the sweep or a retry
holds in memory. `IInv` states that, per Room:

* `RowInv(r)`: what the row alone says about the money. A running row is charged
  and not refunded; a row that claims a refund had one; a snapshot for the CIO is
  kept for refunded verdicts only, which is why a retry can be free;
* `PumpInv(r)`: what each stage of the pump may rely on: before a refund the
  charge is held, after it it is returned, and no pump but its own last stages is
  alive over a completed row, so that a backstop can never fail a verdict;
* `QueueInv(r)`: what the sweep, the resume and a CIO retry have in hand has no
  pump;
* `Told(r)`: the second half of `RefundsAreTold`, which needs the history `lost`;
* `PhaseInv`: no pump lives before the sweep is over.

`Frame` and `PumpFrame` carry the invariant of every Room a step does not touch; for
the one it does, `StepInv` goes action by action. `FinalStep` and `MoneyStep` then
say what any step can do to a row and to a charge, and the action property and the
refinement follow: a step is `Charge`, `GiveBack`, `Earn` or a stutter of
`RoomCharge`.

`RoomRunsProofs` also proves, under the assumption that writes of the rows succeed
(`"write" \notin Faults`; the refund and the journal may fail, and the process may
die anywhere):

| theorem | statement |
| --- | --- |
| `TriedAgainOnce` | `Spec => []RetriedOnce` |
| `ReportedOnce` | `Spec => []JournalledOnce` |
| `NoSecondRoom` | `Spec => OneRoomPerKey` |

The assumption is needed: a sweep whose transaction fails may leave runs queued in
memory that the table has not counted. `Life` extends `IInv`, per Room, by
`RetryLife` (an attempt is counted on the row before it begins, whoever claims the
row), `JournalLife` (a journal entry means that the Room is over and has no pump) and
`KeyLife` (a pump holds its key, unless two Rooms of the key have been retried).
Most steps leave all three alone for one of three reasons: a pump moves on
(`Moves`), nothing starts (`Still`), or the step is about another Room
(`Untouched`). The others (start, end, boot, resume, answer) have a lemma each.

### Turns and alerts

`TurnsProofs`, for any users, caps, rates, windows and prices:

| theorem | statement |
| --- | --- |
| `TypeCorrect` | `Spec => []TypeOK` |
| `SlotsAreHeldHolds` | `Spec => []SlotsAreHeld` |
| `PaceHolds` | `Spec => []Pace` |
| `TurnsImplementCharge` | `Spec => ChargeSpec` |

Slots, money and limiters do not depend on one another, so each has an invariant of
its own. `SlotInv` needs that the turns in `Holding` are finitely many and that
`Acquire` and `Release` move one of them; `MoneyType` says, per turn, that a stage
before the end has the charge and no refund. `RateInv` relates each limiter to the
history `recent`: what the history has of a key is what `Trim` leaves of what the
limiter keeps (`Remembers`), the ages of a key descend, no more than `MaxKeys` keys
are tracked, each once, and a key that is not tracked has nothing. Three
facts about the loop carry it: trimming today and again after a tick is trimming
after the tick (`TrimAged`); a refused key has a full window, so it is tracked
already; and evicting keeps the last keys whole. `WaitedOut` is Retry-After: the
oldest request is past the window after the rounded wait, however the second
divides into ticks.

`PriceAlertsProofs` proves `TypeCorrect`, `FiresOnceHolds`, `CancelIsFinal` and
`NewestAreKept`, for any number of alerts, clients, evaluators and any cap. `IInv`
adds to `TypeOK`: an alert that fired is not active (`Fires`), a confirmed cancel
has its row cancelled (`Confirmed`), rows exist up to `newest` (`Numbered`), what an
open transaction will close is old enough already and cannot become younger
(`Opened`), and an evaluator's target exists (`Aimed`). `OverflowIsOld` is the
counting: an alert with `Cap` younger ones has `Cap` numbers above it.

### The portfolio

`SimLedgerProofs`, for any number of overlapping calls, any orders, prices, fees,
toll and calendar (`SimAssumption`: calls are finitely many, requests are well
formed, amounts are naturals):

| theorem | statement |
| --- | --- |
| `TypeCorrect` | `Spec => []TypeOK` |
| `LotsAreHeld` | `Spec => []LotsAgree` |
| `CashAccounted` | `Spec => []CashIsExplained` |
| `OldestGoFirst` | `Spec => []OldestSharesFirst` |
| `FiringClosesAll` | `Spec => PositionsCloseWhole` |

*Recursion along the rows.* Lots and totals are recursive functions over
`0 .. Len(trades)`. That such a function exists, and that it does at each row what
its definition says, is proved once (`Recursion`, from the well-foundedness of `<`
on the naturals) and used for lots, sums and shares. On it stand the two lemmas a
step needs: what one more row makes of the lots, and what a close stamped after
the last row makes of them (`BuyAppended`, `SellAppended`, `ClosedLots`).

*Inductive invariant.* `IInv` adds to `LotsAgree` and `CashIsExplained` (`Accounts`):
the rows are well formed and closed no earlier than they were filed (`BooksTyped`);
what a thread has copied is a portfolio, the rows it has seen are rows a book can hold,
and it has an order, a price or a row at hand where its next step needs one
(`CallsTyped`: `Copies`, `Acts`); there is room for a row of every thread that may write
one (`Fits`, `Acting`); while no row was filed behind another, rows are numbered in
their order (`Numbered`); and without a portfolio there is nothing on the books and no
transaction on them (`Emptied`). The invariant says nothing of how a copy relates to the
committed rows, and it need not: a commit that finds them changed says so in
`overtaken`, and one that finds them as read is a step on the rows themselves. What a
thread *decided* need not hold any more when it books: that is the point, and rests on
the code's clamping against the row its transaction read.

*Single shares.* `OldestSharesFirst` compares lots with shares counted one by one.
`Aligned` is the relation that each row keeps: a lot holds the youngest of its shares,
as many as are open in it. So the shares of the lots up to one are as many as the
prefix sum of what is open (`UpToLotSize`), and taking the oldest `n` shares takes
each lot's part of them.

### The games

`GameRunsProofs`, for any players, fields, runs, returns and point values
(`GamesAssumption`):

| theorem | statement |
| --- | --- |
| `TypeCorrect` | `Spec => []TypeOK` |
| `ResultsPaid` | `Spec => []ResultsArePaid` |
| `TotalsHold` | `Spec => []ClampHolds` |

*Inductive invariant.* `IInv` adds to the two properties what the scoring pass has
uncommitted: what it has still to do, has in hand and has scored are runs of its field
that were entered, what it holds is among what it has scored, and the duels are judged
when nothing is left to score (`PassOK`); a run of the field that it is done with has a
result, and so has a scored one (`Remaining`, `ScoredOK`); and a run that nobody has
entered has nothing asked, owed or on its way (`EnteredOK`). A restart may have read and
summed a run that a pass holds: it waits, and what its sum has lost by then makes the
player `stale`.
`ClampHolds` follows from what one row more or less does to a sum over a player's
runs (`WorthChange`, `TotalChange`), up to the debits that `stale` names. Sums over finite
sets are folds; that the folds exist, agree on subsets and do not depend on the order
is proved by induction on finite sets (`Subsets`, `FoldsAgree`, `SumRemove`).

### The claim

`AccountMergeProofs`, for any players, fields, periods and runs (`MergeAssumption`):

| theorem | statement |
| --- | --- |
| `NothingStays` | `Spec => []NothingLeftBehind` |
| `CareerStays` | `Spec => CareerKept` |
| `OrderKept` | `Spec => []Ordered` |
| `OneWait` | `Spec => []OneOrder` |
| `DuelsStay` | `Spec => []DuelsFollow` |

*Inductive invariant.* `NothingLeftBehind` speaks of the end only. `IInv` says what
holds on the way: of the tables it has passed, the merge has every row that names
the guest, or the row is `late` (`Seen`); the career rows it holds are still the
guest's (`FromGuest`); every stipend it will delete, and every period it has read,
has a stipend of the user's, which nobody can take away (`Twins`); and what the pass
will post is not there yet (`PassOK`). `OneWait` rests on `Ordered`: the pass holds the
run of every row it has posted, and takes no duel before it is through with the runs.
`Put` is all that anybody but the claim does to
rows, so one lemma each (`PutSeen`, `PutHeld`, `PutPass`) carries these parts through
every writer, and `Statement` through each statement of the merge.

`DuelsFollow` relates rows of three tables, which pairing, pass and claim write from
copies. `DInv` says of each copy that it is still true, or that the account read is
the guest's and deleted, or that the row is `late` (`Current`, in `PairingOK` and
`DuelsRead`); of each duel that its sides follow their runs and its winner is one of
its sides (`DuelOK`); and of the claim that with a winner it holds the side that won
(`HoldsOK`), because the same statement takes all three.

### Only model-checked

* Liveness (`EventsLand`, `FailedTurnsSettle`, `ClaimsResolve`,
  `ElapsedOrdersLeave`, `RoomsEnd`, `BreachedAlertsEnd`, `SlotsComeBack`,
  `EverythingEnds`) and anything with `ENABLED`: out of TLAPS's reach.
* With failing writes, `OneRoomPerKey`, `RetriedOnce` and `JournalledOnce` are not
  claimed: the assumption of those theorems of `RoomRunsProofs` is part of them.

Every other property of the passing runs is a theorem above. Induction was
possible where the data is indexed by numbers or is a finite set, by taking sets for
the induction predicate (`Numbers`, `UpTo`, `Subsets`). `Survivor`, which follows a
chain of claims, is not unfolded: no property needs what it returns beyond its type.

TLC has checked the inductive invariants as well, on the instances of
`credit_races`, `order_sweeps`, `order_settled`, `room_faults`, `room_restarts`,
`alerts`, `turns`, `ledger_overlaps`, `games` and `claim`.

## 7. Plan

In order of what it costs a user when it goes wrong:

1. `CreditPlans`, `CreditAccounts`, `CreditLedger` and their proofs. *Done.*
2. `OrderPricing`, `RestingOrders` and their proofs. *Done.*
3. `RoomCharge`, `RoomRuns` and their proofs. *Done.*
4. `CostBasis`, `SimLedger` and their proofs. *Done, except for a refinement from the
   fill of `RestingOrders`.*
5. `PriceAlerts`, `RateLimit`, `Turns` and their proofs. *Done.*
6. `GameRuns` and its proofs. *Done, except for lobbies, forced buy-ins and
   settlement.*
7. `AccountMerge` and its proofs. *Done for the games and the balances; the training
   portfolio, which changes hands as a whole, is next, with `SimLedger`.*
8. `Options`: legs, expiry, assignment and their collateral, beside `SimLedger`.

### Not modelled

* Identity and sessions, reputation, leagues and lessons: small rows written by one
  request each, which a claim re-keys or adds up without a lock
  (`merge_service.py:465-511`).
* Notifications, reminders and the inbox: best effort after the fact.
* The mandate and floor rules: a decision on a snapshot, here always a possible
  refusal.
* Market data, model gateways, agents, prompts and research context: inputs of the
  models (a quote, a failure, a verdict), with caches but no state others decide on.
* Real-number mathematics (TWR, Greeks, sizing): outside TLC's integers, densely
  unit-tested.
* Analytics and reports derived from rows the models have, scripts, migrations, the
  clients and websites.

These make up most of the repository's lines; what decides about money, orders and
points, and does so concurrently, is what sections 3.1 to 3.8 have.
