# TLA+ verification of the cryptocurrency trading bot

The bot trades on one exchange (NDAX) from one state directory. This project models the parts of it
that decide whether money is accounted for correctly: the mutation lock and the files of the state
directory, what entitles a LIVE order to leave and how it is submitted, the ways in which executions
reach the managed book, the manual-trade bridge, the commands that hand money over to the bot, paper
trading with its risk limits, and the backtester. Paths are relative to the repository's `src/`
directory unless they start with `docs/` (`execution/LiveOrderMonitor.ts` is
`src/execution/LiveOrderMonitor.ts` of the repository).

Contents: 1 the system, 2 what is hard about it, 3 the modules, 4 the runs, 5 fairness, 6 the proofs,
7 where code and documents disagree, 8 what is left out, 9 the plan.

## 1. The system

| Component | State it keeps | Operations | Interacts with |
|---|---|---|---|
| Mutation lock (`persistence/lock.ts`) | the lock file; per process, the set of lock paths it holds | `withStateDirLock`, `withStateDirLockAsync` (both reentrant within a process), manual removal | every store and command |
| Order ledger (`persistence/OrderStore.ts`) | orders by client order id | `save`, `saveAll`, reads | submission, monitor, commands |
| Live managed state (`persistence/ManagedStateStore.ts`, `portfolio/Portfolio.ts`) | cash, positions, reservations, applied executions, attestations, settlements | reserve, consume, release, apply a fill, attest, settle, adopt | submission hooks, monitor, reconciliation, commands |
| Live submission (`execution/LiveExecutionEngine.ts`, `execution/liveHooks.ts`) | none of its own; session authority | `place`, `prepare`, `placePrepared`, `recoverOrder`, `refreshOrder` | ledger, managed state, exchange, under the lock |
| Live engine (`engine/LiveEngine.ts`) | halted, consecutive errors, timer | `start`, `evaluateOnce`, `stop` | monitor, reconciliation, coordinator, submission |
| Live order monitor (`execution/LiveOrderMonitor.ts`) | none | `monitorOnce`: read without the lock, recheck and save under it | exchange, ledger, managed state |
| Reconciliation (`reconcile/`) | none | `reconcile` (read only), `commitProven`, `livePreTradeGate` | exchange, ledger, managed state, intents |
| Operator commands (`cli/resolve-created-order-cmd.ts`, `cli/resolve-live-order-cmd.ts`, ...) | none | attach, abandon, attest | exchange, ledger, managed state |
| Autonomous session, authorizations (`execution/AutonomousLiveSession.ts`, `execution/ControlledLiveAuthorization.ts`) | orders and notional used, expiry, single-use marks | authorize, charge | submission |
| State files (`persistence/envelope.ts`, `init.ts`, `recovery.ts`, `migration.ts`) | JSON envelopes, initialization marker | atomic write by temporary file and rename, load OK / MISSING / CORRUPT | all stores |
| Manual trades (`manual/bridge.ts`, `manual/ManualIntentStore.ts`) | intents by id | propose, confirm, record evidence, settle, cancel, reconcile | managed state, exchange |
| Hand-over of funds (`cli/live-adopt-external-cash-cmd.ts`, `cli/live-onboard-external-cmd.ts`) | none | adopt the quote, onboard the base the book does not know | managed state, exchange |
| Paper engine (`engine/PaperEngine.ts`, `execution/PaperExecutionEngine.ts`) | paper portfolio and orders | timer cycle, simulated fills | stores of the paper realm |
| Coordinator, risk, strategies (`engine/MarketCoordinator.ts`, `risk/`, `strategy/`) | kill switch, cooldown, last cross per symbol | select at most one trade a cycle | both engines, backtest |
| Backtest (`backtest/`) | a dataset; book and pending order of a run | acquire candles, run the loop over the bars | exchange history, risk, strategies |
| Market data (`marketdata/`), NDAX adapter (`exchanges/ndax/`), money (`money/Money.ts`) | polled candles and tickers | reads, mappings, fixed-point arithmetic | everything |
| Monitoring, API, web, CLI wiring, health check | none that trades | views and reports | read the stores |

What makes the components correct, in a sentence each:

- **Lock**: sections exclude each other across processes for their whole duration; a crash fails closed;
  nobody but the operator clears a stale file.
- **Submission**: at most one LIVE order is unresolved; whatever may have reached the exchange is on
  record and, if it is a BUY, reserved; an ambiguous answer is never a rejection; a halted engine sends
  nothing.
- **Monitor and reconciliation**: the ledger's end of an order is the exchange's; every execution is
  accounted once, none is lost by a concurrent save, all are accounted in the end; a reservation is
  released only when nothing it covered is outstanding.
- **Operator commands**: an attestation and proven executions exclude each other; an abandoned order
  keeps its reservation.
- **Portfolio**: the pool of reserved quote equals what the reservations have left and is covered by cash.
- **Authority**: a session's orders and notional stay within its budget; a supervised order is sent once,
  as it was shown, on a quote that is still fresh; what is sent is covered by the book; REJECTED means that
  the order is not at the exchange.
- **State files**: a crash at any write, a lost or torn file and a restore leave a state that is good or
  refused at the next start; a reservation that lost its order stops the trading; where nothing was lost no
  start reports a loss.
- **Manual trades**: an exchange order is accounted by one intent, on the exchange's figures; book and
  intents agree in the end.
- **Hand-over of funds**: the bot never manages more than the account held when it looked last; what it saves
  it can load.
- **Paper trading and risk**: books balance under slippage and rounding; exposure and the pause after a
  loss hold at the market's prices; an exit happens.
- **Backtest**: no lookahead; the report explains the book; the dataset is what it says it is.

## 2. What is hard

There are no threads, but every `await` is a scheduling point, several processes may share the directory
(the engine, `live-monitor`, `reconcile --commit`, the resolution commands), and processes die. The
recurring pattern is: *read the ledger and the exchange without the lock, then lock, reload, recheck,
change, save*. Four things go wrong around it:

1. The timer of `LiveEngine.start` calls `evaluateOnce` without waiting for the previous call, and the
   lock is reentrant per **process**, not per activity: two cycles of one process share one section.
2. Two files are saved one after the other (ledger and book, in either order); a failed save or a crash
   in between leaves them apart.
3. The exchange answers late, ambiguously or not at all, and its account trades lag behind its order
   statuses.
4. What was read before the lock is old when it is used under it.

`PROJECT.json` lists the hazards one by one with their lines and the properties that cover them.

## 3. The modules

| Module | Models |
|---|---|
| `StateLock` | `lock.ts`: acquisition, failure between creating the file and writing its metadata, reentrant sections, release by the acquiring call, crash, restart, manual removal |
| `StateDirectory` | `StateLock` with the saves of the stores, each in a synchronous section |
| `FailClosedLock` | abstract specification: free, held by one process, or stale; who may write when |
| `LiveSubmission` | the evaluation cycle, the submission transaction and everything that ends an order; extends `StateLock` |
| `Portfolio` | operators for the methods of `Portfolio` that LIVE orders use; no state |
| `LiveAccounting` | the executions of LIVE orders on their way into the book; extends `Portfolio` |
| `LivePlacement` | authority and placement: autonomous session, supervised `live-test`, prepared orders, the section's checks, `NdaxAdapter.placeOrder` and the REST client's answers; extends `StateLock` |
| `StateFiles` | the durable files, start, migration, failed saves, recovery, backup; extends `StateLock` |
| `ManualTrades` | the manual bridge; uses `Portfolio` |
| `ManagedFunds` | adoption and onboarding beside orders, and the document a book is saved as; extends `Portfolio` |
| `RiskManager` | operators for `RiskManager.evaluate`; no state |
| `PaperTrading` | the paper engine's process; extends `RiskManager` |
| `Strategies` | the four strategies as operators; no state |
| `CandleAcquisition` | `acquireCandles` against an incomplete exchange |
| `Backtest` | `runBacktest` on what was acquired; extends the three above |
| `MC*` | constants for TLC |
| `*Proofs` | theorems and their proofs; those about `StateFiles` follow those about `StateDirectory`, about `ManagedFunds` those about `LiveAccounting`, about `PaperTrading` those about `Backtest` |
| `Sums` | lemmas about sums over finite sets, which the proofs about amounts share |

Definitions whose name starts with `Wrong` stand before the definition they are a mistaken version of.
No action uses them. Each replaces its neighbour in a separate run that must find one property violated,
which shows that the property can fail for a reason that lies in the code.

### StateLock, StateDirectory

`held` is `heldByProcess`, `lockFile` the file with its creator, `section[t]` whether activity `t` is
outside, in the section it acquired (`owner`) or in a reentrant one (`guest`). `Enter`, `Reenter` and
`Leave` are the three branches of `withStateDirLockAsync`. `EnterFailsMidway` is the window in
`acquireStateDirLock` in which the file exists and the path is not remembered. A synchronous section
(`withStateDirLock` around a save) contains no await, so that it is one step, `Save`, guarded by
`CanMutate`. `StateDirectory` implements `FailClosedLock` with `holder` the lock file and `stale` "a
file nobody holds", for overlapping activities too: what overlap breaks is the atomicity of a section
(`AtomicAgainstOthers`), not the file-level promise.

### LiveSubmission

A *task* is one evaluation cycle; its steps are the code between two awaits.

| Actions | Code |
|---|---|
| `Watch`, `Adopt`, `AdoptRefused` | `monitorOnce`, phase 1 (no lock) and 2 (recheck under the lock) |
| `Reconcile`, `ReconcileHalts`, `Commit` | `reconcile`, `commitProven`, the gate |
| `Begin`, `BeginFails`, `Refuse`, `PersistAndSend`, `CreatedNotSaved` | `submit` up to the request: guard, validation, reservation, CREATED, request |
| `Acked`, `Ambiguous`, `Rejected`, `OutcomeNotSaved`, `HaltOnUnknown` | the outcomes of the request, each with its saves |
| `Die`, `DieAfterReserve`, `DieAfterRelease`, `Reboot`, `RemoveLock` | a crash at each point where the stores differ, restart, operator |
| `Deliver`, `Match` | the exchange |
| `Attach`, `Abandon`, `Attest` | `resolve-created-order`, `resolve-live-order` |

Abstractions: quantities, prices, validation and the session budget are left out (any submission may be
refused, any cycle may end without a trade). Whether a partly executed order that was cancelled gives its
reservation back is left open here; `LiveAccounting` decides it. After an acknowledgement the code runs
the accounting part of the cycle once more, which the model leaves to the next cycle. Snapshot and
exchange read of `reconcile` are one step. Commands are atomic under a free lock, with the exchange read
that may be stale before it. The count of consecutive errors is left out: any error may end a cycle, a
failed read may halt. Client order ids are random UUIDs and never collide.

### Portfolio, LiveAccounting

`Book` is the part of `PortfolioModel` that a LIVE order changes. Each method is an operator from a book
to a book beside the condition under which it does not throw. An *actor* is a cycle of an engine process,
or a command that runs a part of it.

| Actions | Code |
|---|---|
| `ReadStatuses`, `MonitorOpens`, `MonitorApplies`, `MonitorSaves`, `MonitorEnds` | `monitorOnce`: statuses and trades without the lock; ledger saves, `applyLiveFill` per proven execution, one save of the book |
| `TakeSnapshot`, `NoSnapshotTaken`, `ReadExchange` | `reconcile`: stores under the lock, balances, then orders and trades; `classifyOrder`, `reconcileBalances`, `crossDomainValidation`, `livePreTradeGate` |
| `CommitOpens`, `NothingToCommit`, `CommitRefused`, `CommitApplies`, `CommitHalts`, `CommitSaves` | `commitProven`, whole: attested orders halt it, a refused execution halts it, releases at the end |
| `BookNotSaved` | the save of the book fails after the ledger's |
| `Place`, `NoTrade` | the end of the cycle: one in flight, the gate, the reservation |
| `Attest` | `resolve-live-order` with its fee rule; the book is saved, then the ledger, which may fail |
| `Execute`, `Cancel`, `Report` | the exchange; `Report` makes an execution appear in account trades |

The sections of the monitor and of `commitProven` are several steps, although no await interrupts them,
so that each execution is an action of its own; while one is open nobody else can take the lock, which
is what the code's lock guarantees between processes.

Abstractions: submission is summarised to the placements acknowledged with an exchange id (the others are
`LiveSubmission`'s). One market, a BUY's and a SELL's worth per execution given, fee included. A
reconciliation reads balances with its snapshot and then statuses and trades in one step. The funds a
working order holds at the exchange make the balance of its side disagree; the effect of a fee in the
base asset on the exchange's base balance is not followed. The order-level fee, which an attestation falls
back on when no trade is reported, is taken to be the true fee. A crash in a section is a failed save (its
lock file is the operator's to clear). The existence and identity checks of `commitProven` hold
trivially, since the exchange id of an order never changes here.

### LivePlacement

Two processes on one directory: the engine with its cycles, and the supervised `live-test` command. Time is
a clock of coarse ticks.

| Actions | Code |
|---|---|
| `StartCycle`, `Place`, `EndCycle` | `evaluateOnce` from the captured time to `LiveOrderEngine.place` |
| `PrepareSell`, `PrepareBuy`, `Execute` | `live-test`: snapshot, readiness, minting of the authorization, the prompt, and what is checked again after EXECUTE |
| `Submit`, `Refuse`, `LookupFails` | the section: guard, authority, cover, session budget, reservation, record |
| `Post`, `Receive`, `Answer`, `Timeout` | `NdaxAdapter.placeOrder` (whose request may leave late), the REST client's `mapError`, `ackTimeoutMs` |
| `Resolve`, `OtherCommand`, `Poll`, `Tick`, `Die`, `Begin`, `RemoveLock` | monitor and operator, other commands, market data, time, crash and restart |

How much is bought is the risk manager's matter; any size the book covers may be approved. The exchange's
own free balance is left to `ManagedFunds` and `LiveAccounting`. A command ends with its process after an
ambiguous answer, as `index.ts` does.

### StateFiles

A write is two steps, temporary file and rename; a bot runs a list of jobs (take the lock, writes, release,
load), and a crash may come between any two.

| Actions | Code |
|---|---|
| `StartPaper`, `Skip`, `Retire`, `LoadPaper` | `buildEngineDeps`: `migrateLegacyState`, then `loadPortfolio` |
| `StartLive`, `LoadLive` | `assertLiveRealmRecoverable` (`Halts`, `Orphans` are `recoverState`), then `loadLiveManagedPortfolio` |
| `Trade`, `Submit`, `Account` | a paper fill; the reservation and CREATED of a submission; the end of a filled order |
| `Acquire`, `LockFails`, `WriteTmp`, `Rename`, `Fail`, `Release` | a save in its section; `Fail` is one that throws, before or after the temporary file is there |
| `Backup`, `Restore`, `Lose`, `RemoveTmp`, `RemoveLock`, `Die`, `Reboot` | the operator and his tools, lost files, crashes |

Any save may throw while the process stays up. What the code does then is `AfterFailure`: the section ends and
the call throws, except that a submission whose reservation or CREATED record is not saved first gives the
reservation back. That leaves the key of a released reservation in the book with no order, under a running
engine. From there on `MaySubmit`, which is the gate of the next cycle (`crossDomainValidation`), and the next
start (`LiveRefused`) both refuse. Old files in `Garbled` cannot be read: their migration throws, and with it
the paper start, each time.

A backup is taken apart at two instants, one file first and the others later (`stateBackup.ts:16` accepts
that). `saved` is a history variable: what completed saves recorded since the last migration or restore. A
reservation keeps its key after release, which is why a lost ledger is noticed. Manual intents are left to
`ManualTrades`. The live engine runs one cycle at a time here. With overlapping cycles (section 7, 2) a second
cycle whose gate looked before the first one's reservation could still place an order beside an orphan.

### ManualTrades

A command starts (`Start`: gate and load), reads, writes intents and book one after the other and may die
between (`Die`); `Propose`, `Confirm`, `RecordEvidence`, `Settle`, `SettleUnread`, `Cancel`, `Repair` (the
bridge's `reconcile`) are the bridge's methods, whole. An exchange order is what `xo` says of it; whether it
is consistent with an intent is given by `Fits`, whatever the operator types. In `ManualTrades_serial` two
commands do not overlap, which the code leaves to the operator (`Overlap`).

### ManagedFunds

The account's balance is the owner's and the bot's together. `StartAdopt` and `StartOnboard` load the book,
`Ask` reads the balance and asks, `Reread` is the answer of the second reading and the comparison with it,
`Adopt` and `Onboard` save what was confirmed, `GiveUp` ends a command anywhere in between. Any other
action may come between `Reread` and the save (when the bot is quiet, only the owner's), since the code awaits
the second reading and cannot hold the exchange still.
The owner withdraws only what is not managed, but he may do so in that window: `gone` counts what he took
behind each command's second reading, `unseen` what the saves that followed did not see. `Load` and `Written`
are `deserializePortfolio` and `serializePortfolio` with what each checks, first documents of version 1
included. The orders around the commands are those of `Portfolio`, without the pre-trade gate, which is more
than the program does. `Quiet` says whether the operator runs the commands only while every order is resolved
and nothing else is at work; no line of the code enforces it.

### RiskManager, PaperTrading

`RiskManager` gives the approved quantity of a BUY under every cap and limit, and of a SELL. A cycle of
`PaperEngine` awaits nothing after `start`, so that it is one action, `Cycle(v)`, for what the market data
cache shows (`Views`: fresh, stale or missing quotes): exits, then the ranked entry, one fill, the cooldown,
the save that may fail. `Start`, `Stop` and `Die` load, save and lose what a process keeps in memory. Amounts
are integers, rounded as `Money` and the market's ticks round; the last price is never above the ask. The
cooldown is memory: a restart ends it, as in the code. A symbol whose market info failed at the start is
out for the session (`known`).

### Strategies, CandleAcquisition, Backtest

`Strategies` holds the four `evaluate` methods on series of integer candles. `CandleAcquisition` asks page by
page an exchange that answers with nothing, a tail or everything, and filters by either end of a bar.
`Backtest` runs `runBacktest` twice in step, on a series and on a twin that differs from bar `cut` on, which
turns lookahead into an invariant. The bars are of one UTC day; a pending order at the last bar is dropped;
the rejection by the book itself (ACCOUNTING_REJECTED) is unreachable, and no cooldown is armed in a
backtest, as in the code.

## 4. The runs

Times are for two workers. Each run of `PROJECT.json` asks its own question:

| Run | Instance | States | Shows |
|---|---|---|---|
| `dir_overlap` | 2 processes, one with 2 activities, 3 writes | 1 512 | overlapping activities included, the lock refines `FailClosedLock` |
| `submission_serial` | 2 processes, a BUY and a SELL, crashes, failing saves and lock metadata | 876 515 (85 s) | all safety of submission |
| `submission_live` | 2 processes, 1 BUY, failing saves | 19 525 | acknowledged orders settle, sections end |
| `submission_overlap` | 1 process, 2 cycles, 2 orders, no fault | violation | one-in-flight fails for overlapping cycles |
| `accounting_overlap` | 2 actors, a BUY and a SELL, one execution each, failing saves of book and ledger | 1 635 512 (110 s) | cash and position explained by what was applied, once unless the ledger missed the attestation, and nothing forgotten |
| `accounting_engine` | 1 actor, a BUY in two parts and a SELL, failing saves | 25 736 (13 s) | reservations add up, placement on true books, fills accounted in the end |
| `manual` | 2 BUY intents, 1 exchange order that may fit both, 1 command at a time, crashes | 204 000 (100 s) | one order one intent, on the exchange's figures; book and intents agree, in the end too |
| `state_files` | both bots, 2 live orders, 1 paper trade, 1 loss or restore, failing saves, an old paper file and an old LIVE file that cannot be read | 2.7 M (100 s) | exclusion, memory of orders, detection of losses, orphans that stop the trading, no false alarm |
| `paper` | 2 symbols, 2 quotes each, 2 balances, 2 orders, 1 fault | 142 792 (170 s) | books, limits, ids, and exits in the end |
| `placement` | 1 cycle, 1 command, 2 orders, 2 prices, 2 ticks | 1 746 452 (150 s) | budget, single use, cover, rejection |
| `backtest` | 8 bars of 4 kinds in pages of 3, 4 strategies | 440 784 (26 s) | no lookahead, explained book, exits, honest datasets |
| `funds` | a BUY in two parts, a SELL, 2 deposits, 1 command | 282 887 (20 s) | managed funds are backed, books can be read back |

Other configurations are kept beside them, to be run by hand. Two pass: `StateDirectory_serial.cfg`
(one activity per process: all properties of `StateDirectory`) and `LiveSubmission_overlap_safe.cfg` (what
overlapping cycles do not break). The others reproduce section 7: `StateDirectory_overlap_violation`,
`LiveAccounting_blocked`, `LiveAccounting_attested_twice`, `LiveAccounting_released`,
`ManualTrades_cancel`, `ManualTrades_overlap`, `StateFiles_loss`, `LivePlacement_late`,
`LivePlacement_stale`, `ManagedFunds_overlap`, `ManagedFunds_window`. Each module's type invariant
(`DirTypeOK`, `SubTypeOK`, `AccTypeOK`, `ManTypeOK`, `FilesTypeOK`, `PlTypeOK`, `TrTypeOK`, `FundsTypeOK`) and the inductive invariants
hold in the configurations of their modules when added to them. The type invariants are also proved (section 6).

Why the bounds are enough. The lock distinguishes "my process" from "another": three processes give a
holder, a rival and a bystander, two activities give every pattern of overlap, three writes a write before,
in and after a section. In submission the guard relates two orders and exclusion two processes; a third
order or process only repeats a role. Orders are placed once and every order has at most two executions:
two are what a partial fill, a lagging report and a fill beside a cancellation need. In accounting two
actors give every interleaving of an unlocked read with another's section; the operator and the exchange
are on top of them. `accounting_overlap` uses a whole execution per order to leave room for the second
actor; partial execution is in `accounting_engine`. Amounts are chosen so that no two sums of different
executions coincide (3, 5, 7), with a reservation above the BUY's cost (9 to 8) so that a release has
something left to release.

`PlacedOnTrueBooks` holds for one actor only. With two, another process may account a fill between the
gate and the placement; the reservation made under the lock bounds the harm. `FillIsAccountedUnlessBlocked`
names the one obstacle of `LiveAccounting_blocked.cfg` and shows that there is no other, failed saves included: the
ledger's terminal status hides an order from the monitor, and reconciliation picks up its fills.

In `manual` two intents compete for one order, and Typed names evidence that is right and wrong. In
`state_files` one incident (a loss, or a restore of a torn backup) is enough because the checks of a start look
at one pair of files at a time; two orders give one that loses its record and one that must then not be
recorded, and every save may fail or be cut off by a crash. Its `VIEW` leaves out what no step and no property
of the run reads: a snapshot after the last incident, the executions accounted, and the content of a temporary
file, which follows from the job (`PendingIsCurrent`).
In `paper` amounts are chosen so that a fill costs a sixth more than its estimate and the exposure of two
symbols exceeds the cap; no average crosses above another after `MaxOrders` orders, which bounds the entries
but not the exits, so that `ExitHappens` has a case. In
`placement` two ticks tell fresh from stale and early from late, two orders a budget kept from a budget
broken; one minted capability is the session's, the other the command's. In `backtest` the last four of up
to eight bars are free and the others fixed per strategy, so that every strategy enters and leaves; pages of
three bars give a first, an inner and a last page. In `funds` a unit of the BUY costs less than reserved,
so that there is a release, and the owner deposits and withdraws during a prompt.

Deadlock is checked in the first six runs and in `paper`. `manual`, `state_files`, `placement`, `backtest` and
`funds` turn it off (`CHECK_DEADLOCK FALSE`): an intent that is accounted, a start that is refused, a
session that is over, a finished backtest and a book whose orders have all ended leave nothing to do.

## 5. Fairness

- `FairSpec` (submission): weak fairness of each cycle's steps (a timer starts a cycle, and an await ends
  by an answer or a timeout), strong fairness of a full exchange read (it is retried every cycle, and an
  exchange that fails for ever settles nothing), weak fairness of the delivery of a request and of an
  order's end (the bot sends immediate-or-cancel orders). Crashes, failing saves and the operator are not
  fair.
- `ManSpec` (manual trades): strong fairness of `manual reconcile` with its reads and repairs (the operator
  runs it again and again, and reads do not fail for ever), weak fairness of a command's own end. What the
  operator proposes, confirms or types, and crashes, are not fair.
- `FairTrSpec` (paper): weak fairness of a start (the service is restarted), strong fairness of a cycle on
  fresh quotes (the timer goes on, polls succeed again and again). `ExitHappens` asks for nothing more than
  an average that stays below.
- `FairAccSpec` (accounting): weak fairness of the cycle and of `Report` (account trades are *eventually*
  consistent); strong fairness of the snapshot, of a full read and of a save that has fills, each retried
  every cycle. The operator, `Cancel` and `Execute` are not fair.

## 6. What is proved

Every theorem holds for every value of the constants that the named `ASSUME`s of its module allow: any number
of processes, activities, orders, executions, intents, bars, prices and amounts. What is assumed beyond them
is written in the theorem and named here in bold. Each part below says what the property needs besides
itself; the invariants were model-checked before they were proved.

**Lock** (`StateLockProofs`, `StateDirectoryProofs`). Types; `HolderConsistent`, which is inductive as it
stands; `OwnerKeepsLock`; the refinement of `FailClosedLock`, step by step. **Assuming `Serial`** (activities
of one process do not overlap), also `CrossProcessExclusion` and `AtomicAgainstOthers`: without it these two
are false, as `StateDirectory_overlap_violation.cfg` shows.

**Submission** (`LiveSubmissionProofs`). Types; **assuming `Serial`**, also `OneUnresolved`,
`PersistBeforeSubmit`, `InFlightIsTracked`, `InFlightBuyIsReserved`, `LedgerIsTruthful`, `SettledStaysSettled`
and `HaltedSendsNothing`, from `SubIInv`. None of these is inductive alone: between the guard and the record of
an order lies an await, so one needs that what the guard saw still holds (`GuardStillHolds`), which needs the
section to be exclusive and to be open exactly while an order is in submission (`SectionIsSubmission`,
`HolderConsistent`, no guests); the commands and the monitor write statuses read earlier, so one needs that
old reads are not wrong about an order's end (`ReadsStayTrue`), which needs the record to match the request
(`RecordMatchesRequest`).

**Accounting** (`LiveAccountingProofs`), for overlapping actors and any failing saves, of the book and of the
ledger.

- `AccountedOnce` and `AppliedNeverForgotten`, from `AccIInv`: what is attested is FILLED in the ledger, unless
  the save of the ledger failed (`half`) (`AttestedIsSettled`), so the monitor does not adopt it
  (`AdoptedIsNotAttested`) and `commitProven` refuses it; an attested order was FILLED at the exchange, so all
  its executions happened (`ReportsAreTrue`); and a section works on a copy that holds everything the stored
  book holds, which stays put meanwhile (`SectionHoldsBook`), so a save forgets nothing. An order in `half` may
  be accounted twice (`LiveAccounting_attested_twice.cfg`); that nothing else leads there is what the theorem
  says.
- `BooksAddUp` and the types: the pool equals the sum of what the active reservations have left, in the stored
  book and in the copy a section works on (`MoneyIInv`). Each method of `Portfolio` has a lemma that says how
  it moves the sum.
- `CashIsAccounted`: cash and position are the opening balances, the sum over the executions applied and the
  sum over those of the attested orders (`BalanceIInv`), each mark adding its amount once, also for an order
  accounted both ways.

**Placement** (`LivePlacementProofs`). Types, `SessionWithinBudget`, `SentAsConfirmed`, `CoveredWhileSending`,
`RejectedMeansNotPlaced`. The base is that the jobs of the two processes and the lock
agree (`JobsInPlace` on `LockIInv`) and that an order's record, its place on the wire and the job that sends it
agree (`RecordsMatch`). On it stand three invariants: the command's token was shown to the
operator with the figures of the order it is for, a cycle submits under the registered session
(`CapabilityHeld`); a capability of the command has at most
one live order (`AuthorizationOnce`); and what a session has been charged is at least the number and the cost
of its live orders (`BudgetCharged`), with the charge made under the lock before the order can be sent. The
budget is about orders at the exchange, the charge about orders that may still get there, so the theorem
follows by monotony of the sum.

**State files** (`StateDirectoryProofs`, second half). `FilesBase` first: the jobs a bot has left follow each
other as in the lists it may be given, and it is in a section exactly while the first of them is one of a
section (`JobsInOrder`, with `FilesLock` for the lock itself); what it has written into a temporary file is what
it would compute from the file as it still is (`PendingIsCurrent`). It gives the types and `CrossProcessExclusion`; here exclusion needs no assumption
about overlap, since each bot is one activity of a process of its own. On it stand

- `PaperIsKept`, which gives `PaperLossIsDetected`, **assuming `MaxIncidents <= 1`**: the saved trades are in the
  book on disk or the marker still names the realm. Two losses may take the book and the marker together, and
  then nothing on disk tells a lost book from a first run.
- `OrdersAreKept`, which gives `OrdersAreRemembered`, **under the same assumption**: the ledger holds every saved
  order, or the live book still has a reservation's key for each of them and the live engine is down.
- `TradingIsClean`, which gives `OrphansStopTrading`, for any number of incidents and failed saves: the jobs of
  a submission follow a look at files without an orphan, and until CREATED is saved the only key without an
  order is that of the order in hand. Nothing but the save of CREATED adds to the known orders, and no job
  list leads from `Fail` back to one, so that what a failure leaves meets the gate or the start.
- `RealmsAreWhole`, which gives `NoFalseAlarm`: a realm the marker names has its book, and so has every realm
  some list is about to mark, or the seed stands before the mark in that list (`SeedsFirst`) - which every
  step that shortens the list preserves, and a failed save drops both.

**Manual trades** (`ManualTradesProofs`). Types, `OrderAccountedOnce` and `AccountedOnTruth` hold for overlapping
commands too, from `ManIInv`: every copy of the book, stored or in a command's memory, settles an exchange order
once and only on an order that was final, filled and fitting (`BookSound`), and what the exchange says of a
final order no longer changes. So does `BookExplainsItself`, which no run checks: cash, position and pool are
what the book's own settlements and reservations make of the opening balances. `BookMatchesSettlements`
**assumes one command at a time** (`~Overlap`), from `SerialIInv`: the running command works on the stored book,
and an intent and the book may differ only by the write it has still to make. With overlap it is false
(`ManualTrades_overlap.cfg`).

**Backtest and acquisition** (`BacktestProofs`).

- `NoLookahead`: a strategy's `evaluate` looks at the bars up to the current one only (`EvaluateSame`), and so
  does everything a bar does to the book (`AfterBarSame`); hence two histories equal up to a bar give equal runs.
- `TradesExplainTheBook`, from `BookInv`: a pending order belongs to the last bar; a BUY waits on an empty book,
  past the warm-up and with its anchor, a SELL is for the whole position (`Ready`); a position has a quantity
  that an order may have (`Whole`). `executePending` tests again what the balances need to stay above zero.
- `InvalidatedLongIsSold`, **assuming that candles close on the market's price tick** (`ClosesOnTick`):
  `evaluateSell` refuses an exit at a price that is off the tick, so without it the property is false. Whether
  a dataset's candles satisfy it is not checked by the code.
- `DatasetIsHonest`: every page holds what the exchange answered for its window (`Answered`), a page either
  begins near its own start or follows only empty ones (`Headed`), and windows do not meet; from this `AcqInv`,
  a dataset without a warning has every bar.

**The hand-over of funds** (`LiveAccountingProofs`, second half), for any orders, deposits and commands.

- `SavedBookLoads` and the types, with the bot quiet or not, from `FundsHealthy`: the book in the document, and
  the copy each command holds, passes what `deserializePortfolio` asks for (`Sound`), and its pool is exactly
  the sum of its active reservations (`AddsUp`). `SavedBookLoads` alone is not inductive: that a book loads says
  nothing of the copy a command writes back after its prompt, and a fill or a release keeps a book readable
  only because the pool still covers the reservation it is taken from.
- `ManagedIsBacked`, **assuming `Quiet`**, from `FundsQuiet` on top: one command is at work at a time, on a
  book that is the one on disk, while every order is resolved; and only what happened at the exchange is in
  the book. What a confirmed adoption adds was at most the difference between account and book when the
  exchange answered the second reading; since then the owner took at most `gone` (`StillHis`), which the save
  hands to `unseen`. Between commands every saved fill moves book and account by the same amount, an executed
  one that is not in the book yet being counted on the account's side. Without the assumption it is false
  (`ManagedFunds_overlap.cfg`), and so it is without `unseen` (`ManagedFunds_window.cfg`).

**Paper trading** (`BacktestProofs`, second half), for any set of symbols, quotes, balances and limits, any fee
and slippage in percent, and any number of failed saves, kills and restarts, from `PaperInv`.

- `PaperBooksBalance`. That the profit explains the equity at cost up to the base quantity bought is not
  inductive: the SELL that closes a position drops what rounding took from its average, so the bound must have
  room for it. `Balanced` says that what is lost so far and these remainders together stay below the quantity
  bought. A BUY moves its remainder, less than a unit of quote per unit of base, into the second term; a
  partial SELL changes neither term, since the basis leaves at the average; a closing SELL moves the remainder
  from the second term to the first. Both need that a BUY meets no position (`MovingAverageCrossover` enters
  from flat only). Cash stays above zero by `costExceedsDeployable`, and since a SELL's fee is at most its
  proceeds.
- `SavedBookKnowsItsOrders`: the ids in memory hold those of the book and those on disk.
- `PausedAfterLoss`: a recorded loss means that a cooldown is configured and runs; a position has an average
  above zero, so that `armCooldownOnLosingClose` does not overlook a loss.
- `BuyWithinExposure`, **assuming that an exposure cap is configured** (`ExposurePct > 0`; with 0 the code has
  none): an approved BUY has a value and an exposure, hence a fresh quote for its own symbol and for every
  position, hence figures of the market; the approved quantity is rounded down under the cap, and no more of it
  is filled. The slipped price may be above the ask; the property speaks of the ask, as the code's cap does.

**Sums.** Balances, pools and budgets are folds over finite sets. `Sums` proves what removing, adding or changing
an element does to such a sum, and that a sum of natural numbers grows with its set. Where one would use
induction over the set it takes a smallest counterexample (`SmallestSet`): strict inclusion is well-founded on
the subsets of a finite set. `ManualTradesProofs` gets the largest element of a finite set in the same manner.

Three proofs changed the models. The guards of the `CASE` in `Strategies`' `Evaluate` overlapped, so that its
value before the warm-up was not determined; it now tests the warm-up first, as each `evaluate` does.
`StateFiles` now states that the two bots are processes of their own and that no content equals the value for
an absent file, which its configurations had always satisfied. And `Portfolio` settled an attestation of an order
that filled nothing, which leaves a mark that no document loads with; the code refuses it (`Portfolio.ts:1088`),
and `CanSettle` now does too.

Only model-checked:

- Liveness (`AckedOrderSettles`, `SectionEnds`, `FillIsAccountedUnlessBlocked`, `SettledIsFinalised`,
  `ExitHappens`): temporal reasoning under fairness needs `ENABLED`, which the prover does not handle.
- `PlacedOnTrueBooks`: the gate compares balances, not executions, and unequal sets of executions may have equal
  sums. It holds for amounts without such coincidences, and those are what its run uses.
- Overlapping cycles, apart from the lock's refinement, the accounting and the manual commands.

`HolderConsistent`, `OwnerKeepsLock`, `AtomicAgainstOthers`, `HaltedSendsNothing`, `BookExplainsItself` and the
type and inductive invariants are proved and not among the runs' properties.

## 7. Where code and documents disagree

The second item is a run of the project; the others are reproduced by the configuration named.

1. `StateDirectory_overlap_violation`: `persistence/lock.ts:130` promises a section atomic against other processes for
   its whole duration; a reentrant section outlives the call that removes the file.
2. `submission_overlap`: one unresolved LIVE order (`LiveExecutionEngine.ts:514`) fails when two timer
   cycles overlap, since the second submission is a guest of the first one's section.
3. `LiveAccounting_blocked`: an attestation "only affects the order for which the attestation exists"
   (`orchestrator.ts:239`), yet it halts every commit while its execution is reported.
4. `LiveAccounting_attested_twice`: a failed attestation claims "no partial mutation"; the book is saved and the ledger
   is not, and the monitor accounts the order again (`NeverAccountedTwice`).
5. `LiveAccounting_released`: release "ONLY when the rules PROVE release is safe"
   (`reservationReconciliation.ts:4`) looks at proven executions only, which may lag behind the filled
   quantity that came with the status.

6. `LivePlacement_late` (`SentUnderLock`): `LiveExecutionEngine.ts:505` holds the lock for "the WHOLE
   critical section ... and the exchange submission"; `placeOrder` (`NdaxAdapter.ts:414`) awaits
   authentication and lookups before it posts, and after the acknowledgement timeout the section ends while
   the request is still to leave.
7. `LivePlacement_stale` (`DecidedOnFreshQuote`): "a stale quote fails closed in the decision path"
   (`LiveEngine.ts:23`), by a clock captured before the awaited reconciliation (line 257).
8. `ManualTrades_overlap` (`BookForgetsNothing`): "the lock protects the WHOLE mutation transaction (load,
   validate, mutate, validate, atomic save, release)" (`lock.ts:4-7`); `bot manual` loads the book at its
   start (`manual-cmd.ts:852`) and locks each write only, so that a save drops what another command wrote.
9. `ManualTrades_cancel` (`KnownFillIsNotCanceled`): an order with a possible fill "is NEVER silently
   canceled" (`manual/bridge.ts:467`, `docs/DECISIONS.md:1132`); a settle that dies, or whose save
   fails, after it read a final fill leaves the intent in EVIDENCE_RECORDED, which `cancel` accepts without
   asking the exchange.
10. `StateFiles_loss` (`LiveLossIsDetected`): the loss of a live book is detected "mirroring the PAPER path"
    (`live-test-cmd.ts:787`); the seed of a first run is saved without a second look (line 821), over a book
    that another start has migrated meanwhile, and a live book that is found OK is never marked (lines
    800-806), so that a migrated one can be lost and seeded anew.
11. `ManagedFunds_overlap` (`ManagedIsBacked`): adoption takes "never more than the verified exchange balance"
    (`live-adopt-external-cash-cmd.ts:17`), on a book loaded before the prompt: a fill not accounted yet, or
    accounted by another process meanwhile, makes the saved book manage more than there is. The second reading
    narrows that down but does not close it, alone on the account or not: `ManagedFunds_window`
    (`CoveredWithoutFail`) has a withdrawal between its answer and the save (lines 182-213).

Noticed, without a configuration of their own:

- A save of CREATED that fails "must not leave the funds reserved" (`LiveExecutionEngine.ts:575`): the funds are
  free, but the key of the RELEASED reservation stays in the book (`Portfolio.ts:468-478`) without an order, so
  that the gate and the next start refuse (`recovery.ts:132-137`) until the operator repairs the file. The bot
  stops trading for good after one failed write (`OrphansStopTrading` is the good side of it).
- An old file that cannot be read stops the paper start (`migration.ts:86-94`), while `recoverState`, and with
  it the health check and the dashboard, calls the directory ready, since it does not look at old files.
- A FILLED order whose executions are all proven never becomes COMPLETE (`reconcile/completeness.ts:39`
  answers UNKNOWN on equality), so that the gate stays closed until an attestation, while
  `docs/FIRST_LIVE_BUY.md:224` speaks of `completeness=COMPLETE`; and an order refused before it reached the
  exchange shows no status and is never confirmed (`orderReconciliation.ts:33`).
- `resolve-created-order` attaches an exchange id without the check for another owner that `recoverOrder`
  makes; `bridge.reconcile` reports the reservations of live orders as orphans, so that it never says safe
  to trade after a live BUY.
- A SELL whose notional exceeds the session's caps or its exhausted budget is refused like a BUY, though
  "BOTH sides are permitted" (`AutonomousLiveSession.ts`): an exit may wait for a new session. The budget is
  the process's: a restart begins it anew.
- `LiveEngine` never calls `recordLoss`: no cooldown is armed in LIVE, though `docs/AUTONOMOUS_LIVE.md:30`
  lists it.
- `acquireCandles` accepts a page inside the series that came back empty every time, with a gap warning,
  where its comment (lines 21-25) says the acquisition fails; with a `from` that is not on a bar, or a quiet
  bar at a page's head, it fails though nothing is missing.
- `restClient.throttle` does not space concurrent requests (lines 147-154), and the abort signal of its timeout
  reaches no request (110-114).

## 8. What is not modelled

- `recoverOrder` and `refreshOrder` (only tests call them); resting limit orders of the paper engine; the
  `live-` prefix filter and orders of other realms; currencies beyond one market.
- `analyzeCompleteness`'s and the correlation's classification tables beyond what `Confirmed` needs; NDAX field
  mappings, signing, the web socket (an unknown side is read as a BUY there); an exit that the session's caps
  trap.
- Two paper engines on one directory: `PaperStateStore.save` locks only its write, so that the second
  overwrites the first's book; the code does not support the case. Equity history and field-type checks of
  documents; a failing read of the marker.
- Overlap of cycles in `LivePlacement` and of commands in `ManagedFunds` and `ManualTrades` beyond section 7.
- Report metrics, dataset files, monitoring, HTTP API, web client, CLI wording, configuration, logging and
  deployment files, which change no trading state.

The table of components in `PROJECT.json` gives each part's status.

## 9. Plan

Done, in this order: the lock and its refinement; submission; the book and its accounting; their proofs;
manual trades; the state files; risk and paper trading; placement and authority; strategies, acquisition and
backtest; the hand-over of funds. What is left of modelling: the classification tables of `reconcile/`
against a reference definition of "resolved", and the NDAX mappings.

Proofs done: the lock and its refinement; submission; accounting with its sums; placement; the state files; the
manual bridge; backtest and acquisition; the hand-over of funds; paper trading. Every invariant and action
property of a passing run is a theorem, except `PlacedOnTrueBooks`, which depends on the amounts (section 6).
What would come next is the safety of submission without `Serial`, as far as `LiveSubmission_overlap_safe.cfg`
shows it to hold.
