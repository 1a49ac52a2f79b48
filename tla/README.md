# Verification of the FX volatility trading system

TLA+ models of the parts of the repository that price, gate, place, track, book,
close and hedge trades, of the data path they live on, of the database writer and
of the schema's migrations; the TLC runs that check them on small instances; and
TLAPS proofs of the safety properties of the execution core, the close path, the
trade desk, the writer and the feeds for every value of the constants. Paths below
are relative to the repository; `src/...` is the Python root, `PROJECT.json` maps every definition to its lines.

## 1. The system

Eleven containers: a React frontend, a FastAPI process (`src/api`), five
engines (`src/engines/{market_data,vol,risk,analytics,execution}`), a database
writer (`src/engines/db_writer`), PostgreSQL, Redis and the IB gateway. The engines publish
on Redis; the API and the execution engine share PostgreSQL and talk over HTTP;
only the execution engine sends orders to IB.

| part | state it keeps | operations | what is hard |
|---|---|---|---|
| structure submission (`live_submit.py`) | `trade_structure.state`, `submit_claimed_at` (the claim), `trade_order.{state, ib_order_id}` | claim, select pending legs, revalidate, place per leg or as one BAG, commit | retries and double clicks, failure of leg k, a crash between `placeOrder` and its commit |
| session (`ib_session.py`, `ib_connection.py`) | ready gate, upstream flag, pass lock | 1100/1101/1102/507, watchdog poll and reconnect, reconciliation pass | events during a pass, undelivered disconnects, a gate that never reopens |
| handlers (`fills_handler.py`) | order rows, `trade_fill`, `leg_position`, `booked_position` | status, execution, commission, completion of the structure | duplicated and late events, two legs finishing at once, unlocked writers |
| reaper (`reaper.py`), reconciler (`order_reconciler.py`) | none of their own: they rewrite order rows and structures | expire stale orders, adopt orphans; fill stuck orders from recorded fills or from the position mirror | they read, await and write without the handlers' locks |
| `cancel_trade` (`api/routers/trades.py`) | none | one DELETE per leg, then writes `cancelled` | same |
| position sync, break reconciliation | `open_position`, breaks | mirror of `ib.positions()`, closing of flat positions, ghost flips | one net position per contract for the whole account, given to one structure |
| rollback (`rollback_runner.py`) | unwind orders | plan, claim, cancel, unwind | a plan made before the claim, a crash between row and order |
| close, reservation, finaliser (`positions.py`, `position_close.py`) | closing orders, `reserved_qty`, `booked_position.state` | operator's close, hand close, reserve, finalise, reconcile flat | a close whose answer is lost or wrong, rows that do not name the leg they close, a position closed behind its close |
| position monitor, exit rules, hedger | exit alerts, hedge rows, pending lists | evaluate, alert, hedge, commit, dispatch | commit failures between staging and dispatch, a hedge still working |
| trade desk (`routers/trade.py`, `trade_preview.py`, `pretrade_gate.py`) | preview rows, Redis lock, structures, book state | preview, expire, cancel, submit, gate, dispatch | duplicates past an expired lock, risk judged on other data than is sent |
| kill switch | halt flag (DB, mirrored in Redis) | halt, cancel all, resume | a submission already past the check |
| db writer | bounded queue, batch in hand | subscribe, enqueue, batch, retry, dead-letter, drain | in-doubt commits, errors that are not retried, shutdown with a batch in hand |
| market data, vol, risk engines | Redis keys with lifetimes, chain cache | poll, scan, publish, heartbeat | outages of the Gateway and of Redis at any point of a cycle, scans longer than the cycle |
| schema (`persistence/migrations`, `models.py`) | tables, keys, `alembic_version` | 64 upgrades and downgrades | names and types after renames and downgrades, rows in the way, drift between migrations and ORM |
| WebSocket bridge, config, events, analytics, frontend | connection sets, versions, calendar rows | fan out, write, fetch, aggregate | little control of their own |
| numerical core | none | pricing, fitting, risk numbers | floating point: not for a model checker |

`PROJECT.json` lists all of them under `components` (also what is left out, and
why) and the places where the code is hard to test under `hazards`.

## 2. Modules

| module | models | composed of |
|---|---|---|
| `ExecutionCore` | the pure decisions: `next_state`, `update_order_aggregates`, `fold_fills`, `decide_reap`, `plan_structure_terminal_state`, ... | |
| `SubmitOnce` | abstract: what one submission promises callers and account | |
| `LiveSubmit` | the submission of one structure, crashes, rehydration, adoption | INSTANCE `SubmitOnce` (refinement) |
| `IbSession` | the ready gate and the reconciliation passes | |
| `TradeLedger` | abstract: the ledger the order side promises its readers | |
| `OrderLifecycle` | the rows of a structure's entry orders after placement, and its booking | EXTENDS `ExecutionCore`, INSTANCE `TradeLedger` (refinement) |
| `MCOrderLifecycle` | quantities for TLC | EXTENDS `OrderLifecycle` |
| `Rollback` | the rollback of one structure: plan, claim, cancels, unwind rows and orders | EXTENDS `ExecutionCore` |
| `ExitRules` | exit rules, the winning decision, the hedge decision (pure) | |
| `PositionClose` | closing orders of one position: the operator's route, engine, IB, fills, reservation, finaliser, reaper, and the position's own state | |
| `CloseOut` | abstract: what closing a position promises the account | |
| `PositionMonitor` | the monitor's cycle and the hedger | EXTENDS `PositionClose`, `ExitRules`, INSTANCE `CloseOut` (refinement) |
| `MCPositionMonitor` | rule contexts and deltas for TLC | EXTENDS `PositionMonitor` |
| `TradePreview` | templates, free legs, greeks, sizing, checks (pure) | |
| `TradeDesk` | previews, submit requests, gate, dispatch, engine and IB as far as the kill switch reaches, the kill switch | EXTENDS `TradePreview` |
| `MCTradeDesk` | requests and surfaces for TLC | EXTENDS `TradeDesk` |
| `EventSink` | abstract: what the database writer promises | |
| `DbWriter` | the writer process | INSTANCE `EventSink` (refinement) |
| `MCDbWriter` | the stream of rows for TLC | EXTENDS `DbWriter` |
| `LiveFeeds` | market data, vol and risk engines over Redis | |
| `MCLiveFeeds` | tenors and legs for TLC | EXTENDS `LiveFeeds` |
| `SchemaOps` | alembic operations as PostgreSQL executes them | |
| `SchemaModels` | the tables `models.py` declares | |
| `SchemaMigrations` | the files of `migrations/versions` | EXTENDS `SchemaOps`, `SchemaModels` |
| `SchemaUpgrade` | alembic running them | EXTENDS `SchemaMigrations` |
| `LiveSubmitProofs`, `IbSessionProofs`, `OrderLifecycleProofs`, `RollbackProofs`, `PositionMonitorProofs`, `TradeDeskProofs`, `DbWriterProofs`, `LiveFeedsProofs` | theorems | EXTEND their module and TLAPS |

### LiveSubmit
`claimed` is `submit_claimed_at IS NOT NULL`; `rowState` and `ibOrderId` are the
columns of each entry leg; `placed` counts `placeOrder` calls per leg and is the
ground truth the properties use. Each call of `submit_structure_live` is a
process with a program counter whose steps end where the code awaits or
commits: `Start`, `Claim` (the conditional UPDATE), `Select`, `Prepare`
(revalidation and contract building; one outcome, success or failure with the
claim released), then per leg `PlaceLeg`/`CommitLeg` or for a BAG
`PlaceCombo`/`CommitCombo`, each with its failing twin. `Crash` stops every call
and loses the handlers; `Restart` and `Rehydrate` are the connect path;
`AdoptOrphanedOrders` is the reaper's sweep by orderRef. IB (`IbFill`,
`IbCancel`) is external.

`SubmitOnce` is the same structure with one caller, no crash and no failing commit:
the claim is taken, the legs are sent in order or all in one BAG, the claim goes back
only while nothing is sent, an id once learnt is kept. `LiveSubmit` implements it with
`asBag` as `useCombo` and at least two legs, `named` as the legs with an `ibOrderId`.

### IbSession
`ready`/`readyReason` are `SessionState`; `socket` and `upstream` the two links;
`watchdog`, `spawned`, `pass` the tasks that may run a pass. An error code is an
action (`UpstreamLost` is 1100, `UpstreamRestoredDataKept` 1102,
`UpstreamRestoredDataLost` 1101, `SocketDrop` a 507 or a socket that dies with
or without its event). A pass is `PassStart`, `PassSteps`, `PassEnd`, under the
one pass lock; passes of the watchdog and of 1101 queue on it. `downSince` is the
engine's record of a 1100, which only a 1101 or 1102 that is delivered clears;
`upstream` is IB's own link, and returns in silence while the socket is down.

### OrderLifecycle
One structure whose legs have been placed one IB order each. Events spawn tasks
(`statusTasks`, `fillTasks`), a task runs under its order's lock. The status
handler, the reaper, the reconciler and `cancel_trade` are two steps each, a
read that decides and a commit that writes the decision whatever the row is by
then; the execution handler is one step, since under the lock its read and
commit can be separated only by writers whose columns it re-derives from
`trade_fill`. The completion cascade `maybe_complete_structure` is a read of the
legs (`CompleteRead`) and one transaction (`CompleteWrite`): the session
autoflushes its UPDATE of `trade_structure` before it counts the positions, and
that row lock serialises completers. `clobbered` and `cascadeLost` are history
variables: the stale writes, and the cascades the code gives up. `CompleteFails` is the
cascade raising, which its callers log. IB reports one net position per contract for
the whole account, and the mirror row names the most recent live structure that has the
contract: `Shared` is the set of legs whose contract the account also trades for
others, and the mirror shows those held or not whatever this structure executed. Prices,
commissions and audit rows are abstracted away.

`TradeLedger` has no orders and no writers: executions happen, each is recorded once
together with its contract of position and never rewritten, and the structure is booked
once, after every leg on a contract of its own has traded. `OrderLifecycle` implements it with `recorded` as
the execution ids in `fills` and `position` as `openQty`; all other steps of handlers,
reaper, reconciler, cancellation and restart must stutter.

### Rollback
Each `POST /structure/rollback` is a process: `Load` (the SELECT and
`decide_rollback`), `Claim` (the UPDATE of `rollback_started_at`, which waits
for the row lock, then the cancels), and per leg to unwind `InsertUnwind` (the
committed `pending` row) or `InsertConflicts` (the unique constraint on
structure, leg and role), `ClaimRow`, `PlaceUnwind`, `StampUnwind`, with the ways
each may fail (`NotQualified`, `PlaceRaises`, `CallFails`). Around it run the
entry orders, which go on filling, and whoever else writes the rows: fill and
status handlers, reaper, reconciler, adoption, rehydration, each as one step
(their internal races are the subject of `OrderLifecycle`). `sent` and `unwound`
are the ground truth at IB. `mirrored` is a history variable: the rows the
reconciler's mirror pass filled without knowing the quantity (finding 1), the
one way a rollback comes to unwind more than was executed; `Backing` is what a
leg may be unwound for. A fill of an unwind that arrives before its handlers are
attached is recorded late or by the rehydration, never earlier.

### ExitRules, PositionClose, PositionMonitor
One position: a filled entry leg of `Lot` contracts, its `booked_position`, the IB
mirror row, and every closing order opened against it. `orders` holds for each
its `trade_order` row, whether `closes_order_id` names the entry leg (`linked`; a row
that does not reserves nothing), its structure's state, the request to the engine
(`req`) and the ground truth at IB (`ib`, `traded`). The operator's request is `Admit`
(the stacking guard over rows younger than the window), `InsertClose`, and one
of `CloseAccepted`, `CloseRefused`, `CloseTimesOut`, or the API stops under it
(`CloseDies`). The engine's route reads IB's own position (`EngineCheck`) and places,
refuses, or places and fails to stamp (`EngineStampFails`, the constant `Unstamped`),
which the API takes for a refusal. Fills and cancels are persisted behind IB
(`PersistFill`, `PersistCancel`), recompute the reservation of linked rows, complete
the structure and finalise the position. The position leaves `open` by `CloseManual` or,
once IB holds nothing of it, by `ReconcileFlat` (the hour's age is not counted); each
was decided on an earlier read (`readers`) and may overtake the other.

The monitor's cycle is a read, one staging step (`MonitorOne`: price, rules, alert,
hedge), a commit or its failure, and the dispatches; what a failed commit leaves in
the pending lists is kept, as in the code. `InitiateClose` is the call of
`initiate_position_close` as the scheduler wires it: it raises, is logged, and changes
nothing (section 4), so the body of that function and `build_closing_legs` are not
modelled. `DispatchHedges` lets any subset of the pending hedges reach the engine,
which covers the shipped scheduler (`execute_hedge=False`: none). Auto-exit
(`EXIT_AUTO_EXECUTE_ENABLED`, default false) is modelled as on.
Deltas are in half contracts, z-scores in tenths.

`CloseOut` is what the account sees: contracts held (`Net`), contracts the orders live
at IB may still sell (`LiveQty`), and the position's state. One order is at IB at a time
and fits in what is held; the position never returns to `open` and is called `closed`
only when IB holds nothing. A failed stamp breaks it (finding 2), so it is promised for
`~Unstamped`.

### TradePreview, TradeDesk
A strike is the delta pillar it sits at and Black-76 a table of small integers;
everything the code does with the numbers (mirrored pillars, snapped tenors,
missing cells, sign, size, caps) is kept. A surface says which cells it has and
which tenors are interpolated. In `TradeDesk` a step is one transaction or one
remote call; what a handler reads from outside (regime, session, heartbeat, caps)
is chosen at the read. A submit is `AcquirePreviewLock`, `SelectForUpdate`,
`Revalidate`, `RunPretradeGate`, `InsertLive` or `InsertMock`/`CommitMock`,
`Dispatch`, `Answered`, with `ReleasePreviewLock` on the error path.
`PlaceStructure` is `submit_structure_live` as one step (its interior is
`LiveSubmit`). The switch is `SetHalt`, `MirrorHalt`, `ForwardHalt`. A request may ask
for any integer quantity (`trade.py:112` sets no lower bound; 0 takes the default), and
the surfaces are those the vol engine writes (`SurfacesAssumption`: cells on the
display grid). `OrderVega` is the vega of the contract ordered: a leg struck by hand is
sent whether or not the surface had an IV for it, and the gate's own arithmetic
(`LegGreeks`) counts such a leg as nothing.

### EventSink, DbWriter
A row is unsent, in flight, then stored once, parked or lost, and stays there:
that is `EventSink`. `DbWriter` has the subscription, the bounded queue and two
writing coroutines (`loop` and, from SIGTERM on, `drain`), each with its batch,
what is left of the attempt (a set of its rows, taken in batch order) and the
per-row fallback. A statement fails before its commit or after it (in doubt). Only the
two classes the writer names are retried (`Transient`), with the whole batch; any other
error drops the batch on the first attempt (`RaisedAtOnce`). `received` and `dropped`
are history: the frames read off the subscription, and those a counter or a log line
reports as given up at once. `StatusOf` maps copies in the database, dead letters and what is still in
memory to the sink's status.

### LiveFeeds
Time in minutes; a Redis key is its content and the minutes it has left; `age` is how
long ago the scan began whose vols a key rests on. The vol engine's loop is stepped
where it awaits: heartbeat, spot, chain discovery (once per IB session), scan of any
subset of tenors, publication, back-off or wait for the deadline. A scan takes up to
`MAX_SCAN` minutes, more than the cycle too. The risk engine reads, then publishes how
many legs it priced on the fallback vol. An engine may die on a Redis error or a lost
session outside its `try` blocks; the container restarts it. The Gateway drops and
returns at any point. Redis becomes unreachable and returns with its keys
(`RedisBack`) or without any (`RedisRestarted`: `redis.conf` keeps no append-only file;
a snapshot that brings back some older keys is not modelled), and the health check fails
while it does not answer. `Legs` are the legs the risk engine can price at all: it skips
an expired leg, one without a strike or with a symbol it cannot parse, without a flag
(`risk/engine.py:266-268, 574-579`).

### Schema
`SchemaOps` gives each alembic operation its precondition and effect on two
relations, columns and objects (indexes, unique keys, checks, foreign keys) with
their PostgreSQL names, and the set of columns that are `json` where an expression may
need `jsonb` (other column types are left out): a renamed table keeps the names of its constraints, a
dropped column takes its indexes along. `SchemaMigrations` has one definition per
revision file. `SchemaUpgrade` runs them: an upgrade to the head of a deployed
image, `downgrade -1`, one transaction each, rows in the way once the program has
written (`Demand`), failures and crashes.

## 3. Runs

| run | instance | shows |
|---|---|---|
| `live_submit` | 2 legs, 3 calls, per-leg and BAG, 2 crashes | `SinglePlacement`, `IdsAreReal`, the refinement `SubmitsOnce`, the liveness `TradedLegKnown` |
| `ib_session` | 2 queued passes | `NoOrdersWhileUpstreamDown`, `DropClosesGate`, `GateReopens` |
| `order_lifecycle` | 2 legs of 1 contract, one contract shared with the account, no fault, no cancel | `BookedBacked`, the refinement `ImplementsLedger` |
| `order_partial_fills` | 1 leg of 2 contracts of its own, 1 fault, 1 cancel | `BookIsFold`, `FilledRowStays`, `OrderTerminates`, `AllFilledBooked` |
| `rollback` | 1 leg of 2 contracts, 2 calls, 1 crash | `NoInversePosition`, `StartedBeforePlaced`, and the liveness `UnwindKnown` |
| `position_monitor` | lot of 2, 2 closing orders, 2 alerts, 2 hedges | `NoOverClose`, `LiveCloseIsReserved`, `UrgentAlertExits`, `HedgesNeverOvershoot`, the refinement `ImplementsCloseOut`, the liveness `NoCloseCountsForever` |
| `db_writer` | 4 rows, queue of 2, 2 faults, 1 kill | `RetriesLoseNothing`, `LossIsReported`, the refinement `ImplementsSink`, the liveness `StopTerminates` |
| `live_feeds` | 1 tenor, 1 leg, scans up to 4 minutes, any number of outages | `NoFalseAlarm`, `UnflaggedGreeksAreFresh`, `ScansOwnChains` |
| `trade_desk` | 2 previews, 2 submits, 1 halt | `OneOutcome`, `GateJudgesTheOrders`, `QuietHaltHolds` |
| `schema_upgrade` | 64 revisions, images of 5 heads | `UpgradeStuckOnlyByPayload`, `StampTruthful`, `KeysSurviveDowngrade`, `HeadMatchesModels` |
| `order_phantom_fill` (violation) | 1 leg of 2 | the mirror pass books a half-executed leg as filled |
| `close_unstamped` (violation) | lot of 2, 3 closing orders | a live close is called rejected, and a second one goes live |

**Bounds.** Two legs are the smallest structure in which one leg fails after
another went live, and in which two completers race; two contracts the smallest
partially filled leg. Three calls are a first attempt, a retry and a replay
after both. Two crashes allow a crash of the recovered process. One fault in
`order_partial_fills` is one crash or one disconnect at any point. In `rollback`
two contracts let the leg fill further between the plans of the two calls; the
loop over several legs is covered by the proofs (two legs of one contract take four
million states and show nothing more). The safety
properties of these four runs, and of the four of the next paragraph (with the
hypotheses of section 5), are also proved for all values: there the bounds limit
only liveness. `schema_upgrade` alone rests on TLC.

In `position_monitor` a lot of two and two closing orders allow a partial fill,
a late one and a retry; the scenarios run the operator, the monitor or the hedger,
which share nothing but the position's state since the monitor's closes come to
nothing. The contexts make every rule fire alone and in the ties; the deltas cover
both signs and the rounding of half contracts. One request is inside the
operator's route at a time, it closes the whole row, an order is done at IB
before its window is over and every placement is stamped: without each of these four
`NoOverClose` fails (section 4). `order_lifecycle` has the shared contract, where only
safety is promised; the liveness of `order_partial_fills` needs a contract of its own,
for a mirror row that comes and goes with somebody else's position can keep the reaper
and the reconciler from ever acting. In
`db_writer` two rows share a table, one is refused and one names an unknown table;
a batch of three over a queue of two mixes them, and two faults are one more than
the retries absorb. In `live_feeds` outages are not counted; a quote's age is told apart
up to three minutes, a surface's up to the bound of its property. A surface is replaced
as a whole, so a second tenor only multiplies the states. In `trade_desk` one preview is
a template, of a quantity the stressed regime would round down or of a negative one, the
other free legs of which an incomplete surface cannot price one (the synthetic surface
prices both); a second flip of the switch adds states and no new order of events. In
`schema_upgrade` the heads are where an image may have stopped: after each of the
three rewrites of the schema (003, 018, 025-027) and at the end. All of
these end within three minutes.

**Fairness.** Weak fairness on what the process schedules by itself: handler
tasks, completers, the reaper, reconciler and position-sync loops, the
watchdog's poll, the supervisor's restart of a dead container, the second half
of a request that began. Strong fairness only on acquiring the pass lock, which
`asyncio.Lock` grants in FIFO order. IB, the operator and the callers of the API
are never fair: an order may rest for ever. `NoCloseCountsForever` and
`AutoExitCloses` (section 4) also assume that a request that reached the engine is handled,
that IB ends an order it holds, that its fill is persisted and that time passes:
the window of the stacking guard is a clock, and the point of both properties is
that nothing else is needed. `StopTerminates` assumes the two coroutines are scheduled
and the database's faults are finite.

**What the liveness properties leave out.** `TradedLegKnown` is about the
per-leg path: a BAG carries one orderRef, so its other legs cannot be found
again after a crash. `AllFilledBooked` excludes the three cases recorded in
`cascadeLost` (a crash between the leg's commit and the cascade; a cascade that raises;
`cancel_trade` closing an all-filled structure before it): no code recovers from them.
`GateReopens` starts from the engine's record, no 1100 outstanding; `GateRecovers`, from
IB's own link, does not hold (section 4).

## 4. Findings and further configurations

Two disagreements between code and documentation are runs of `PROJECT.json`:

1. **Phantom quantity** (`order_phantom_fill`, `order_reconciler.py:120`): the
   mirror pass matches side and contract, not quantity.
2. **A live close is called rejected** (`close_unstamped`, `main.py:633`): when
   `stamp_placement` raises after `placeOrder`, the route answers 500 with the order at
   IB; the API writes its row `rejected` (`positions.py:1289-1298`), the stacking guard
   no longer counts it, and the operator's retry, a new row with a claim of its own, is
   placed too. The route's comment says a retried close "cannot place a second live
   close" (`main.py:602-604`).

The other configurations each check one statement of a comment or docstring
that the code does not keep; TLC finds the violation in every one.

| cfg (module) | property | what happens |
|---|---|---|
| `IbSessionGate` (`IbSession`) | `ReadyMeansReconciled` | a 1102 opens the gate whenever the reason is `ib_upstream_down`, also during a pass (`ib_session.py:343`); the docstring (`:16-19`) says only after a full pass |
| `IbSessionWedged` (`IbSession`) | `GateRecovers` | a 1100, then a socket drop, and IB's link returns while the socket is down: no 1101/1102 is delivered, `upstream_down_since` stays (`ib_session.py:335-337`) and every later pass ends `ib_upstream_down` (`:388`); "reopens only after the next pass" (`:16-19`) |
| `OrderForeignPosition` (`MCOrderLifecycle`) | `NeverInvented` | the account's position in a shared contract is given to the most recent structure (`position_sync.py:167-188, 393-434`), and the reconciler fills a leg that executed nothing; "we never invent a phantom fill" (`order_reconciler.py:11`) |
| `OrderNeverBooked` (`MCOrderLifecycle`) | `FilledMeansBooked` | `maybe_complete_structure` raises once, is logged (`fills_handler.py:188-189`, `order_reconciler.py:141-144`) and never called again; "when every entry leg of a structure is filled, the structure cascade books it" (`order_reconciler.py:11-12`) |
| `OrderStructureStuck` (`MCOrderLifecycle`) | `StructureTerminates` | the structure's state is planned only in a pass that expires one of its legs (`reaper.py:197`); `test_reaper.py:76` calls that the ghost bug |
| `RollbackRetry` (`Rollback`) | `FailedUnwindIsRetried` | a failed unwind is planned again, but its row holds the unique key and the INSERT raises (`rollback_runner.py:188`, `rollback.py:67`). The same constraint is what keeps two racing calls from unwinding a leg twice |
| `CloseTwoClicks` (`MCPositionMonitor`) | `AvailableStaysNonNegative` | two clicks pass the stacking guard before either row exists (`positions.py:1121`) and reserve the leg twice; `reservation.py:3-7` calls the ledger race-free |
| `AutoExit` (`MCPositionMonitor`) | `AutoExitCloses` | the scheduler gets `get_sessionmaker` for its session factory and hands it on (`position_monitor.py:470, 656`); `async with sm()` in `initiate_position_close` (`position_close.py:61-62`) raises on every call, is logged, and the position stays `open`. Its docstring (`:4-8`) says the fills flip it to `closed` |
| `DeskUnpriced` (`MCTradeDesk`) | `EveryTradeIsJudged` | a leg struck by hand where the surface has no IV counts as nothing in the gate (`trade_preview.py:648`) and goes out at market (`trade.py:1036-1042`), and a negative quantity is judged with its sign and traded as one structure (`trade_preview.py:829-832`); `docs/strategy/risk.md:62`: "an input that cannot be read is a failure, never a pass" |
| `DeskCaps` (`MCTradeDesk`) | `PostTradeBookWithinCaps` | two submits are judged on the same book (`pretrade.py:114`: "Caps on the POST-trade book") |
| `DeskCancel` (`MCTradeDesk`) | `CancelledHasNoTrade` | `cancel_preview` reads without a lock and overwrites a submitted preview |
| `SchemaJsonPayload` (`SchemaUpgrade`) | `UpgradeNeverStuck` | the downgrade of `025_theme3_trade_order` recreates `execution_audit_log.payload` as `JSON` (`:148`) where 014 made it `JSONB`; down to `024_theme4` and up again, the upgrade's `COALESCE(payload, '{}'::jsonb)` (`:117`) fails for ever; "`alembic upgrade head` is safe" (`docs/audits/reports/05-data-integrity-findings.md:879`) |
| `FeedsSilent` (`MCLiveFeeds`) | `SilentFeedGoesStale` | the poll republishes the last tick, so a market without quotes never goes stale (`market_data/main.py:58-62`) |

Seen while modelling, without a property of their own: closing less than the
whole row, or an order that outlives the guard's window, breaks `NoOverClose`
(constants `Partial`, `Outlives`); rejected and cancelled closes do not
recompute the reservation; a late `CloseAccepted` writes `submitted` over `filled`;
`close_manual` opens no closing structure, and nothing moves the position on; a submission admitted before the halt's flag places
after its cancel-all; two mock submits leave two current rows of the book state; an
empty scan overwrites the surface; `cancel_trade` writes `cancelled` over `filled` from
a read before its HTTP calls; a leg the risk engine cannot price is left out of the
greeks without a flag; a TRIM of priority 3 ties with the
vega stop and wins by list order although `exit_rules.py:184` says order does not
matter; a filled hedge is not part of the delta, so the same imbalance is hedged
again; the refusal of a duplicate submit deletes the lock of the first; the gate
scales the preview's USD delta as contract equivalents and never sees mock
positions; the book state is not refreshed on a close; the writer
drops a batch on the first error it does not retry, dead-letters an unknown row once per attempt and beats green while every batch is
dropped; an empty chain discovery is cached until the next reconnect;
`models.py:954` declares a check constraint no migration creates; `downgrade base`
cannot complete (028 and 030 are one-way).

## 5. Proofs

All theorems are of the form `Spec => []P`, or state a refinement (`SubmitsOnce`,
`ImplementsLedger`, `ImplementsCloseOut`, `ImplementsSink`: initial states map to
initial states, every step to a step or a stutter), by an inductive invariant that
TLC checked first. The assumptions are those the modules
state on their constants: finite sets of legs and calls, natural bounds, whole
contracts, `MAX_SCAN < MAX_AGE` in `LiveFeeds` (the 60-120 s a scan takes against the
five minutes of the container's health check), and those named below. Where a theorem
has a hypothesis of its own it is in its statement, and the run's cfg meets it. None can
be dropped: TLC violates `NoOverClose` (and so `ImplementsCloseOut`) with `Outlives`,
with `Unstamped`, with `Partial` or with two callers, `LiveCloseIsReserved` with
`Outlives` or `Unstamped`, `HedgesNeverOvershoot` with two monitors whose cycles overlap,
`ImplementsSink` with one table that is not idempotent. `NoOverlap`, the hypothesis of
`HedgesNeverOvershootHolds`, is about behaviours: no two instances (the loop, and the one
`run_monitor_once` makes in the same process) are between reading and committing at once.

* `LiveSubmitProofs`. `SinglePlacement` alone is not inductive: nothing in it
  says that the legs a call still has to place are unplaced. `Inv` adds
  `OneOwner` (at most one call is past the claim, and the claim is then taken),
  `OwnerStartsClean` (before it has selected, nothing of the structure has been
  placed), `HeldLegsUnplaced` (what it holds is unplaced and without an id) and
  `NamedMeansPlaced`. The argument is that the claim is released only by the
  owner and only before its first placement. The refinement `SubmitsOnce` needs more
  (`OnceInv`): what is at IB is a prefix of the structure (`PlacedIsPrefix`), the owner
  holds all the rest (`OwnerHoldsRest`), a row is untouched until its leg is placed
  (`UnplacedUntouched`), and a structure that goes out as a BAG is whole until it does
  (`BagWhole`).
* `IbSessionProofs`. `NoOrdersWhileUpstreamDown` with the types: every action
  that opens the gate tests the upstream flag or clears it.
* `OrderLifecycleProofs`. `Inv` is types, the book (`BookIsFold`, and spawned
  fill tasks name real executions), `FilledRowStays`, and `BackedInv`: whatever
  a writer relies on (a mirror row, a reconciler's plan, a `filled` row, a
  completer about to write) is backed by trades at IB, for every leg outside `Shared`;
  and a completer that may
  still write finds no position, or no longer writes. One lemma per conjunct,
  one step per action. The refinement `ImplementsLedger` follows from the same `Inv`:
  a recorded execution is new and one IB made, because the book is a fold; a completer
  that writes finds no booking and every leg outside `Shared` traded.
* `RollbackProofs`. `NoInversePosition` needs to know that a call about to place
  is alone on its leg and that nothing was sent for it before (`PlacerAlone`),
  which in turn holds because only an insertion gives a leg its row and no step
  takes it away (lemma `RowStep`); that every plan, however old, is covered by
  the leg's backing, which only grows (`PlansBacked`); and that whatever is at IB
  has its row (`PlacedHasRow`). `StartedBeforePlaced` follows from the last one
  and `RowMeansStarted`: the first row is committed with the claim.
* `PositionMonitorProofs`. The model adds up rows, so it begins with sums over
  finite sets: splitting, change at one point, monotonicity. The library's induction
  theorems take an operator, so `NatSetInduction` and `SetInduction` derive
  induction over a *set* from the well-foundedness of `<`. Then every step on a
  closing order is shown to be a `RowStep`, which says how a row may move, and every
  step that opens one a `RowOpened`; the invariants are preserved by these two
  relations. `BooksInv`: every row is sound (`Sound`: request, IB order and state
  agree, failed stamps and unlinked rows included) and the reservation covers all linked
  rows at work; `LiveCloseIsReserved` follows, for `~Outlives` and `~Unstamped`.
  `LoneInv`: at most one of the orders is at work, and from the engine's check on its
  rest fits in what IB holds; it gives `NoOverClose` for `~Outlives`, `~Unstamped`,
  `~Partial` and one request at a time. `AlertsInv` and `WinningDecision` (the winner of a
  list with an urgent exit is an exit) give `UrgentAlertExits`; `CycleInv` and
  `OneHedgeInv` (a staged hedge lives only in its instance's transaction, so while cycles
  do not overlap there is one hedge at a time, of the rounded delta) give
  `HedgesNeverOvershoot`. The refinement `ImplementsCloseOut` needs the same: by `LoneInv`
  the sum `LiveQty` is the rest of one order (lemma `LiveTotal`), so that a `RowStep`
  offers, sells or withdraws one order or changes nothing at IB (`RowTrades`); `FlatInv`
  (who read the position flat still finds it so, since what IB holds only falls) covers
  the reconciliation, and `AlertsInv` keeps the finaliser off the position
  (`PositionSteps`): no alert names a closing structure.
* `TradeDeskProofs`. `OneOutcome` rests on the row lock alone: a call between its
  `SELECT FOR UPDATE` and its commit is the only one on its row (`HolderOwnsRow`), so
  what it revalidated still holds at the INSERT (`PassedIsOpen`), and a preview with
  a trade keeps its action (`TradedIsSettled`). The Redis lock has no part in it.
  `QuietHaltHolds` needs that nothing is past the engine's guard
  (`QuietHaltAdmitsNothing`). `GateJudgesTheOrders` needs that payload and structure carry
  the risk of their legs at their size (`PayloadsAreTrue`, `TradesAreJudged`: for a
  positive base quantity and legs that all had an IV, whatever integers were asked for), which
  is linearity of the sum over legs: a common factor comes out of it
  (`TotalScales`). `Total` is a recursive function of the number of legs, and its
  equations are derived by `NatSetInduction`.
* `DbWriterProofs`. Every step of a coroutine is one of a few relations (an attempt
  goes on, fails, a batch is begun or left), and these imply `Flow`: where a row can
  go in one step. `Inv` is types, control (`ControlInv`: what is left of an attempt is
  of its batch) and `SentInv`; from it `LossInv` (`LossIsReported`) and `OutageInv`
  (`RetriesLoseNothing`) follow without further hypotheses. The refinement
  `ImplementsSink` is proved step by step, a step of the writer being a step of
  `EventSink` or a stutter, with `SinkInv` and the hypothesis `EveryTableIsIdempotent`: an
  in-doubt commit is retried, and only a natural key keeps the second copy out. The
  tables without one, `account_history` and `open_position_history`
  (`persistence/writer.py:83`), get no row through the writer.
* `LiveFeedsProofs`. `BeatOutlivesCycle`: in every phase of a cycle, long ones included,
  the heartbeat outlives what is left of it, unless Redis was emptied since
  (`NoFalseAlarm`). `VolsGetOld`: a surface key's lifetime and the age of its vols go
  together from the SET on, so that the oldest a risk cycle can read is younger than
  `MAX_SCAN + TTL_VOL_SURFACE`, and the greeks die with their own key
  (`UnflaggedGreeksAreFresh`). `RolledChainsHaveNoSession`: chains from
  before a Gateway restart are cached only by an engine that has not reconnected
  since, and connecting drops them (`ScansOwnChains`).

Model-checked only:

* liveness (`TradedLegKnown`, `DropClosesGate`, `GateReopens`, `OrderTerminates`,
  `AllFilledBooked`, `UnwindKnown`, `NoCloseCountsForever`, `StopTerminates`): the
  prover has no liveness under fairness and no ENABLED;
* the violations of section 4, which are counterexamples;
* the four invariants of `SchemaUpgrade`. They are about one fixed chain of 64 files
  whose contents are folded over: there is no constant to generalise over but the set of
  heads, and what a fold computes is out of the prover's reach. TLC's run is the
  general statement for the heads it names.

## 6. Not modelled, and the plan

Not modelled, because there is no control for a model checker: floating-point
numerics (pricing, fitting, VaR, PCA; they enter as tables or choices), read-only
routes and views, logging and metrics, rendering, infrastructure, SQL rollups. Not
modelled although they have some: spot orders (their claim is `placement.py`'s,
which `Rollback` has), the combo's fill routing (a BAG's Filled status books its
legs without the per-order locks, `fills_handler.py:447`), ghost flips and breaks of
the position sync, configuration versions, event deduplication, the WebSocket
fan-out.

Plan, in this order:

1. The combo's fill routing in `OrderLifecycle`, and an abstract order (open, done)
   that it refines up to the clobbering writes.
2. Position sync with break reconciliation; spot orders.
3. In `Rollback`: entries cancelled after a partial fill, which no rollback
   unwinds, and `pending` unwind rows that cover a leg for ever.
