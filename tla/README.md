# Verification of the prediction agent arena

This directory holds TLA+ models of the arena in `src/`, the TLC
configurations that model-check them on small instances, and TLAPS proofs
about all of them but one. Paths below are relative to `src/`; `internal/` stands
for `backend/internal/`.

To check a module: `tlc -config OrderRaces.cfg MCOrderLifecycle.tla`; to check
the proofs: `tlapm OrderLifecycleProofs.tla`, and so on for the other modules
of that kind and for `FiniteInduction.tla`. `PROJECT.json` lists the runs,
what each definition models (file and lines), the hazards and the theorems.

## 1. The system

Teams of agents trade simulated contracts (YES or NO of a market, at a price
in basis points) against a paper venue. An operator creates rounds, enrolls
teams, resolves markets and settles. There are two server processes,
`arena-api` (HTTP handlers, one goroutine per request) and `arena-worker` (one
ticker loop). They share one SQLite database, and optionally a Redis.

Each process opens its database with a pool of one connection
(`internal/db/db.go`, `SetMaxOpenConns(1)`) and SQLite serialises the writers
of the two processes. **So a statement, or a transaction, is one atomic step,
and everything between two of them is open to everybody else.** Almost every
handler is made of several: that is where the difficulty of this system lies,
and what the modules are about.

| Component | State | Operations | Interacts with |
|---|---|---|---|
| Order lifecycle: `httpapi/handlers_orders.go`, `store/orders.go` | `orders`, `fills`, `positions`, `decisions`, `risk_events` | POST /orders (validate, look up the key, check risk, transaction 1, venue, transaction 2), POST /orders/{id}/cancel | risk check, venue, worker, resets |
| Paper venue: `venue/fake/fake.go` | none that matters | PlaceOrder decides fill or rest from the market it is passed; CancelOrder always succeeds | called between the two transactions |
| Risk check: `httpapi` `checkRisk`, `internal/risk` | none; reads seven aggregates | `risk.Check` on the answers of seven statements | orders, fills, positions, markets |
| Snapshot worker: `worker/snapshots.go` | none; its tick is a sequence of transactions | advance prices, fill resting orders, snapshot portfolios and scores, heartbeat | markets, orders, portfolios |
| Markets and outcomes: `store/markets.go`, `store/outcomes.go` | `markets`, `simulated_market_states`, `market_price_ticks`, `market_outcomes`, `round_markets` | upsert, allow in a round, advance, resolve, set outcome | worker, settlement |
| Settlement: `store/settlements.go`, `handlers_rounds.go` `settleRound` | `settlements`, `positions` | settle what is unsettled; optionally complete the round | outcomes, scores |
| Rounds and enrollment: `store/rounds.go`, `store/round_teams.go`, handlers | `rounds`, `round_teams` | create, activate (with checks), pause, complete, reset, locked-agent mode, enroll, pause, withdraw | middleware, worker |
| Agents and locks: `store/agents.go`, `store/round_agents.go`, `handlers_agents.go` | `agents`, `round_agents` | create, pause, revoke, rotate token, lock, unlock | middleware, activation |
| Middleware: `httpapi/middleware.go` | none | authenticate, enrollment, agent status, lock, rate limit, audit | every agent call |
| Portfolio: `store/portfolios.go`, `store/maintenance.go` | `portfolio_snapshots` | compute, snapshot, drawdown, compaction | fills, settlements, worker |
| Scoring and leaderboard: `internal/scoring`, `store/scores.go`, `handlers_leaderboard.go` | `score_snapshots`, cached leaderboards | compute, refresh, list, invalidate, freeze | portfolio, cache |
| Cache: `cache/redis.go` | Redis keys, or a map in memory | GetJSON, SetJSON, Delete, Allow | leaderboard, rate limits |
| Python SDK: `sdk/python/arena_client/client.py` | none | requests with timeouts, and retries for GET and heartbeats only | the API, through rate limits and audit |
| Database, event log, exports, commands, configuration, Polymarket skeleton, frontend | | wiring, append-only output, presentation | |

### What is hard, and what must hold

* **Orders.** The row is created in one transaction, the venue is asked, the
  answer is recorded in another. In between the handler may die, the order may
  be deleted by a reset, the market resolved, the round settled, the position
  sold by another order. A cancellation checks in one step and writes
  unconditionally in another; the worker fills whole batches in one
  transaction. It must hold that an order executes at most once, that statuses
  and fills agree, that positions are what the fills and settlements add up to
  and never negative, that a canceled order is not executed afterwards, that a
  key names one order, and that a reachable resting order does not wait
  forever.
* **Risk.** Seven reads, a decision and a write, none of them atomic together.
  What may be relied on is not "the limits hold" but how far and when they can
  be exceeded.
* **Rounds.** An agent's call reads the active round up to three times, in two
  middlewares and the handler; activation and lock changes check first and
  write later. What must hold, whatever changes during a call, is that everything a call
  relied on was so at some moment of it, and that no other check is missing
  than the one whose query failed.
* **Settlement, portfolio.** A holding is paid once, and what it was marked at, if
  its market is resolved: a market may be opened again after it got its outcome.
  A portfolio is three sums read in three statements; its drawdown is a running
  maximum over stored rows, some of which a compaction deletes in two steps.
* **Markets.** A market is three rows of three tables. Resolving it writes them
  in one transaction, seeding it by several statements, and only one of the
  three is asked whether the market is resolved when the round is settled.
* **Leaderboard.** A score is read by six statements and inserted by a seventh,
  by the worker and by every handler that trades, settles or freezes, and the
  last one inserted counts. A page of the board is stored by who read it,
  maybe after the change it does not show deleted the page.
* **Calls.** A call that times out may have been carried out, be on its way, or
  be given up between any two statements. A counter and its expiry are set by
  two commands.

The list of hazards, each at its line and with the properties that cover it,
is in `PROJECT.json`. The four that no property covers say why. Where a property
excepts some case of the hazard it is listed for, because the code does go wrong
there, a note at the hazard says which.

## 2. The modules

| Module | Models |
|---|---|
| `Accounting` | Integer arithmetic of amounts, quantities and prices; every division truncates |
| `OrderLifecycle` | Orders of one round: handlers, cancellations, venue, worker, operator |
| `OrderBook` | Abstract specification: what a client may rely on about an order; implemented by `OrderLifecycle` |
| `OrderLifecycleProofs` | Theorems about `OrderLifecycle` for every value of its constants |
| `Admission` | The risk check, question by question, for one team |
| `AdmissionProofs` | Theorems about `Admission` for every value of its constants |
| `RoundControl` | Who may trade: rounds, enrollment, agents, locks, and the chain of checks |
| `RoundControlProofs` | Theorems about `RoundControl` for every value of its constants |
| `Portfolio` | Portfolio snapshots of one team, drawdown, settlement payouts, compaction |
| `PortfolioProofs` | Theorems about `Portfolio` for every value of its constants |
| `Markets` | The three tables of a market, seeding, resolution, settlement, the worker's path |
| `MarketsProofs` | Theorems about `Markets` for every value of its constants |
| `Scoring` | The score of a team as functions of its portfolio and its counts |
| `LeaderboardProofs` | Theorems about `Scoring` for all integers, and about `Leaderboard` |
| `Leaderboard` | Scores, the board, its cached page, the files of a freeze; extends `Scoring` |
| `Gateway` | A call from the SDK through rate limits and audit to a handler and back |
| `GatewayProofs` | Theorems about `Gateway` for every value of its constants |
| `FiniteInduction` | What those proofs need of finite sets: induction, sums, maxima, recursive functions |
| `MCOrderLifecycle`, `MCAdmission`, `MCRoundControl`, `MCPortfolio`, `MCMarkets`, `MCLeaderboard`, `MCGateway` | Small instances for TLC |

### OrderLifecycle

The state is the tables (`round`, `market`, `orders`, `lastOrderId`, `fills`,
`positions`, `settlements`) and where each actor is (`post`, `cancel`,
`worker`). A row that does not exist has status `none`; `lastOrderId` is
SQLite's AUTOINCREMENT counter, so that ids never come back after a reset.

`post[r].pc` walks through `postOrder`: `Receive` (shape checks passed, round
and market read), `LookupAndCheckRisk` (idempotency lookup and risk check,
which may turn down anything here and must turn down a sell that is not
covered), `CreateSubmitted` or `CreateRejected` (transaction 1: look the key
up again, insert), `PlaceAtVenue`, `RecordVenueFailure` or `RecordDispatch`
(transaction 2). `RecordDispatch` has the outcomes of the code: the order
rests, is filled, or the transaction rolls back and the order stays
`submitted`. `AbortPost` is a disconnected client or a dead process: it may
come between any two steps, and whatever was committed stays.

`CheckCancel` and `WriteCanceled` are the two halves of `cancelOrder`. The
worker's tick is `WorkerTick` (read the active round), `AdvanceMarkets`,
`FillOpenOrders`; the last one is a single transaction that goes through the
candidates in the order of their ids, each seeing the positions the ones
before it left (`Held`, a recursive function), and fails as a whole if one
fill cannot be applied. The operator resolves markets, settles, resets a team
or the round and sets the round's status.

`OrderBook` says the same from outside: statuses an order goes through, when
it is executed, that its id is used once. `BookSpec` is that specification
under the refinement mapping `status`, `executed`, `lastId`.

### Admission

One team in an active round. `Ask` answers the next of the seven statements of
`checkRisk` (`Questions`); the answers a handler has so far are a function from
questions to integers. `Admits` is `risk.Check` on the answers,
`CreateSubmitted` or `CreateRejected` comes later. `Asked` selects the
statements some limit of the instance makes matter: a statement whose answer
cannot decide anything is left out, which keeps the instances small. Fills,
cancellations and failures are reduced to what they do to the aggregates; the
worker's transaction goes through the orders in the order of their ids
(`AfterFilling`, a recursive function).
`overtaken` is a history variable: it notes which handlers had their readings
of cash and reserve overtaken by another buy. No instance asks for the two
exposures: their limits never bite there, and a check of them would say only
that each buy fits at the moment it is admitted.

### RoundControl

The tables are functions (`status`, `strict`, `enrollment`, `lock`,
`teamActive`, `agent`). An agent's call is a sequence of steps, one per
statement: `Authenticate`, `ReadRoundForEnrollment`, `CheckEnrollment`,
`ReadRoundForLock`, `CheckLock`, then the handler's own read
(`ReadRoundInHandler`, or `FindOrder` and `CheckCancel`) and its write. An
operator's request is one step when the code makes it one statement, and
several for activation (`StartActivation`, `CountTeams`, `CountActiveTeams`,
`CheckLocks`, `PauseOthers`, `Activate`) and lock changes (`StartLockChange`,
`WriteLock`). When the query for the active round fails, both middlewares go
on as if there were none, and so does the model.

Two history variables remember what the properties ask for. `during[c]` holds,
of everything a call's checks look at, what was so at some moment of the call:
which rounds were active, which of them had the team enrolled or admitted the
agent, in which the handler could take orders of teammates for its own
(`shared`), whether agent and team stood, and which middleware let the call pass
unchecked. Nothing that happens during a call is excused by it; a property
compares the step that writes with what was so. `disturbed` is about
activations alone: those from which another request took away something they
look at (`TakenAway`), the mode, an enrollment, a lock, a team, an agent or the
place of the active round.

### Portfolio

One team, one market, positions in YES. `books` are the sums the statements of
`ComputePortfolio` form over `fills`, `settlements` and `positions`; `writer[w]`
is a refresh, which goes through `ReadFills`, `ReadPayouts`, `ReadMarks`,
`ReadPeak` (`maxDrawdownWithCurrent`) and `InsertSnapshot`. Two of them overlap
when the worker ticks while the operator settles, exports or freezes a
leaderboard. `ReadSnapshots` and `DeleteSnapshots` are the two statements of
`compactSnapshotTable`. A snapshot row is dated before it waits for its
insertion, and dates are texts: `time.RFC3339Nano` drops trailing zeros, so
`.5Z` sorts after `.51Z`. `Rank` is where the text of a time sorts.

Three history flags say what a property may not be blamed for: a refresh is
`torn` when its sums belong to no one moment, a row is `late` when another one,
or a reset, came between the reading of its peak and its insertion, and a
deleted row stays in `snapshots` with `live` false.

A market is advanced while it is open (`AdvanceMarkets`), gets an outcome, also a
second and corrected one (`SetMarketOutcome`), and may be seeded again afterwards,
which opens it at a new price while the outcome stays (`UpsertMarket`). A settlement
looks for the outcome only. `SettlementKeepsEquity` therefore speaks of markets
that are resolved when they are settled; of a reopened one it is false, and
`reseeded_settlement` shows that case.

`DrawdownIsLargestFall` demands equality only where no recorded equity is
negative (`Solvent`). A fall is relative to its peak, so a fall to less than
nothing, which only a team that overdrew can have, is the larger the lower the
peak: from 100 to -100 is 200% and from 50 to -100 is 300%, and the code, which
looks at the highest peak alone, records the former.

### Markets

The markets of one round. `market` is the row of `markets` (a price for YES
alone, the other is its complement), `sim` that of `simulated_market_states`
with path and tick (the tick is one more than in the code, so that it is an
index of the path), `outcome` that of `market_outcomes`, `listed` is
`round_markets`. A seeding is `UpsertRow`, `UpsertSimulatedMarketState`,
`SetMarketPrice`, which are the statements of `UpsertMarket`; the first is all
there is when no path is given. `ResolveSimulatedMarket` is the transaction
of that name with its three ends (resolved, refused, no path found), and after
the last one `SetMarketOutcome` is the second transaction of
`resolveMarketOutcome`. `CheckSettlement`, `SettleRound` and `CompleteRound` are
what `settleRound` does to these tables. The worker's tick is
`AdvanceRoundSimulatedMarkets` and `FillOpenOrders`.

A team's buy is three steps, one at a time on each market: `PrepareBuy` looks at
round and market, `PlaceBuy` is the venue, which looks at the market once more
and decides by its price, and `RecordBuy` is the transaction that records the
fill or the resting order and looks at neither, so that it may come after the
market was resolved and the round settled. `AbandonBuy` is a refusal, a failure or
a disconnected client. Orders are reduced to buys of YES for one limit, one
contract each, since what matters here is at which markets and prices they fill,
rest or fail.

Three history variables name what the properties except. `reopened` are the
markets seeded again after they got an outcome; `overtaken` those that were
settled while a buy the venue had filled was not recorded yet; `torn` those whose
tables the code leaves apart, in the five cases that `RowsAgree` lists: between
the path of a seeding and its first price, a tick, a resolution or another
seeding of the market; a seeding of a market with a path that stops half way; a
market with a path that is written by hand; a resolution that found no path,
and a path that is seeded before its second transaction.
The next tick, simulated resolution or undisturbed seeding takes a market out
of `torn`.

### Scoring and Leaderboard

`Scoring` is `scoring.Compute` and the summand of `BrierScoreBPS`, quotient by
quotient. `Leaderboard` uses it for the scores of one round. Every request that
changes the board has a kind and walks through the same stations: its change
(one action per handler: `Trade`, `Reject`, `Resolve`, `Tick`, `Settle`, `Freeze`,
`PauseOrResumeTeam`, `SetRoundTeamStatus`, `SetRoundStatus`, `ResetTeam`,
`ResetRound`), the scoring of the teams it answers for (`ReadPortfolio`,
`CountOrders`, `CountRejected`, `InsertScore`, team after team), and what ends
the handler: `DeletePage`, for those that do, `CompleteRound`, or `ListBoard` and
`WriteBundles`. The request may be given up before any of these (`AbortRequest`). A
trade whose portfolio or score cannot be written is different: it is answered with
success, scores nobody and deletes no page (`AnswerUnscored`). A reader is
`GetPage` (a hit ends it), `ListLeaderboard`, `StorePage`. Every Redis command
may fail.

A page is represented by what the properties ask of it: `saw`, the requests
whose changes it shows. `disturbed` notes which teams others changed or scored
since a request began, `excused` whether the change of a request may go unseen
for a while, and why is in the definitions: the kind never deletes a page
(`Silent`), Redis failed or the page deleted was another round's, a reader overtook
it (`Overtaken`), the trade was answered unscored, or the round was completed after
the deletion.

### Gateway

`call` is what the SDK knows of a call, `request` what the server does with each
attempt at it. An attempt is given up by the client (`Lose`) with no effect on
the server, which may notice (`Drop`, the request's context is canceled) or go on.
`RetryAllowed` is the SDK's list of what it repeats; `OrderAgain` is what the
documentation tells agents to do with an order they know nothing of. On the
server: the token decides which counter counts (`AgentAuth`), `Count` and `SetTTL`
are the two Redis commands of `Allow`, each of which may have worked although no
answer came; `Handle` writes the heartbeat or order; `Audit` comes after the
answer. `rows` counts what a call has made in the tables, `passed` the attempts a
counter let through as counted (not those let through because Redis failed),
and `broken` the counters begun without an EXPIRE.

## 3. What TLC checks

| Run | Instance | Shows |
|---|---|---|
| `order_races` | 1 team, 1 market, 2 prices, a buy and a sell, 2 calls, 1 cancellation, all operator actions and aborts | orders execute once, statuses agree with fills, books balance, holdings settle once, nothing is executed after a cancellation, every step is one `OrderBook` allows |
| `order_keys` | 2 teams, 1 client key, 2 bodies, 2 calls, resets | a key names one order; nobody is shown another's order |
| `order_progress` | 3 calls (a buy, two sells for what it bought), worker whose ticks may die, fair | reachable resting orders close, whatever becomes of the other orders of a tick |
| `admission` | 2 concurrent calls, 3 orders, a buy and a sell, cash for two buys, limits of one | how far the risk check can be relied on (below) |
| `round_calls` | 2 agents of a team, 2 calls, 1 request of any kind, 1 round and a second one that can be created | whatever changes meanwhile, what a call relied on was so at some moment of it |
| `round_starts` | 2 rounds, 2 requests of any kind | starts from which nothing was taken away are ready |
| `portfolio` | 2 refreshes, 3 rows, a fill, 2 prices, 2 outcomes and their correction, reseeding, settlements, resets, 3 times of which two sort the wrong way round | untorn equities are real, the settlement of a resolved market keeps the equity, drawdown is the largest fall, a compaction keeps the newest row and the maximum |
| `leaderboard` | 2 teams, 2 requests of any kind, 1 reader, equities of two sizes, fair | who asks after an answer sees what was answered; the newest score is of the newest books; a settlement scores everyone on the board; a freeze writes one consistent ranking; no page stays that misses what was answered |
| `markets` | 2 markets, one seeded with a path of two prices, 3 requests, a buy on each, prices zero, at and above the limit, a fair worker | the tables of a market tell one story, a settled market is held again only by a buy that was filled before, paths play out, reached buys fill |
| `gateway` | an order and a heartbeat, 2 attempts each, a limit of 2, fail-open | limits hold, success means a row and an order has one, every counter ends or is known not to |

Many of these properties have exceptions, since the code does not do what one
would first write down, and an exception is worth something only when it is no
larger than what the code gets wrong. The exceptions are these.

* `AdmittedIsAffordable`: another buy overtook the readings of cash and reserve.
* `CallsWereAdmitted`: of the two middlewares, the one that found no round or
  could not ask. Everything else is said of every call, whatever the operator
  did meanwhile, but of moments of the call, not of its end; after a change of
  rounds a check may be of the round before. `CancelsWereOwn` has none.
* `UndisturbedStartsAreReady`: another request took away what the activation had
  looked at. Two activations at once are among these and may leave two active
  rounds.
* `RowsAgree`: the five cases of `torn`, and the middle of a seeding. A row that says
  resolved has its outcome and price in those too.
* `SettledForGood`: a buy the venue had filled before the settlement; a market
  that is seeded once more.
* `SettlementKeepsEquity`: a market that was reopened and is still open.
* `UntornEquityIsReal`: a fill after the first of the three sums, a settlement
  after the second, a reset.
* `DrawdownIsLargestFall`: rows that were overtaken, equality only while nothing was
  deleted; the compaction properties: dates that do not sort as the ids do.
* `ReadYourWrites`: the requests that delete no page (ticks, freezes, the reset of
  a team in all rounds), a delete that failed or was of another round's page, a
  page read before the change and stored after the delete, a trade answered
  unscored, a completion after the delete. `PageCatchesUp` has no exception: in
  each of these cases the page goes when its time is over.
* `ScoredWhenDone`, `SettledStandings`, `FrozenIsFinal`: teams that others changed or
  scored meanwhile; paused teams when the round is completed.
* `EveryMinuteEnds`: counters whose EXPIRE or answer was lost.
* `RestingOrdersFill`: while a buy at price zero blocks the others.

A dropped check, a check on a wrong row or a statement in the wrong place violates
each of them without any such event, as the mutants show.

Runs that find a violation, each of a sentence in the documentation:

| Run | What happens | The documentation |
|---|---|---|
| `cancel_race` | the worker fills the order between the cancel handler's check and its write; it ends canceled, with a fill | `docs/game-logic.md:70` |
| `reseeded_settlement` | a resolved market is seeded again and so reopened; it trades, yet the settlement takes it for resolved and pays by the old outcome | `README.md:433` |

More disagreements follow from the same definitions, without a run of their
own:

* `RecordDispatch` inserts the fill without looking at the market, which may be
  resolved since the venue answered (`README.md:433`: trades are rejected on
  resolved markets).
* Cash and the reserve of open buys are two readings: a buy filled between them
  is in neither, and the next one is admitted on the same cash
  (`README.md:412`). `AdmittedIsAffordable` says when this cannot happen.
* `ReadRoundForEnrollment` lets a call through when it finds no active round, or
  could not ask, and the handler then finds one: an order of a team that is not
  enrolled (`README.md:255`).
* `DeleteSnapshots` may delete the row with the highest equity; the fall from it
  is recorded too small ever after (`docs/game-logic.md:114`, `:116`).
* `Count` and `SetTTL`: a counter whose EXPIRE is lost stays for good, and turns
  its agent down for good once it is over the limit (`README.md:459`:
  short-lived counters). `EveryMinuteEnds` says these are the only ones.
* `CompleteRound` in `Leaderboard` brings paused teams onto the board after the
  scores were refreshed, and leaves the page without them.
* `SetRoundStatus` has no guard on the status it leaves, so a completed round
  can be activated again (`docs/game-logic.md:22` calls it terminal).
* `WriteLock` does not look at the round again, so a lock handler that passed its
  check changes the lock of a round completed since (`README.md:367`).
* `CreateSubmitted` does not look at the round again either, so an order can be
  created just after a pause (`docs/game-logic.md:21`).
* `RecordDispatch`, when its transaction rolls back, leaves the order
  `submitted` instead of `failed`, and it counts as open for good
  (`docs/game-logic.md:71`).
* The market limit is compared with the filled positions; buys that are still
  open are not counted and may exceed it together (`docs/game-logic.md:123`).
* A refresh that has its sums and not its row yet inserts, after a reset, an
  equity of the books that were deleted (`docs/operator-runbook.md:179`).
* Without the precondition `InOrder`, TLC finds a `DeleteSnapshots` that deletes
  the row the portfolio shows: its date sorts before an older one.

### Bounds

The bounds are constants of the modules, named where they are declared:
`MaxOrderId`, `MaxOrders`, `Rounds`, `MaxFills`, `MaxRows` and `MaxTime` cap
counters, `MaxOverlapped` keeps refreshes from overlapping once there are
rows, `MaxResolvedRows` does so once there is an outcome and keeps the rows few,
and the clock of `Portfolio` moves once; the other sets are sets of
actors. They are enough for the cases the properties are about: a race
between two handlers needs two calls, a competition for one position a buy
and two sells, an overtaken reading one more order, a compaction three rows (one
kept as the first of its bucket, one deleted, the newest), a resolution in the
middle of a seeding two requests and its settlement a third, a page stored too
late one reader and one writer, an overtaken score two writers. A limit of two
is the least at which an attempt is neither the first of its minute nor over
the limit, and four attempts exceed it. In `Markets`, `MaxHeld` caps what is
bought and prices go to 100 instead of 10000: no definition there computes with
them. In `Portfolio`, no sum of a refresh reads a row, and no row depends on an outcome
but through its equity: that is why few rows will do where there are outcomes.
In that run two of the three times sort the wrong way round; the theorems are
about every `Rank` and every bound. Amounts are a few cents
and prices 40%, 60% and 80%, chosen such that truncation happens, that a sell is
covered by exactly what a buy gave, that an order rests at one price and is
reached at the other. Symmetry is over calls, cancellations, requests and
teams, which no definition tells apart, and is not used in a run with a
liveness property.

`CHECK_DEADLOCK FALSE` stands where an instance really comes to rest: all
bounded calls have been made.

### Fairness

`order_progress`, `markets` and `leaderboard` assume some.

In `order_progress`, an accepted request runs to its end unless
it is aborted (weak fairness of `PostStep` and `WriteCanceled`: the Go
scheduler); the worker's ticker keeps ticking (weak fairness of `WorkerTick`);
and since a tick may die at any point (`AbortTick`: an error ends the tick and
the loop goes on), the transactions after it are strongly fair: not every tick
dies at the same place. In `markets`, the worker keeps ticking (weak fairness of
`WorkerStep`, enabled while the round is active); its transactions fail there
only for the reason the model gives (`Blocked`). In `leaderboard`, requests and
readers that are not given up run to their end, and Redis drops a page whose
time is over (weak fairness of `Expire`). Nothing is assumed of clients and
operators: nobody has to call, to resolve or to settle.

## 4. What is proved

Every theorem below holds for every value of the constants under the named
assumption, which asks no more than that amounts, prices and limits are in the
ranges the code validates and that sets of actors are finite where a count or a
sum over them is taken.

`OrderLifecycleProofs` (`OrderAssumption`: positive amounts, limits and prices
between 1 and 9999):

* `TypeCorrect`: `[]TypeOK`, which includes that no position goes below zero
  however many sells compete for it;
* `ExecutedOnce`: `[]SingleExecution`;
* `StatusesMatch`: `[]FillsMatchStatus`;
* `KeysUnique`: `[]UniqueKeys`;
* `RepliesOwn`: `[]RepliesAreOwn`;
* `Balanced`: `[]BooksBalance`, what a team holds is the sum over its fills;
* `CanceledStays` and `SettlesOnce`: the action properties `NoFillAfterCancel` and
  `SettledOnce`;
* `ImplementsOrderBook`: `Spec => BookSpec`, the refinement.

`AdmissionProofs` (`AdmissionAssumption`):

* `TypeCorrect`: `[]TypeOK`;
* `OpenOrdersStayBounded`, `AcceptedRateStaysBounded`: the limits on open and on
  recent orders are exceeded by at most the number of concurrent calls less one;
* `AdmittedStaysAffordable`: an admitted buy leaves the cash for all pending buys
  unless its readings were overtaken.

The last three assume that the statements their limit depends on are among
`Asked`: an instance that does not ask a question says nothing about its answer.

`RoundControlProofs` (`RoundAssumption`): `TypeCorrect`, and as action properties
`CallsAdmitted` (`CallsWereAdmitted`), `CancelsOwn` (`CancelsWereOwn`) and
`StartsAreReady` (`UndisturbedStartsAreReady`).

`MarketsProofs` (`MarketsAssumption`): `TypeCorrect`, `TablesAgree` (`[]RowsAgree`) and
`SettlementIsFinal` (`[]SettledForGood`), each with the exceptions of section 3.

`PortfolioProofs` (`PortfolioAssumption`, and `RankAssumption`: different times have
different texts):

* `TypeCorrect`: `[]TypeOK`;
* `UntornReal`: `UntornEquityIsReal`, an action property: what a refresh makes of
  its three sums is what the team is worth at that moment, unless torn;
* `SettlementConserves`: `SettlementKeepsEquity`, with markets that are seeded again
  and outcomes that are corrected among the steps;
* `DrawdownCorrect`: `[]DrawdownIsLargestFall`, through the truncated quotients;
* `NewestKept`, `MaximumKept`: `CompactionKeepsNewest` and
  `CompactionKeepsMaximum`.

`GatewayProofs` (`GatewayAssumption`, a limiter that fails open or closed):
`TypeCorrect`, `LimitHolds` (`[]AdmittedWithinLimit`), `MinutesEnd`
(`[]EveryMinuteEnds`) and `SuccessIsReal` (`[]SuccessTookEffect`). The last one says
that a row exists and that an order has one at most, and no more: an order that
is sent again is answered with 200 by the row it finds, also by one that a crashed
attempt left `submitted` and that never went to the venue.

`LeaderboardProofs` (`LeaderboardAssumption`: finitely many teams, a positive balance):

* `TypeCorrect`: `[]TypeOK`, which includes that computed scores are in the range
  the board is stored in and that every team on it has a rank;
* `PageOwnWrites`: `[]ReadYourWrites`;
* `DoneIsScored` and `StandingsSettled`: `[]ScoredWhenDone` and `[]SettledStandings`;
* `FreezeIsFinal`: `FrozenIsFinal`, an action property;

and about `Scoring`, for all integers:

* `CompositeRange`: a composite score is between 10 and 100 (not 0: the cost
  score is the constant 100);
* `CompositeGrowsWithEquity`: it is monotonic in the equity, through truncated
  quotients, clamps and a negative return;
* `BrierErrorRange`: the error of a probability is between 0 and 10000 bps.

`FiniteInduction` holds what these proofs need of finite sets and says nothing
about the program. The induction theorems of the library take an operator as a
parameter, which the provers cannot instantiate; `MinimalSet` says the same with a
set of bad sets instead of a predicate (among finite bad sets one has only good
subsets). From it follow `SetInduction`, the laws of `SumFunctionOnSet` (`SumAdd`,
`SumChange`, `SumMonotone` and so on), that finite sets have greatest and least
elements, that images of finite sets are finite, and `RecursionExists`: a
recursive function `f[n \in 0..N]` is what its definition says. So sums, maxima
and recursive functions are proved about, and RECURSIVE operators are not used
in a module with proofs.

### The invariants

None of the properties is inductive by itself. TLC checked each invariant
below on the instance of its module before it was proved.

**OrderLifecycle.** That an order is not executed twice by
the dispatch and the worker depends on who may touch a row when, so the
inductive invariant `IInv` says, besides the types and `UniqueKeys`:

* `RowsComplete`: ids not given out, and deleted ones, have no row and no
  fills; rows have their columns;
* `StatusTells`: what each status says about `venue_order_id` and the fills (a
  submitted order has neither; only filled orders, and canceled ones that were
  filled first, have a fill);
* `HandlersOwn`: while a handler is between its two transactions its order is
  still as it created it, or deleted, and no other handler works on it. This is
  what makes the unguarded second transaction safe, and it holds because the
  worker and the cancel handler leave orders without a venue id alone;
* `CancelsDispatched`: a cancellation that passed its check is about an order
  the venue has seen;
* `OpenPrices`: an open market's price is between 1 and 9999.

One lemma per action shows that it preserves `IInv`; `SameRows`,
`SameHandlers` and `SameCancels` deal with the parts an action leaves alone,
`OneHandlerMoves` and `HandlerEndsInv` with what a handler has to show. The
refinement has one lemma per action too, under `BookStep`. `Balanced` adds that a
position is the sum `HeldSum` over the fills of its holding; a fill of a batch
changes one summand, and the batch is followed along its recursive function.

**Admission.** `OrdersOwned` and `OrdersDiffer` say that the order of a call in the
middle is its own; `PendingUnpriced` and `AnswersInOrder` what rows and answers
look like. The heart is `RoomForCleared`: each call that has counted less than
the limit may still add one order, and there is room for all of them below the
bound, the limit plus the number of calls less one; and `ReadingsHold`: until a
call knows the reserve, there is at least the cash it read, and after that the
team has promised no more beyond its cash than the call read, unless overtaken. Everything that happens to a row after its creation is one of a few
moves (`Moves`), none of which adds to what the team owes beyond its cash, to its
pending orders or to its recent ones, so that one lemma (`Preserved`) serves all
actions but `Ask` and `CreateSubmitted`.

**Leaderboard.** For every request, whatever the others do, `Sound` says what it
does at which statement (`Stations`); that what it has read of the team it is at
is what there is (`ReadingsHold`); that the teams it answers for are still to be
scored or scored by their books (`ScoresHold`) - each of the two except for the
teams that others disturbed; that a settlement, a completion or a freeze answers
for everyone on the board (`AnswersForAll`); and that the ranking a freeze listed is
the one by the books as they are, unless it was disturbed (`BoardHolds`).
`PagesShow` says of the page in Redis, and of every page that is about to be stored
there, that it shows all requests that were answered, the excused ones aside:
`ReadYourWrites` looks only at readers that are through, and cannot see a page
that is still to be stored. Every step of a request does one of two things to the others:
nothing, or it adds teams to what disturbed them and leaves all it says of the
other teams (`Disturbs`), so that one lemma (`OthersSound`) serves all its steps;
for the request itself there is a lemma per step.

**RoundControl.** What each call has passed, statement by statement, was so at some
moment of it (`ChecksSeen`, `OwnershipSeen`): `during` only grows while the call is
underway, so a step of anybody else cannot take it away again. What an activation
has found out still is (`StartIsReady`) unless it is `disturbed`.

**Markets.** `RowsAgree`, and for every market that its tick is on its path
(`OnItsPath`), that once resolved it is closed to orders unless reopened
(`ResolvedIsShut`) and that what was paid is gone (`PaidIsGone`); for every request,
that the state a seeding wrote is what it seeds, unless another wrote the market
(`StateStands`), and that the markets a settlement checked have their outcome,
and once it is through are held, and about to be filled, by nobody but
a buy that is `overtaken`, unless `reopened` (`Settling`).

**Portfolio.** `IInv`: what an untorn
refresh has added up so far is what the books add up to (`Readings`), and a
market whose status is resolved is marked at its outcome (`MarkedAtOutcome`).
`Readings` makes the last sum real; `MarkedAtOutcome`
makes a payout equal to the mark of the position it replaces. `HInv` is about the
rows: every drawdown is a fall between two recorded equities (`RowsReached`), none
of which exceeds the last drawdown while nothing is deleted or negative
(`RowsCover`, with `FallGrows` for the quotients), drawdowns do not decrease
(`RowsClimb`), each of the three also of a refresh that waits for its insertion
(`WritersReach`, `WritersCover`, `WritersClimb`), and what a compaction selected is
there and before another row that is (`DoomedAreEarlier`). `RowsClimb` is why the
newest row, which a compaction keeps, still has the largest drawdown.

**Gateway.** `IInv` adds to `TypeOK` and `EveryMinuteEnds` that an attempt that
awaits the EXPIRE of a counter is the only one, that the counter has no end yet
and that the attempts let through leave room for this one (`PendingIsFirst`: a
second INCR that returns 1 would need the counter to be gone, and only a counter
with an end goes); that the attempts found within the limit were counted and are
within it (`PassedWereCounted`); and that the server knows no attempt that was
not made (`Fresh`). For `SuccessIsReal`, `Effect` adds that an attempt or a call that was
answered with success has its row, and that a heartbeat has no more rows than
handled attempts and another call at most one.

### Only model-checked

Every invariant and every action property of the passing runs is a theorem. What
is left to TLC:

* Liveness: `FillableOrdersClose`, `PathsPlayOut`, `RestingOrdersFill` and
  `PageCatchesUp`. Fairness and ENABLED are out of the prover's reach.

## 5. What is not modelled

* Idempotency hashes are the payload itself; JSON, HTTP, logging, the event
  log, the history of price ticks, the reports of an export other than the board
  and the team bundles, and the contents of audit rows are left out: nothing
  reads them back.
* Fees and slippage are zero or only written; decisions and risk events are
  only written; the average entry price and the profit computed from it decide
  no cash and no order.
* Legacy team tokens (off by default), creation of teams and agents; a rotated
  token is one that is not known (`Gateway`).
* The counters of decisions, reads and operators, and those in memory, which
  only tests use; a Redis that forgets or evicts.
* The worker's heartbeat row, which only the operator's health page reads.
* The Polymarket adapter is a skeleton that returns errors; the commands, the
  configuration and the frontend keep no state of their own.
* Failures of a single read end a handler, which is no different from a
  handler that stops there; where the code goes on instead (the active round in
  the middleware) the failure is in the model.

## 6. Plan

1. `OrderLifecycle`, `OrderBook`, `Portfolio`, their runs and proofs, `Admission`
   and `RoundControl` with their runs: done.
2. `Markets`, `Scoring`, `Leaderboard` and `Gateway`, their runs, the proofs of
   `Scoring` and `Gateway`: done.
3. The proofs of `Markets`, `RoundControl`, `Admission`, of what `Portfolio` says of
   drawdown and compaction, and of the invariants and action properties of
   `OrderLifecycle` and `Gateway` that were only model-checked: done.
4. The proofs of `Leaderboard`: done. What is left to prove is what no run states
   yet: that a composite score falls with the drawdown, the exposure and the
   rejections as it grows with the equity, and that the ranking of a board has no
   ties and no gaps.
5. Not planned: the profit of a position over fills and settlements, which no
   decision of the code depends on.

Runs are few on purpose: violations of a documented sentence that show a race
already shown by another run were dropped for runs of new components, and are
kept in the list of section 3.
