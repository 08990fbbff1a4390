# Verification of not_dex_monitor

TLA+ models of the monitor, the TLC runs that check them and the proofs TLAPS
checks. Paths and line numbers are those of `src/not_dex_monitor/` unless they
begin with `src/`. `PROJECT.json` holds the machine-readable side: which lines
each definition stands for, the runs, the mutants (a plausible bug for every
property, which the property's run must find), hazards, findings and theorems.

## 1. The system

The monitor is one asyncio process. A **supervisor** polls a backend for the
wallets that are active and keeps one **worker** task for each. A worker logs
in, fetches the settings of its wallet and scans: for every pair it collects
forward and reverse quotes from the **DEX adapters**, announces each profitable
round trip to the backend and, if the wallet has a key there, has the
**executor** trade it. The **backend client** makes all HTTP calls, with
retries. The figures of an execution's record are priced in USD by the **price
oracle**. Chain calls run in threads, except some that run on the event loop.

```
 main --- Supervisor --- WalletWorker.run --- _scan --- _collect_*_quotes --- DEX adapters
              |                 |               |                                  |
              +-- BackendClient +---------------+-- _try_execute -- execute_arb    |
                       |                                                 |         |
                    backend                                            chain (RPC node)
```

| Part | State it keeps | Operations | What is hard | What makes it correct |
|---|---|---|---|---|
| `main.py` | none | `main`, `main_async` | Ctrl-C cancels the main task in any await; SIGTERM kills at once | the process ends, and no worker outlives it |
| `supervisor.py` | `_workers`, `_tasks`, `_stop_event` | `run`, `_sync_workers`, `_start_worker`, `_stop_worker`, `shutdown`, `stop` | entry dropped before the worker has ended; dead workers' exceptions; time-out, cancel, Ctrl-C in `wait_for` | one worker per wallet, none forgotten, the right ones started and stopped |
| `worker.py`, `run` | `_jwt`, `_settings`, heartbeat, `_stop_event`, the status the backend shows | `run`, `stop`, `_get_settings`, `_ensure_jwt`, `_send_status`, `_sleep_or_stop` | 401s of a cached token, posts that raise outside the `try`, cancel against stop | a stop ends it, it recovers from errors, its status is true |
| `worker.py`, `_scan` | the loops over pairs, forward and reverse quotes; `_log_once_keys` | `_scan`, `_emit_opportunity`, `_try_execute` | stop between quote and execution; exceptions between an execution and its record | bounded work after a stop, every opportunity accounted for |
| `worker.py`, quotes; `dex/` | `_supports_cache` of each adapter | `_collect_*_quotes`, `_estimate_fees_in_base`, `supports_pair`, `quote_exact_in` | threads sharing adapters; failing node or pool; aliases; synchronous calls on the event loop | the best answer wins, the cache is consistent |
| `executor.py` | nonces and balances on the chain | `execute_arb`: flash loan or approve, buy, approve, sell | lost answers, receipts that time out, threads that survive a cancel, foreign transactions | results true of the chain, one transaction in flight |
| `backend_client.py`, `util/retry.py` | none between calls | `_request_json` and the five calls on it | retries of what was done already, late requests, back-off, null bodies | a returned answer was served, order and number of effects |
| `executor.py`, legs; `dex/addresses.py` | none | `build_leg_params`, `min_profit_wei`, `_build_swap_tx` | another amount and other pools than the quoted ones, a market that moves | a loan pays or reverts, a trade brings what was quoted when nothing has changed |
| `util/prices.py` | `_CACHE`, shared by all workers | `get_usd_price`, `to_usd` | an entry's life counted from before a slow call | a price used is not older than it may be |
| `quote_math.py`, `tokens.py` | none | amounts, token table | truncation | partly: in `RoundTrip` |
| `models.py`, `config.py`, `dex/abi.py`, `util/logging.py`, `util/time.py` | none | records, parsing, formatting | - | not modelled |
| `dry_run.py`, `fork_sweep.py`, scripts | none | one-shot tools | nothing runs concurrently | not modelled |

The backend, the RPC node, the chain and asyncio itself are not in the
repository. They are modelled from how the code uses them, and marked external
in `PROJECT.json`. For asyncio it is the behaviour of Python 3.11, the version of
`src/Dockerfile`: `wait_for` cancels at its time-out and then waits for the
task without a limit, and a cancel that arrives when the awaited thing has just
ended may be swallowed.

## 2. Modules

| Module | Models | Composed with |
|---|---|---|
| `WorkerPhases` | the phases of a worker task and the moves between them | used by the next three |
| `WorkerLife` | abstract: what a supervisor may rely on of one worker | implemented by `WalletWorker` |
| `WorkerPool` | abstract: what the supervisor promises about its set of workers | implemented by `Supervisor` |
| `Supervisor` | `supervisor.py` and the end of `main.py`, with a worker per task as in `WorkerPhases` | refines `WorkerPool` |
| `WalletWorker` | `WalletWorker.run` and what it calls but the scan | refines `WorkerLife` |
| `Scan` | `_scan`, `_emit_opportunity`, `_try_execute` | the "scan" of `WalletWorker` |
| `Quoting` | the collectors, the fee estimate and the adapters | the "filter", "forward", "reverse" and "fees" of `Scan` |
| `TxExecutor` | `execute_arb` against a chain | the "execute" of `Scan` |
| `Ledger` | abstract: what a wallet's dashboard may rely on: attempts, their trades, their records | implemented by `Trading` |
| `Trading` | a wallet's scans, attempts, chain and op records together, across stops, cancels and kills of the process | composes `Scan` and `TxExecutor`, refines `Ledger` |
| `Prices` | `util/prices.py` | extended by `RoundTrip` |
| `RoundTrip` | one opportunity in numbers: quotes, legs, trade, result, record in USD | the amounts that `Scan`, `Quoting` and `TxExecutor` leave open |
| `BackendClient` | `_request_json` and `retry_async` against a backend | every HTTP call of the others |
| `MC*` | the small instances TLC runs | |
| `*Proofs` | the theorems about `Supervisor`, `WalletWorker`, `Scan`, `Quoting`, `TxExecutor`, `Trading`, `RoundTrip` with `Prices`, and `BackendClient` | each extends its module; `TradingProofs` extends `TxExecutorProofs` too |

Two of the joints are themselves checked and proved: `Supervisor` treats a worker
as any `WorkerLife`, and `WalletWorker` is shown to be one (`ImplementsLife`);
`Trading` extends `TxExecutor` and takes `Scan` by INSTANCE, runs the two in
step, and writes no action of either twice. At the others the outer module lets the inner part do anything it might: a scan's
execution ends in success, failure or an exception, an HTTP call returns or
raises.

### Supervisor

`registry` is `_workers` and `_tasks` (always changed together; a value is the
identity of the task), `earlier` the order of its keys, which is that in which
they were inserted, `active` the last answer, `pending` what the loop over
`list(self._workers)` still has to stop, `awaited` and `reaping` what
`_stop_worker` is waiting for and has timed out on, `stopping` and `cancelling`
the workers' stop events and the tasks' pending cancels, `phase` where each
worker is. `pc` names the await `run` is suspended in. Actions are what happens
between two awaits:

* `PollAnswer(A)`: the answer, all starts, and the first visit of the loop;
  `PollError`: the exception path to the sleep.
* `StopWorker`, `StopTimeout`, `StopReturns`: `_stop_worker` up to `wait_for`,
  its time-out, its end. The loop visits the wallets in the order of their
  entries; wallets that start in one poll are in any order, as a set gives them. A worker that failed raises here, and the rest of the
  loop is skipped.
* `WakeUp`, `RequestStop`, `Interrupt`, `Shutdown`, `DrainOne`, `CloseLoop`,
  `Exit`: the sleep, `stop()`, Ctrl-C, the `finally` with its gather, the
  cancels of `asyncio.run`, and the end.
* `WorkerStep`, `BeCancelled`, `OutliveCancel`: the workers. `OutliveCancel` is
  the cancel swallowed in `_sleep_or_stop`.

An identity is used again after `_stop_worker` has seen its task end, which keeps the state
space finite without a bound on the number of restarts.

### WalletWorker

`pc` names the call `run` is suspended in. `jwt` and `jwtExpired` are the cached
token and its clock, `settings` the cached settings by age, `secondTry` the
branch after a 401, `shown` the status the backend has, `trouble` a
backend that fails. A status post is a retried POST: a request that got no
answer is sent again (`SendAgain`) or given up, and may be served at once, later
or never; `late` is what such requests, of this worker or an earlier one, may yet
make the backend show, `stray` that one of them has (`LateShows`). Clocks go on by themselves, whatever the task does
(`TimePasses`). `_sleep_or_stop` does not suspend when the round has used up
`scan_frequency_sec`, or when that is 0 or less: `pc = "turn"` is the loop going
round without giving way, `Suspended` the states in which other tasks have
their turn, and only in those a stop or a cancel can arrive. `listed` and
`pausing` are what of the settings decides it: lists that are not empty, a
frequency above 0.

### Scan

`pc` names the call; the loop variables are sets and counters of what is left.
`owed` counts announced opportunities whose op event is missing, `afterStop`
the executions begun after the stop event was set. `Raise` is any call's
exception, which the code lets out to `run` or catches, as it does at each
call. Whether a round trip pays is a choice. `NewWorker` is a new `WalletWorker`
for the wallet, with none of this one's notes.

### Quoting

One pair and one worker's adapters. `canonical` is the alias table with the
registry; `Gated` adapters (Uniswap V2 and V3, SushiSwap, ShibaSwap, KyberSwap)
ask `supports_pair` before each quote, `Static` ones (Balancer V3, Fluid, 0x)
decide from a table. The threads of a gather take their steps in any order.
`best` is `best_amount`; `heard` is kept only to state the property. Curve and
1inch have one pool. The stop event and cancellation are in `Scan`, the rounds
here always go on.

### TxExecutor

The attempt's own variables (`nonce`, `kind`, `amount`) and the chain (`count`,
`mempool`, `mined`, two balances in units of one trade). `SendAccepted`,
`SendRaises`, `Receipt`, `ReceiptRaises` are `_sign_and_send`; a broadcast that
raises may have been accepted. `Cancelled` ends the attempt with its worker and
leaves the thread of a broadcast behind (`ThreadSends`), while a new worker
may begin the next attempt. `Crash` kills the process with its threads, and what
was broadcast stays. `ForeignTx` is a transaction of the key's owner.

### Trading

The variables of `TxExecutor`, those of `Scan`, whose `pc` is `scanPC` here, and
four of its own: `posted` (the op record of each attempt in the
backend), `twice` (those with more than one), `unanswered` (attempts a request
of whose event got no answer) and `minedLate`. The event is a retried POST too:
a request without an answer is sent again (`RecordAgain`) or given up
(`RecordRaises`, `Cut`), and may be stored at once, later or never (`LateRecord`). `BeginExecution` is the step of both
in which `_try_execute` calls `execute_arb`; `Executing` moves the attempt, and
at its end the scan goes on to the record or, when the attempt raised, to its
handler. `BeCancelled` ends both, wherever they are; so does `Killed`. `ScanAnew`
is the next scan, of the same worker, of another one or after a restart.

The mapping to `Ledger` reads the trade of an attempt off the chain (`mined`),
the open attempt off `scanPC`, `lost` off the attempts that lost track of a
transaction (`unsure`), and `doubt` off `unanswered`.

### Prices and RoundTrip

`Prices` has one cache entry per token with the time it has left to live, the
one synchronous call there can be (the event loop stands still in it), and `ago`,
kept only for the property: how long ago the token had each price.

`RoundTrip` follows one opportunity. `Forward` and `Reverse` quote over the pools of a
DEX that answer, the best of Uniswap V3's tiers and Balancer's probe (all of the
amount, a tenth, a hundredth, scaled back) included; `Weigh` and `Dismiss` are
the profit against `min_profit_pct`. `LoanMined` does both legs at once, for `loan_limit`,
through the pools `build_leg_params` names, against the minimum of
`min_profit_wei`, and takes Aave's premium (the constant `Premium`, external: the
`premium` of `executeOperation` in `src/artifacts/FlashLoan.json`, which the
contract adds to its debt) from what comes back; `Buy` and `Sell` are the legacy flow, with no minimum. The
market moves between any two of them. `ConvertProfit` and `ConvertFees` are the
two `to_usd` calls of the record; of a figure the model keeps the token it is in
and the token whose price it was multiplied by. Pools swap at constant product;
this is the external part, of which the properties need only that the same
swap of the same pool gives what was quoted.

### BackendClient

One call after another. `served` counts how often the backend acted upon a
call, `last` is the latest call acted upon, `late` requests the client has given
up. The five calls differ in what a body that is no object is decoded to. Times are counted in units of the base delay.

## 3. Runs

| Run | Instance | States | Shows |
|---|---|---|---|
| `supervisor_safety` | 2 wallets, 2 identities, symmetric | 24 637 | `OneWorkerPerWallet`, `NoForgottenWorker`, `OnlyFailuresKeepEntries`, step properties and `ImplementsPool` |
| `supervisor_live` | 3 wallets, 1 identity | 218 676 | `DroppedWalletStops`, `WantedWalletHasEntry`, `ShutdownCompletes` |
| `worker` | no parameters | 414 951 | status, recovery, end after a stop, the event loop gets its turn, `ImplementsLife` |
| `scan` | 2 DEXes, 2 pairs | 29 792 | `FewExecutionsAfterStop`, `EveryOpportunityAccounted`, ends |
| `quoting` | 3 names of 2 adapters, 2 pools, amounts up to 2 | 5 164 | `BestOfAnswers`, `SupportIsFinal` |
| `executor` | 2 attempts, 1 foreign transaction | 59 346 | what results say of the chain, nonces |
| `trading` | 1 DEX, 1 pair, 2 attempts, base for one trade | 2 196 019 | `FewMinedLate`, `TradesAreRecorded`, `ImplementsLedger` |
| `round_trip` | 4 DEXes with 5 pools of 3 levels, 2 loans, 3 base tokens, prices of age up to 2 | 884 108 | `PromiseKept`, `LoanPaysOrReverts`, `PricesAreFresh` |
| `backend_client` | 2 calls, 2 retries, delays up to 4, Retry-After 3 or 9 | 179 487 | effects, order, bound of the delay |
| `executor_sale` | as `executor`, no quote token at first | violation | finding 1 |
| `quoting_filter` | as `quoting` | violation | finding 2 |
| `round_trip_units` | as `round_trip` | violation | finding 3 |

Each passing run but `supervisor_live` also checks the inductive invariant of its
module, `IndInv` or, in `trading`, `TradingInv`. Each has the type invariant
`TypeOK` as a conjunct.

Why the bounds are enough:

* *Supervisor.* For safety two wallets: one whose stop is waited for or raises,
  and one that is skipped or started meanwhile. Two identities: an old and a new
  task of one wallet. The safety properties are proved for any number of both.
  For liveness three wallets: two that fail in turn, each in the other's way, and
  a third behind them; without the order of the entries the run finds it skipped
  for ever (the mutant `StopWorkerInAnyOrder`). It has one identity, no symmetry,
  and the two restrictions of `MCFairSpec` keep it small: users come and go only
  while a poll is under way, which is when its answer reads them, and stop or
  Ctrl-C comes only when no more than two wallets are wanted or have a task. One identity does not
  hide a behaviour: an identity is free
  again before its wallet can be started anew (`OneTaskPerWallet`, a
  conjunct of the invariant proved below).
* *WalletWorker* has no bound.
* *Scan.* Two of each loop's elements: work is left in the loop when the stop
  comes in the first.
* *Quoting.* Two aliases and one other DEX; two pools, so that the one that
  fails comes before or after the one that answers; two amounts, so that a
  later answer is better, worse or equal.
* *TxExecutor.* Two attempts let a lost transaction of one meet the other; one
  foreign transaction takes a nonce from either. The wallet starts with base
  for both, and with some quote token that no attempt bought.
* *Trading.* Two attempts: the late transaction of the first meets the
  record, the nonce and the trade of the second. One DEX and one pair are enough
  for any number of opportunities, since a scan is followed by another.
  `OneWarning` keeps at most one logged warning in `_log_once_keys` (Scan has all
  of them), and the view `Seen` leaves out what no later step reads: the
  counters of Scan's own properties, the loops of a scan that is over and the
  last transaction of an attempt that is over. No foreign transactions: those
  are in `executor`.
* *RoundTrip.* One opportunity: nothing but the price cache outlives one, and
  the cache is used by the other workers' lookups (`OthersLookUp`). The DEXes are one
  of each kind that is quoted or traded in its own way: V2, V3 with a tier that is
  traded and one that is not, Balancer, and one that cannot be traded. The three
  levels of a pool give a large profit, one that just makes the minimum, and a
  shallow pool, which makes Balancer refuse and the scaled quote wrong. The premium is a
  hundredth, 1 of the amount quoted: enough to miss the minimum when the fees
  were estimated at 0. The loans are the amount
  quoted and eight times it. The tokens are one with a price, one that is 1 by
  definition, one without a route. With a life of 2 and calls of up to 2, an
  entry may expire during the call that makes it.
* *BackendClient.* Two calls for order; two retries, so that the delay doubles
  once and the last attempt has no delay after it; one Retry-After below and one above the cap. `served`
  saturates two above the largest number of requests allowed.

Deadlock is checked in every run. Where the process or the modelled work is over, an
explicit stuttering action says so (`Ended`, `Over`).

### Fairness

Weak fairness of the program's own steps: each HTTP and chain call has a
time-out, retries are counted, sleeps and `wait_for` have timers, and asyncio
delivers a cancel it was asked for. The clock goes on (`TimePasses`), which is
what ends a spell of rounds without a pause: the settings' age leads to a call. In `WalletWorker` a step that a pending
cancel would pre-empt is not owed. Nothing is assumed of users, Ctrl-C, `stop`,
the trouble of backend or chain, or mining. Two liveness
properties need more. `DroppedWalletStops` and `WantedWalletHasEntry` speak of
what the backend wants, so they assume that it does not fail every poll from
some point on (strong fairness of a correct poll answer, an assumption about
the backend). `ScansAgain` says in its own premise that the trouble is over.

### What is worth knowing of the results

* A worker that dies keeps its entry, and its wallet has no worker for as long
  as the backend lists it: `OnlyFailuresKeepEntries` says that this is the only
  way to have an entry without a live task. The property that would exclude it
  does not hold, and nothing in the repository claims it.
* A dead worker's exception skips the other stops of one poll only;
  `DroppedWalletStops` holds because `list(self._workers)` is in the order of
  insertion. The entry that raised is popped, and a wallet that comes back is
  entered last: so those before a dropped wallet grow fewer, and after as many
  polls as there are of them the loop comes to it. In any other order two wallets
  that are dropped and fail in turn could keep it from a third for ever.
* `StatusMatchesRun` is about workers that return. A cancelled or failed one
  leaves its last status behind. And a post that was given up may be served
  after the ones that followed: a worker that has stopped may be shown active,
  also by the post of an earlier worker of the wallet, until a next one posts.
* `LoopGivesWay`: with no DEXes or pairs and no pause the worker goes round
  without giving way until its settings are a cache's age old, and every other
  wallet waits so long; it does not do so for ever.
* `OneInFlight` rests on the nonce being read from the mined count. Two
  transactions that compete for a nonce replace or refuse each other.
* `ResultsAreTrue` says what a reported result means: a success is mined, a
  failure is one unless the attempt lost track of a transaction. A raised legacy
  attempt may have gone through (the balance is read after the sale).
* `TradesAreRecorded` lists the ways in which a trade that went through has no
  record that says so: a raise, a cancel or kill, a lost transaction, a post
  that was given up. `ImplementsLedger` adds that records are true when written
  and that trades do not move after it, but those of attempts that lost track of one;
  and that a record is there twice, or after later attempts have begun, only
  when a request of it got no answer.
* `FewMinedLate`: attempts that are cancelled or killed one after another all
  take the same nonce while none is mined, so one of them at most is mined
  before the next scan.
* `PromiseKept` is about a trade of the amount quoted, through the pools quoted,
  in a market that has not moved. Even then a loan brings less than the quotes
  say: Aave's premium is not among the fees of `worker.py:212`, so a loan near
  its minimum reverts, and costs its gas. Each of these premises can fail in the code:
  `loan_limit` is not `default_base_amount`, V3 is traded with tier 3000
  whichever tier the quote came from, and both legs may be of one pool. A quote
  of Balancer that was scaled up is never kept: the same trade by flash loan is
  always reverted.
* `LoanPaysOrReverts` holds however the market moves, for the minimum is
  taken of the amount lent. The legacy flow has nothing like it.
* `PricesAreFresh` rests on "now" being read before the call: an entry made by
  a slow call has less than its minute left.
* `SupportIsFinal`: a "no" that came from a failing node stays for the
  worker's life. The property rests on the de-duplication of aliases.

### Findings

1. `executor_sale`: `worker.py:188-190` describes the round trip as spending
   what the purchase brought; the legacy flow sells the whole balance
   (`executor.py:686`), with what an earlier attempt bought and lost track of. In
  the trace the answer to that attempt's broadcast is lost: it raises, awaits no
  receipt, and its purchase is mined nonetheless.
2. `quoting_filter`: `worker.py:279` says the filter is "all sync, no network";
   its first look at a pair asks the chain on the event loop (`worker.py:298`),
   and every worker and the supervisor wait.
3. `round_trip_units`: `worker.py:505-508` says that profit and fees are
   normalised to USD; the fees are in ETH (`executor.py:535`, `550`, `708`) and
   `worker.py:511` multiplies them by the price of the pair's base token.

## 4. Proofs

Every invariant, step property and refinement that a passing run checks is also
a theorem, for every value of the constants that meets the assumptions below. In
each module an inductive invariant `IndInv` holds at first, is kept by
each step (one lemma per action, or group of actions of a kind, with a step per
conjunct it can disturb) and implies the properties; `Invariance` is
`Spec => []IndInv`, `TypeCorrect` is `Spec => []TypeOK`.

| Module | Theorems besides `Invariance` and `TypeCorrect` |
|---|---|
| `SupervisorProofs` | `OneWorker`, `NoneForgotten`, `OnlyFailed`, `StartsReported`, `StopsLeftOut`; `Refinement` (`ImplementsPool`) |
| `WalletWorkerProofs` | `TrueStatus` (`StatusMatchesRun`); `LifeImplemented` (`ImplementsLife`) |
| `ScanProofs` | `StopBoundsExecutions` (`FewExecutionsAfterStop`), `Accounted` (`EveryOpportunityAccounted`) |
| `TxExecutorProofs` | `OneAtATime` (`OneInFlight`), `TrueResults` (`ResultsAreTrue`), `NoDoubleBuy` (`BuysOnce`) |
| `TradingProofs` | `TradingInvariance` (`TradingInv`), `FewLate` (`FewMinedLate`), `TradesRecorded` (`TradesAreRecorded`), `ExecutorImplemented` (`TradingSpec` implies the executor's `Spec` and its properties), `LedgerImplemented` (`ImplementsLedger`) |
| `BackendClientProofs` | `CallsServed` (`ServedAsSent`), `InOrder` (`OrderKeptUnlessLost`) |
| `QuotingProofs` | `BestQuoted` (`BestOfAnswers`), `FoundOutOnce` (`SupportIsFinal`) |
| `RoundTripProofs` | `LoansPay` (`LoanPaysOrReverts`), `FreshPrices` (`PricesAreFresh`), `Promises` (`PromiseKept`) |

### Assumptions

| Module | Assumed of its constants, and why the code justifies it |
|---|---|
| `Supervisor` | `NoId` is not an identity |
| `WalletWorker` | nothing: it has no constants |
| `Scan` | the DEXes are finitely many, at least one pair is listed |
| `TxExecutor`, `Trading` | the bounds are numbers, at least one attempt |
| `BackendClient` | the bounds and delays are numbers, the largest delay is not 0 |
| `Quoting` | each name has an adapter (the registry), gated and static ones are adapters, finitely many pools |
| `Prices` | `USDC` is 1 by definition and has no route; prices are positive, for 0 stands for no answer yet (the code would keep a price of 0 like any other); a call takes no longer than an entry lives: `HTTP_TIMEOUT_SEC` is 15 unless configured, `CACHE_TTL_SEC` 60 |
| `RoundTrip` | positive amounts and reserves; a premium is a number, of 0 or more; 0 is among the fees that may be estimated (the estimate falls back to it); 3000 is a tier, the one `build_leg_params` trades V3 with |

### Arguments

*Supervisor.* `OneWorkerPerWallet` is not inductive: `_stop_worker` drops the
entry while the old worker is alive, so from the property alone a poll could
start a second one. The invariant says why it cannot:

* `UsedIsReferred`: a task that is in use has an entry, or is awaited, or
  Ctrl-C has made the supervisor drop it on its way out;
* `OneTaskPerWallet`: one task in use per wallet, ended ones that nobody has
  awaited yet included;
* `EntriesArePristine`: an entry is of a task nobody asked to stop;
* `FlagsAreOfTasks`: stop, cancel, awaited and reaping belong to tasks in use,
  each included in the one before;
* `LoopState`: nothing is awaited while the loop polls, exactly one task in
  `await`, what is left to stop is registered and not in the answer, and the
  registry is empty in shutdown;
* `InsertionOrder`: `earlier` is a strict total order of the entries. That new
  entries come last, in an order of their own, and that a popped one leaves an
  order, are lemmas `OrderGrows`, `OrderShrinks` and `OrderKept`.

A poll therefore starts workers only where no task is in use. `Refinement` maps
each step to an answer, a dismissal, an end, a close or a stutter of
`WorkerPool` under the mapping `PoolState`.

*WalletWorker.* That `shown` is right of a run needs `TokenInHand` (settings are
asked for with a token only) and `LoginsCounted` (a round logs in again only after a 401),
for a login that could be repeated would break the type of its counter. What is
shown is that of the last post that was answered, or `stray`; a request that was
given up adds its status to `late` and nothing takes one away, so that a stray
status is one of `late` (lemmas `StatusTypes`, `StatusSteps`, `StatusInd`).
`LifeImplemented` maps each step to a move of `WorkerLife` through `PhaseOf`.

*Scan.* The bound on executions is not inductive: `StopBudget` counts, with
the executions begun since the stop, the reverse quotes still to be weighed and the
one in hand, and says that there are none before the stop or before there is a
batch. `OwedInHand` names the calls in which an event is owed.

*TxExecutor.* The properties speak of the mined and the pending; the invariant
follows each signed transaction (`Known`: pending, mined or with a thread).
`InHand` says what the attempt in hand has sent at each place of the code, and
that the one it waits for is `MyTx`; `SignedOnce`, that no attempt signs two of
a kind; `NoncesInOrder`, that no broadcast is ahead of the chain, so that one which is
accepted replaces whatever is pending (lemma `AcceptReplaces`);
`ProgressIsMined` and `OutcomesAreTrue`, what a place or a result says of the
chain.

*Trading.* Each step of the composition is a step of `TxExecutor` or leaves it
alone (`StepOfExecutor`), so that `IndInv` is kept without proving it again. `InStep` ties
the attempt to the place of the scan; `Booked`, records to outcomes; `Tracked` says
that a transaction under way is the one its attempt waits for, or is of an attempt in
`unsure`, which is why a trade that moves late is one the ledger knows as
`lost`; `LateBound`, that after one late transaction nothing is pending and the
nonces of the threads' broadcasts are spent. `LedgerImplemented` has one lemma per
kind of ledger step (`OpenStep`, `ExecutingStep`, `RecordStep`, `DoubtStep`,
`LateStep`, `AbandonStep`, `MoveStep`).

*BackendClient.* `RequestsCounted`: what was acted upon of a call and what may
yet be is no more than the requests the client has done with (`Settled`).
`ServedInOrder`: without a loss nothing is late and the call under way was not
acted upon before its answer. The delay doubles under its cap, and the powers of
two that needs are numbers by the cardinality of a set of subsets.

*Quoting.* `SupportIsFinal` rests on `AdaptersApart`: of two threads that ask
for support the adapters are different, and while one asks the answer is unknown.
`FilterAlone` keeps the event loop's own question from meeting a thread.
`BestHeard` and `EveryPoolAsked` are what the loop over the pools keeps.

*RoundTrip and Prices.* `QuotesHold` says where each figure of the opportunity
comes from for as long as nobody else moves the market; `SaleHolds`, that the
purchase moves the first pool only, so that the sale by another pool brings what
was quoted. `Promises` follows with lemmas `SameTrade` and `PayingIsEnough` (what
pays makes the minimum with the fees taken from it, so only a premium above
them can miss it); `LoansPay` is arithmetic
on the truncated minimum. `PricesInv`: an entry's time left and the age of
its price are together no more than the life of an entry, and a call under way has
been so for no longer than its answer is old.

### Only model-checked

Liveness under fairness (`DroppedWalletStops`, `WantedWalletHasEntry`,
`ShutdownCompletes`, `LoopGivesWay`, `StopEndsRun`, `ScansAgain`, `ScansEnd`,
`AttemptsEnd`, `CallsEnd`), which is out of the prover's reach; and the three
counterexamples, which are runs.

## 5. Not modelled

* Decimals: `to_wei`, `price_from_amounts` and floats. `RoundTrip` calculates in
  whole units and truncates where the code does. 1inch's oracle rate, which
  ignores the amount, is a pool that cannot be traded with.
* Calldata, signing, key decryption, ABI and address tables, configuration,
  logging: data or pure encodings.
* A second Ctrl-C. SIGTERM and crashes are in `Trading` (`Killed`), which is where
  something survives them; for the supervisor a restart is `Init`, and a worker
  begins with whatever status the backend still shows.
* Amounts and interleavings together: `RoundTrip` has one attempt, which is not
  disturbed by others of the wallet; `Trading` counts in trades.
* The dry-run and fork tools: sequential.

## 6. Plan

Done, in this order, the most important behaviour first: Supervisor with
WorkerPool and its proofs; WalletWorker with WorkerLife; Scan; TxExecutor;
BackendClient; Quoting; Trading with Ledger; Prices and RoundTrip.

Proved, in the same order: all safety properties of all modules, the refinements
`ImplementsPool`, `ImplementsLife` and `ImplementsLedger`, and that `Trading`
implements `TxExecutor`.

Next, to prove: what the runs do not state yet but the invariants give for any
values of the constants.

1. `Scan`: what its conjunct `StopBudget` says of the loops as a step property
   (nothing is asked after the stop but what the batch in hand needs).
2. `WalletWorker`: a bound on the logins and settings calls of one round.
3. `BackendClient`: which answers raise at once, and how often a call is sent.
4. `Trading`: under which conditions an attempt that was cut off can still move
   funds, in terms of `unsure` alone.

All modules are free of recursive operators, so that each can be proved about.
