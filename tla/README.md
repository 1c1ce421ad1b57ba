# Formal model of binance-mcp-go

binance-mcp-go is an MCP server: a host (a language model's client) calls tools
over stdio, each tool calls one method of the Binance adapter, the adapter makes
one or two HTTP requests with an SDK client, and every request of every tool
goes through one shared chain of HTTP middlewares. This directory holds TLA+
modules for the parts of it that have behaviour, TLC runs over small instances
and TLAPS proofs.

## Inventory

| Part | Source | State | Operations | Hard about it | What makes it correct |
|---|---|---|---|---|---|
| HTTP chain | `main.go`, `httpmw/` | one breaker, one `usedWeight`, per call: attempt, sleeps, client timeout | a request's way down and up | every worker is in it at once; answers are lost, late, 5xx, 429; sleeps outlive timeouts | orders are never replayed, outcomes are truthful, calls return |
| - circuit breaker | `circuitbreaker.go`, gobreaker | closed / open / half-open, consecutive failures | admit, report | reports of older requests during a probe | one probe, which alone decides; recovery |
| - retry | `retry.go` | none shared | repeat GET/HEAD after an error or 5xx | runs below the breaker and sleeps without its context | state-changing requests once |
| - rate limiter | `ratelimit.go` | `usedWeight` (atomic) | load, sleep to the minute, clear, store | load, clear and store interleave; three hosts share the reading | bounded overshoot, no 429, nobody blocked for ever |
| - OTel transport | `otelhttp.go` | none | spans, metrics | records while the providers shut down | passes everything through; one record per request |
| Futures positions | `adapter.go` ClosePosition, GetFuturesPositions | none here; the position at the exchange | GET, then a market order; a listing | the market moves between the two; two closes race; an order that is late, partly filled or expires | closing only reduces; a close answered FILLED is complete |
| Order tools | `adapter.go`, `tools/*` | none here; four books at the exchange | eight create tools, cancel, cancel all, list, status | numbers coincide across books; orders leave at any time; ids pass through float64 | what is placed is what was asked; a cancel hits the order meant |
| Options tools | `adapter.go`, `tools/options.go` | `env` (constant) | create, chain, positions, info | the client is built for production in testnet mode too | nothing is sent outside production |
| Account tools | `adapter.go`, `tools/account.go` | none here; wallets and settings at the exchange | transfer, leverage, margin mode, balances | lost and late answers, the end of the server under a call | the account can be reconciled with the answers |
| Market data, server info | `adapter.go`, `tools/market_data.go`, `system.go` | none | reads | - | - |
| Arguments, results | `tools/helper.go`, `schema.go` | none | JSON to Go values and back | float64, `%g` | values survive |
| Configuration | `config.go` | settings | read once | texts that do not parse | there always is a timeout; requests go to the environment set |
| Lifecycle, logs, traces | `main.go`, `observability.go` | providers, `ctx` | init, serve, shutdown | order of flags and clients, exits that skip deferred calls, a cancelled `ctx` | a clean end loses no record |
| Redaction | `redact.go` | none | rewrite text | - | - |

Interaction: tools call the port interface, which the adapter implements; the
adapter uses three SDK clients (spot, futures, options) that share one
`http.Client`, hence one chain, one breaker and one limiter. The MCP library
runs tool calls on a pool of workers, so all of the above is concurrent, and the
only mutable state the process shares is the breaker and `usedWeight`.

## Modules

| Module | Models | State and actions |
|---|---|---|
| `Gobreaker` | the breaker library, as the code configures it | operators, each one critical section; `members` is the set of calls admitted in the current generation, which is all the library's generation numbers are compared for |
| `HttpChain` | the chain from `http.Client` to the network | per worker `pc`, method, attempt, sleep left, timeout left, reply; shared `cb`, `weight`; one action per stretch of code between two points where another goroutine can be seen |
| `Delivery` | what the chain promises about a request | abstract: pending, method, executed, result; `Late` is an execution after the answer was given up |
| `HttpChainProofs` | proofs about `HttpChain` | - |
| `RateLimit` | the limiter against hosts that really count | `usedWeight`, used weight per host, the reading in each answer |
| `RateLimitProofs` | proofs about `RateLimit` | - |
| `FuturesPosition` | `close_position` and the life of its order | positions of one symbol per leg; calls with what they saw and sent; where each order is and how much of it is filled |
| `FuturesPositionProofs` | proofs about `FuturesPosition` | - |
| `Orders` | the order tools, `create_option_order` and the argument checks included | open orders of four books, calls with what they ask, what callers were told |
| `OrdersProofs` | proofs about `Orders` | - |
| `Account` | `transfer_funds`, `set_leverage`, `set_margin_mode` over `Delivery` | wallets and settings at the exchange, what each call was asked for |
| `Lifecycle` | `main`, `config.Load`, `observability.Init` and `Shutdown` | where main is, configuration, hosts of the clients, `ctx`, records taken, buffered and written per provider |
| `Session` | `Account` and the options tools inside `Lifecycle` | both, and where every request went |
| `SessionProofs` | proofs about `Session` | - |
| `SumTheorems` | theorems about `SumFunctionOnSet` of the community modules, about no program | - |
| `LedgerProofs` | what the money does, over `SessionProofs` and `SumTheorems` | - |
| `MC*` | instances for TLC | - |

### How the chain corresponds to the code

`Refuse` and `Admit` are `cb.Execute` up to the inner function; `Pass`,
`Throttle` and `Unthrottle` are ratelimit.go:27-32; `Transmit` to `Thaw` are the
transport and ratelimit.go:34-58; `Backoff` and `Resend` are one turn of the
loop of retry.go:62-88; `Conclude` is the rest of `Execute` and the return to
the SDK. POST stands for every method that is not GET or HEAD. A `"server"`
reply is any 5xx, `"rejected"` any other 4xx, `"limited"` 429 or 418. Of the
exchange it is assumed that a 2xx was acted on and a 4xx was not; a 5xx or a lost
answer may be either. The requests' bodies and the OTel transport, which change
nothing, are left out. The breaker's `Interval` is 0, so its closed state never
expires; `Timeout` is the library's default and stands as `Cooldown`.

### How the limiter corresponds to the code

In `HttpChain` the header carries any of a few readings, which is enough for
what the chain promises. `RateLimit` gives up the other middlewares and gets the
readings right: a host adds a request's cost, states the sum, and refuses what
would pass its limit. Time is the minute boundary alone. A retried or throttled
request is simply one more request.

### How the position module corresponds to the code

`Query` is the position-risk GET, `Place` the choice of leg and the order made
of it, `Answer` and `Lose` the return of the POST. The order has a life of its
own at the exchange: it gets there (`Arrive`), is filled in parts (`Fill`) or
taken out (`Expire`), before, after or without the answer. adapter.go:704-708
returns any 2xx without an error and never reads the status in it, so `Answer`
passes on whatever the exchange says (`Says`): NEW, PARTIALLY_FILLED and EXPIRED
are answers of a close that has not closed, or not yet (a test answers a MARKET
order with NEW, adapter_futures_wire_test.go:92), and the properties promise
nothing for them. `Lose` leaves an order that is on its way or at the exchange
where it is. `Room` is what the exchange holds an order to: `reduceOnly`, and a
hedge leg that does not pass zero. Amounts are whole lots: the text form of a
quantity is exact in the code (`FormatFloat(..., -1)`), so nothing is lost by that.

### How the order module corresponds to the code

The lower-case operators are the tools' handlers with the adapter's early
returns, the capitalised `Create...` ones what the adapter sends. A request is a
type and the set of parameters sent. An order carries what its caller asked
for (`asked`) and what its parameters make it (`has`). `meant` is the order the
caller has in mind: one some answer named, with the tool and market that the
tools' descriptions prescribe for it; a caller that mixes up tools or markets is
not modelled. `getInt64` is the float64 rounding
of helper.go:75; `Exact` is 2^53 scaled down. A request that is lost is never
executed later here (that is in `FuturesPosition`), and the chain's refusals
show as `Lose`.

### How the account module corresponds to the code

Every action that sends, executes or answers is the action of `Delivery` of that
name, joined with what it does to the account: `HttpChain` is shown to implement
`Delivery`, so `Account` need not repeat the chain. `Delivery` allows a little
more than the chain's model does: `Late`, since an order given up on may still be
executed afterwards, which `HttpChain` counts at the moment it is given up.
`resolveTransferType` is the table of adapter.go:816; all twelve entries follow
one rule, so the rule stands for them. A result is what the SDK hands up, from
which the tool makes "ok" or "... failed: <error>"; `Done`, `Failed` and `Open`
are what a caller may conclude from it. An element of `Calls` is one call and
is not used again, so that all answers stay in view. The amount's `%g` text reads
back as the same number.

### How the lifecycle corresponds to the code

`Load`, `Observe`, `Connect`, `ServeReturns`, `ShutdownTracer`, `ShutdownMeter`
and `CloseLog` are main from top to bottom, the last three the deferred
`obs.Shutdown`; `Exit(1)` is every `os.Exit(1)`. An environment variable is the
value its text parses to, if any: unset and garbled are the same to `Load`
(BINANCE_TESTNET=yes is production). `ServeStdio` belongs to a library and may
return nil or an error at any time, whether a signal came or not: the code gives
it no context. `Flush` is a provider's shutdown: complete, unless the context it
is given is cancelled. `taken` is what each provider took in this life, of calls
that come back while the other one shuts down too. `Export` is the batcher and
the periodic reader. It is assumed that fewer requests wait to be written than
the batcher holds (2048).
Log lines, credentials and the log's path are left out.

In `Session` a call begins only while main serves, and answers may come until
the process ends; the end is `CutOff` for the calls under way: their callers hear
nothing, which stands as "error", the outcome that tells nothing. A request is
recorded when it comes back through the OTel transport: refused by the breaker
too, but not when the adapter turns the call down.

## Runs

| Run | Shows | Bounds and why they are enough |
|---|---|---|
| `chain_safety` | no replay, truthful outcomes, one probe, which alone decides, no trip by a read that still has attempts, no refusal that does not pass by itself, no step that lengthens a call, refinement of `Delivery` | 2 workers, 3 attempts, trip after 2: one worker may be a straggler of any generation while the other trips, cools and probes; the third attempt separates first, middle and last |
| `chain_live` | every call returns; the breaker closes again | 2 workers, 2 attempts, minute and cooldown of a tick, sleeps as late as the scheduler likes |
| `limit_races` | at most N(N+1)/2-1 late requests in a minute without a lost answer; then no 429 either; nobody is throttled for ever | 3 workers on one host that counts, requests of weight 1, lost answers. `LateCap` is one more than the bound, which is reached for N = 1, 2, 3; `BanLimit` is the least for which nothing is refused (one less, and TLC finds a 429) |
| `position_close` | closing only reduces; a close answered FILLED is complete if nobody else but closes has traded | 2 closes, both position modes, positions up to 2 lots either way: enough for a fill in two parts with the other close's in between, and for positions that flip |
| `orders_place` | well-formed requests, orders as asked | every tool, every combination of optional arguments, callback rates at and beyond both ends. `MaxOrders` = 1 keeps an OCO, which needs two numbers, off the book: `orders_cancel` has it, and the theorem |
| `orders_cancel` | a cancel takes the order meant and no other; an OCO is what was asked for | 2 workers, 2 orders per book: numbers coincide between books and an OCO fits |
| `session_lives` | wallets and settings agree with the answers; requests go where the configuration says; a clean end loses no record | 2 calls of any kind in 2 lives: one may be lost, late or cut off while the other succeeds, and the second may begin after a restart; 3 environments, three pairs of wallets: one wallet is paid into and paid from, and one pair is of a wallet with itself, which the adapter turns down; two leverages, so that two different changes meet. `MaxLives` bounds the starts. Deadlock is not checked: after the last life the system has stopped |

In hedge mode `OnlyReduces` depends on the exchange not letting a leg pass zero,
in one-way mode on `reduceOnly`. What the overshoot
means for the ban limit is `RefusedOnlyAfterLoss`, proved for every limit that
has room for it (`RoomFor`): with the code's 1100 and 1200 and N workers on one
host, for requests of weight W with W * N(N+1)/2 <= 101, which is 6 for five
workers.

The runs with a violation each show one sentence of the documentation that the
code does not keep:

| Run | Sentence | What happens |
|---|---|---|
| `chain_timeout` | README.md:100, TIMEOUT_SECONDS is the maximum wait | sleeps ignore the context |
| `limit_hosts` | README.md:63, pauses before 418/429 | one reading for three hosts |
| `position_bothlegs` | futures.go:54, close entire position | the second hedge leg stays |
| `orders_wide` | futures.go:91, the algoId returned | ids above 2^53 are rounded |
| `session_signal` | architecture_en.md:217, the shutdown flushes the buffers to prevent losing traces | the context it flushes under is the one a signal cancels (main.go:38) |

More sentences are not kept; they have no run of their own:

* architecture_en.md:228 says that an open breaker prevents network calls.
  The breaker is asked once per call and the retries sit below it, so a read
  that was admitted before goes on being retried while the breaker is open.
* architecture_en.md:238 says that a hot limiter blocks new requests until the
  minute boundary. `Store(0)` after a sleep, or an answer read earlier, may
  overwrite a hot reading; `OvershootBounded` says how much that lets through,
  and the bound is not zero for two workers.
* architecture_en.md:228 and README.md:64 speak of 5 consecutive 5xx. The breaker
  counts calls, and a read is three responses before it counts as one failure;
  a call that recovers on a retry counts as a success (`TripsOnlyWhenSpent`).
* order_management.go:118 says "Cancel all open orders for a symbol (spot or
  futures)". `CancelAll` on futures reaches the regular book alone
  (adapter.go:260): conditional orders of the symbol stay, and the tool answers
  CANCELED.
* futures.go:54 says "Close entire futures position", also of a close whose order
  is still open, partly filled or expired (adapter.go:704-708).
* futures.go:104 says that open positions are listed. adapter.go:722 compares the
  text of the amount with "0" and "0.000" and lists a flat position of a symbol
  that writes zero in any other way.
* architecture_en.md:217 again, and :192, that signals are handled for clean
  shutdowns: `os.Exit(1)` skips the deferred shutdown altogether (main.go:84), and
  the context of the signals is not given to `ServeStdio`, so by this code a
  signal ends nothing.
* account.go:115 answers "transfer_funds failed" also when the answer was lost
  or a 5xx, and the money may have moved (`Open`, not `Failed`); the other tools
  that change something do the same.
* adapter.go:455 says that an options order without a price is rejected early.
  The handler writes the price it was not given as "0", so the check passes all.

### Fairness

`HttpChain`: time passes, and a worker that can take a step by itself (wake up,
send, time out, conclude) takes one in the end: the Go scheduler, the timers and
`http.Client.Timeout` give that. Nothing is assumed of the exchange or of the
callers; `BreakerRecovers` has the recovery of the exchange and the callers'
persistence as its hypotheses. `RateLimit`: minutes pass, sleeps end, and a
request comes back or times out.

## Proofs

`HttpChainProofs` proves, for any set of workers and any constants that satisfy
`ChainAssumption` and `BreakerAssumption`:

* `TypeCorrect`, `NeverReplayed`, `Honest`, `SingleProbe`: `TypeOK`,
  `AtMostOnce`, `OutcomeHonest` and `OneProbe` are invariants;
* `ProbeDecides`, `SpentBeforeTrip`: `OnlyProbeDecides`, `TripsOnlyWhenSpent`;
* `RefusalsPass`: `RefusesForNow`, the safety part of `BreakerRecovers`: the
  breaker refuses only while it cools, which time ends, or while its own probe is
  a call under way;
* `NeverLengthened`: `AlwaysNearer`, the safety part of `EveryCallReturns`:
  `Remaining` falls with each of the call's own steps and stays a natural number,
  `Wait` falls with each tick, and nobody else's step touches either. What is left
  to fairness is that the ticks and the steps are taken;
* `ImplementsDelivery`: every behaviour of the chain is one of `Delivery`.

None of the safety properties is inductive. `IInv` adds three parts.
`Accounting` ties the sends to the attempt counter (before the send of an
attempt there were fewer sends than attempts, and a state-changing request has
one attempt), so that no replay follows. `Honesty` says what a reply on its way
up says of the exchange. `Probing` says that a call admitted half-open is the
only member of a breaker that is still half-open, that an open breaker has no
members and that a worker outside the chain is nobody's member: this is why a
straggler's report is recognised as one. Each part is preserved by a lemma of
its own with one step per action; `Invariance` puts them together. The
refinement needs `Accounting` for the abstract bound on executions and `Honesty`
for `Truthful`. `RefusalsPass` rests on `Probing`: a half-open breaker that has a
member has a probe, so no call can leave it full and be gone.

`FuturesPositionProofs` proves, for any set of workers and any size of position
(`PositionAssumption`):

* `TypeCorrect`: `TypeOK`, above all that no fill takes a leg past its bounds;
* `CloseOnlyReduces`: `OnlyReduces`;
* `CloseIsComplete`: `QuietCloseIsComplete`.

Its `IInv` adds three parts to `TypeOK`. `Poised`: an order, on its way or at the
exchange, is one that no fill can take away from zero (`reduceOnly`, or the
closing side of a hedge leg), which is all `OnlyReduces` needs, whatever the
order was computed from. `Answered`: before its order a call has nothing filled and
no answer, and the order is for all that it saw. `Looked`: while nobody else
trades, what is left of the position and what was filled of the call's own order
are together no more than what was seen, and an order that is filled has left
nothing. Parts filled of other closes only take it further towards
zero.
The heart is `FillMoves` and `FillShrinks`, on what any fill of such an order
does, and `ShrinksOn`, that shrinking composes: several closes that looked at the
same position still end at zero.

`SessionProofs` proves, for any number of calls and lives and any environments
(`SessionAssumption`, `AccountAssumption`):

* `TypeCorrect`: `SessionTypeOK`; above all that a server that runs has a
  timeout, and that no request is recorded twice;
* `StaysInEnvironment`: `EnvironmentHonest`;
* `CleanEndKeepsLog`: `LogComplete`;
* `SettingsAreExplained`: `SettingsExplained`.

Its `IInv` has a part for the account and one for the process. `Outcome`
remembers of every call what `Delivery` promised when it was answered, and
`InForce` says that a setting was made by a call that was executed: together they
give `SettingsExplained`. `Wired` says how far main has come, which `GoesRight`
turns into where a request goes. `Owed` follows the records through the shutdown:
each that a provider took is in the file, or in its buffer while it is still up, or
ctx is cancelled; a provider that is down takes none. `Recorded` says that only calls that came back are recorded, so none
twice. The account's lemmas do not mention the process and the process's need
only know which calls are under way.

`LedgerProofs` adds `AlwaysReconcilable`: `Reconcilable`, for any number of calls,
any wallets asked for and any amounts. Its invariant `Ledger` says that finitely
many calls have been acted on and that each wallet is what it was plus what these
do to it. `MovesTheAsked` is where `resolveTransferType` matters: the type written
names the two wallets asked for and no others, so that `ExecuteBalances` adds one
call to the sum. The theorem follows from what `Outcome` says of the answers: a
call answered ok has been acted on and one that failed has not. The sum is a fold
of the community modules, defined by a CHOOSE among functions on sets;
`SumTheorems` proves what is needed of it (`SumOfNothing`, `SumOfSame`,
`SumWithOneMore`) from the definition. The library's induction theorems take an
operator, so `LeastSubset` replaces them: a set of subsets of a finite set has a
least element, and a least counterexample is shown not to be one.

`OrdersProofs` proves, for any workers, symbols, tools, rates and number of
orders and any arguments the schema allows (`OrdersAssumption`):

* `TypeCorrect`, `SendsWellFormed`, `PlacesAsAsked`: `TypeOK`, `WellFormed` and
  `AsAsked` are invariants;
* `CanceledStaysGone`, `CancelsTheMeant`: `CanceledIsGone` and
  `CancelsOnlyMeant`, as long as every number is one a float64 holds (`Narrow`;
  the run `orders_wide` shows what happens beyond it).

There is one lemma for what each create operation makes of any arguments, and
`ToolsBegin` turns them into the one fact the rest needs: a call that is sent is
`Valid`. `IInv` adds why a number finds the order meant. `Numbered`: a book gives
a number once. `Naming`: an order somebody was told of, or an answer on its way
names, was placed before, so that no later order can have its number, and an
open order of its book and number has its symbol too. That is why
`cancel_algo_order`, which takes no symbol, hits no other symbol's order.
`LeavingKeeps` says that orders that leave disturb none of this.

`RateLimitProofs` proves, for any number of workers, any limits and any costs
(`LimitAssumption`):

* `TypeCorrect`: `TypeOK`;
* `OvershootLimited`: `OvershootBounded`, for one host. With several hosts it is
  not true: they overwrite each other's readings (run `limit_hosts`);
* `RefusesOnlyAfterLoss`: `RefusedOnlyAfterLoss`, for one host whose limit has
  the room that `RoomFor` names;
* `OneHostNeverLimited`: `NeverLimited`, the sentence of README.md:63 that
  `limit_hosts` refutes, on such a host while no answer is lost. The code's three
  hosts with one reading, and not the races, are what breaks it.

The invariant is a potential. `Bounded` says that from the threshold on, twice
the late requests plus the `Debt` stays within `Limit`. The debt counts the
workers that have passed the check, those that will pass it while the reading is
cold, and for each of the `Carriers` (workers that will still clear the reading
or store an older, colder one) everybody who may pass after it has done so.
`SpareShrinks` is the price of a carrier, `SpareAtCrossing` the worst division of
the workers when the threshold is crossed, and there is one lemma per action
which shows that it pays for what it lets through. The loss of an answer breaks
the argument, which is why `OvershootBounded` excludes it: a hot reading is gone
without having blocked anybody. `Filled` turns requests into weight: a host at
the threshold has counted at most what was below it, the request that crossed it
and the late ones; `Fits` is that one more has room.

Every invariant and every action property that a passing run checks is a theorem.
Only model-checked is liveness (`EveryCallReturns`, `BreakerRecovers`, `Unblocks`),
which needs ENABLED and fairness, both out of the prover's reach; `NeverLengthened`
and `RefusalsPass` are as much of the first two as is safety.

## Plan

Done: all components with behaviour, and a proof of every safety property. What could
still be added: `close_position` over `Delivery`, several hosts with a reading
each as a counterpart of `limit_hosts`, and more calls in `session_lives`.

## Not modelled

* Market data, server info, `get_my_trades`, `get_futures_positions` and the
  balance tools: reads that keep nothing, copied field by field.
* Registration: a list of calls made once. Schemas, JSON output and the text
  forms of numbers: layout (`%g` writes the shortest text that reads back as the
  same number; what the exchange makes of an exponent is not in this code).
* Redaction: rewrites log and error text; no state, and nothing depends on its
  output.
* Credentials: the futures key and secret fall back to the spot ones each by
  itself (config.go:62); what a mixed pair leads to is a refusal of every
  request.
* `close_position` is not composed with `Delivery`: its two requests, lost
  and late ones included, are in `FuturesPosition` as they are.
