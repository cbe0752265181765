# Verification of discretionary_engine

TLA+ models of the order-executing core of this repository, TLC runs that check
them on small instances, and TLAPS proofs of every safety property the passing runs
check, for every value of the constants: the keys and the ways of fills and
batches through hub and runtime, what a position buys, how its orders are sized,
both chases, the order books, the protocols, the routing commands and the sizing
of trades. What stays with TLC alone is liveness.

## 1. The system

A *position* wants to buy or sell a quantity of an asset. It delegates the how
to *protocols* (trailing stop, SAR, dummy market), which keep sending sets of
*conceptual orders*. The position turns them into target orders and sends them
to the *hub*, which joins the target orders of all positions into one batch per
exchange. The *exchange runtime* (Binance) makes the venue hold exactly that
batch: it closes everything it had deployed and posts the new orders. A *poller*
task of the runtime asks the venue about the deployed orders; what it finds
filled goes back through the runtime and the hub to the position.

    protocols --ProtocolOrders--> position --PositionToHub--> hub --watch--> runtime --HTTP--> venue
                                  position <--ProtocolFills-- hub <--ExchangeToHub-- runtime <--poll--

Next to that path there are a daemon that reads *routing commands* from a Redis
stream into a routing hub, whose *conceptual limits* follow *books* folded from
the feeds of several venues; two stand-alone *chase-limit* executors; and the
*sizing* command, which decides how large a trade may be.

### Components

| Component | Source | State | Operations | What makes it hard |
|---|---|---|---|---|
| Hub | `exchange_apis/hub.rs` | per-position key, requested orders and callback; key of the exchange | take a request, take a fill, forward it | two unsynchronised inputs; requests and fills cross; awaits a full channel |
| Position | `positions.rs` | `dyn_info` per protocol, executed notional, last fill key | take orders of a protocol, take fills, recalculate, complete, change stage | fills race with requests; two books of the same fill |
| Allocation | `protocols/mod.rs` 165-244 | none | spread a notional over percentages with minima | boundaries; skipped shares passed on |
| Binance runtime | `exchange_apis/binance/mod.rs` | locked list of deployed orders, polled-fills channel, counters | poll, report, close, post | two tasks; stale copies over awaits; lost answers; retries |
| Protocols | `protocols/*.rs` | indicator state, last order sent, one channel to the position | warm up, step per kline, tell, end | shared bounded channel; reconnections; a slot that becomes `None` |
| Chase over web socket | `ws_chase_limit.rs` | placed?, last price, filled quantity | place, amend, cancel, market order | asynchronous venue; reports overtake requests; expiry |
| Redis bus | `discretionary_engine_core/src/redis_bus.rs` | stream, consumer group | publish, read, acknowledge, recreate the group | restarts, stale liveness checks |
| Routing hub | `discretionary_engine_routing/src/lib.rs` | assets with limits, command queue, awaited ticks | New, Adj, Del in batches | cancelled by the caller's `select!` in the middle of a batch |
| Chase over HTTP | `chase_limit.rs` | link and price of the last order | read the quote, cancel, replace, wind up | cancels that cancel nothing; refused replacements; the market moves between requests |
| Books | `discretionary_engine_data/src/book.rs` | feeds, awaited results, published top | pull, fold, drop a feed, publish, tick | feeds fail; a wake-up that leaves no permit |
| Conceptual limit, executor | `routing/src/algo.rs`, `lib.rs` 66-92 | parameters, last order, cache | adjust, next, tick | `next()` says nothing when nothing changed |
| Risk | `discretionary_engine_risk`, `risk.rs` | none | collect balances, tier, layers, size, round bias, times of past moves | clamps and rounding; overlapping windows of klines |
| Execution orders | `discretionary_engine_exec` | the state of an order | predicates on it | no transition between states is written yet |

What each must guarantee, in short: the exchange never acts on outdated
wishes (hub); a fill reaches its position once, in order (hub); a position
never buys more than it was to, but for what its last batch could not be reduced
by because nobody had told it (position); nothing is left open on the venue
behind the runtime's back, every execution is told once (runtime); the client's
idea of what is filled is never more than what is, and an order it relies on is
there (chases); commands are
applied once and in order (bus and routing hub); the position hears what its
protocols last wanted (protocols); what is read is the best of the feeds (books);
a trade loses no more than it may at its stop (risk). `PROJECT.json` lists the hazards line
by line with the properties that are for them.

## 2. Modules

| Module | Models | Notes |
|---|---|---|
| `Hub` | `hub.rs` | one action per awaited step of the hub task; extended by `FillKeyProtocol` |
| `FillKeyProtocol` | hub, positions' use of keys, what the runtime reports and accepts | composition; all channels explicit |
| `FillDelivery` | abstract | what the way of a fill promises: numbered, own fills only, once, in order, eventually |
| `ExchangeRuntime` | abstract | the contract between hub and runtime; both detailed sides implement it |
| `FillKeyProtocolProofs` | - | TLAPS proofs: types, keys, nobody stuck, why the hub ends; that `FillKeyProtocol` implements `ExchangeRuntime` and `FillDelivery` |
| `BinanceRuntime` | `binance/mod.rs` | main loop and poller, lock and channels; venue and hub are environment |
| `BinanceRuntimeProofs` | - | TLAPS proofs |
| `Position` | `positions.rs` | extends `Allocation`; composition with a reduced hub and runtime |
| `Allocation` | `protocols/mod.rs` 165-244 | pure operators |
| `Sums` | the iterators' `sum()` | what the sums of `Allocation`, `Position` and `RiskSizing` are |
| `RiskSizing` | `discretionary_engine_risk`, `risk.rs` | pure operators: balances, tier, layers, size, round bias, times of past moves |
| `Algorithms` | the callers of both | extends `Allocation` and `RiskSizing`: an initial state per input, a step that computes, properties of the result |
| `QuantitiesProofs` | - | TLAPS proofs about `Position` and `Algorithms`, from facts on sums and on step-by-step computations proved there |
| `Protocols` | `protocols/sar.rs`, `trailing_stop.rs`, `dummy_market.rs` | the tasks, their indicators, their channel, and the position as far as it minds them |
| `ProtocolsProofs` | - | TLAPS proofs |
| `Books` | `book.rs`, `algo.rs`, `Executor::tick` | the task that pulls feeds, the hub that adjusts a limit, the executor that reads |
| `BooksProofs` | - | TLAPS proofs |
| `WsChaseLimit` | `ws_chase_limit.rs` | client and an adverse venue |
| `WsChaseLimitProofs` | - | TLAPS proofs |
| `ChaseLimit` | `chase_limit.rs` | client, an awaited request a step, market and venue going on in between |
| `ChaseLimitProofs` | - | TLAPS proofs |
| `RoutingCommands` | `redis_bus.rs`, `routing/src/lib.rs`, daemon loop of `main.rs` | clients, stream, `select!`, hub, restarts |
| `RoutingCommandsProofs` | - | TLAPS proofs |
| `MC*` | - | constants for TLC |

**Keys.** The code's fill keys are fresh `Uuid::now_v7()`s that are only compared
for equality. The models number them: the key of the k-th report is k, and
`Uuid::default()` is 0.

**Steps.** Everything a task does between two awaits is one action; where an
await can be dropped by a `select!`, another action may follow instead. A `send`
into a full channel is a state the task stays in (`hub = "deliver"`, `outgoing`,
`main = "report"`), a `watch` is a value and a changed-flag.

**How the two halves fit.** `FillKeyProtocol` has the hub in full and a runtime
reduced to "reports fills, accepts batches under its last key, may die".
`BinanceRuntime` has the runtime in full and a hub reduced to "takes reports in
order, sends batches under the last key it took". Both are shown to implement
`ExchangeRuntime`, so neither assumes more of the other than the other does.
`Position` has the position in full, and of the two sides the large steps: a
request under the key of the last report replaces what is deployed, a close loop
gets through some of its orders and may give up on the rest, answers to posts are
lost, and what was polled is reported later, under a newer key and after a newer
batch perhaps. It leaves out two of the mishaps `BinanceRuntime` records: that
the poller notes an execution in another order's entry, and that a report is
dropped because the channel to the hub (32 places) is full.

**Abstractions.** `Position` and `Allocation` use integers in units in which the
divisions of the instances are exact; f64 is exact on those dyadic values.
`Position` keeps of the runtime's list what the last batch became: an order is
`listed` until a fill of its name is reported, and what it executed and what the
poller told of it are counted apart. Orders the runtime forgot (left open by a
close loop that gave up, placed though the answer was lost, or removed by the fill
of a replaced order of the same name) are one number, what they may still execute:
`astray`. The target orders come in one of the `Rankings`: market orders first,
stops by price, ties by an iteration over the hash maps, which may be any.
`Hub` keeps the batch as a set (the code iterates over a hash map) of orders
tagged with their position; orders are opaque but for their kind, which decides
whether `hub_process_orders` hits a `todo!()`. In `WsChaseLimit` a price is a
distance in ticks, so that higher is better for both sides, and a quantity counts
units of the last decimal `format_qty` writes; `Tolerance` is the code's 0.0001 in
them, 0 with steps of 0.001 and more, 1 with steps of 0.0001, 100 with smaller ones.
In `ChaseLimit` a price counts ticks, so that "by more than half a tick" is
"different", and a cancel closes nothing, since it goes out as the creation of an
order without side, type and quantity (`chase_limit.rs:75`, `:157`). In `Protocols`
klines are a high and a low on a small grid, the acceleration factor counts its
increments, and a tick of the indicator is what the code makes of one kline; in
`Books` a feed's ladder is its best prices and a limit has the one order the code
gives it. `RiskSizing` computes in integers: sizes in units fine enough for the
divisions, shifts in thousandths of a tier, powers of e in ten-thousandths (only
one is used at a time), and the logarithm of a stop's proximity as a table of the
formula's values. Its search for past moves looks at the klines of an answer from
the newest to the oldest, as `iter().rev()` does. In `RoutingCommands`
a limit's id is the pair of the daemon's run and the number of its New, and what
a run of Adj and Del commands does to the limits is said of the run as a whole
(which limits its Dels take, which adjustments keep the weak ones from doing so,
which assets are left to listen to) and not command by command; that the
hub may be polled late for a new turn of the `select!` allows more batches than
one command a time, which is what a starved task sees.

## 3. Runs

| Run | Bounds | Question and answer |
|---|---|---|
| `FillKeyTwo` | 2 positions, 3 fills, 1 update each, runtime may panic | keys: is what the runtime acts on up to date for its asker, is nobody stuck behind a key, does the path of a fill refine `FillDelivery` and the rest `ExchangeRuntime`? Yes |
| `FillKeyLive` | 1 position, 3 fills, 3 updates, channels for 1 request and 2 fills, only order kinds the hub can express | does every fill arrive, does the last request get through, does the hub live on? Yes, unless hub and position come to wait for each other |
| `FillKeyFollowup` | 1 position that goes on to its followup | does the hub outlive its positions, as `positions.rs:157` says? No |
| `BinanceTwo` | 2 names, 2 batches, 1 failed call | is every open order tracked, at most one per name, and the contract kept? Yes, up to recorded mishaps |
| `BinanceLive` | 1 name of quantity 2, 2 batches, 1 failed call | is each execution told once and in the end, does the loop always come back? Yes, up to mishaps |
| `PositionMixed` | 3 protocols, 3 updates, fills in steps of 2 of 4, calls that fail in 1 replacement | no overbuying but by what the last batch could not be reduced by, books never understate, requests fit in what is left, and the position completes or has bought a part if the market fills: yes |
| `AlgorithmsAll` | up to 3 slots with every mix of inactive ones, percentages, fills and minima; every quality, stop, manual layer and balance of small sets; histories of 6 prices | does the allocation equal its definition, do layers only step down, is the loss at the stop bounded, do the times of past moves add up? Yes |
| `ChaseAll` | target 3, tolerance 1, 2 prices, 4 iterations, 2 requests under way, faults | filled quantity never overstated, no overfill before expiry, short of the target and left open at most by the tolerance when it stops as filled, termination: yes |
| `ChaseHttpAll` | target 2, 4 prices, 3 iterations, refusals, lost answers | is an order out whenever it says it keeps one, does it send again only when the quote moved, return? Yes |
| `ProtocolsAll` | a SAR or a trailing stop beside a market order, 4 prices, a channel for 2 | does the position hear what was last wanted, does a stop loosen only when it was hit, does nobody wait for ever? Yes |
| `BooksAll` | 2 feeds, 2 prices, 3 parameters of the limit, 1 result per feed unread | is the top the best of the feeds, what is wanted the latest? Yes |
| `RoutingAll` | 2 assets, 3 commands, 2 runs | every command once, in order, from the first on, until a cancellation drops work: yes |

Every property of a passing run has a mutant in `PROJECT.json`: a plausible bug
in one mapped definition that makes the run fail. The mutated forms are next to
their definitions, marked `MUTANT`.

**Why the bounds are enough.** Two positions give every way in which one position's fill
can invalidate, or be mixed up with, the other's request; a third adds only more of the
same pairs, and the theorems below hold for any number. The code's channels hold 32
requests and fills (`hub.rs:42`) and 256 fills of a position (`positions.rs:71`). In
`FillKeyLive` they hold one request and two fills of the position, below the number of
fills and of updates: there the hub comes to wait for room in the position's channel
(`hub.rs:159`) while the position waits for room in the hub's (`positions.rs:206`), and
neither takes anything out of its own any more. That is `MutualWait`, which no code
ends; the liveness properties of the run name it, and are violated without it, so it is
what they show to be the only thing that stops a fill or a request. `FillKeyTwo` has
channels for two of each and three fills. Two order names are needed for a poller copy
that outlives the list it was made of, two batches for an order posted again under the
same name. A quantity of 2 or 3 gives partial fills. In `PositionMixed` a target of 4
executed in steps of 2 gives partial fills, shares below the minimum and a second batch
for the rest, one replacement with failing calls gives orders left open and lost
answers, and all quantities stay even, so that no division rounds. In `AlgorithmsAll`
eighths of a notional give minima that bite, shares that are skipped and remainders. A
target of 3 with a tolerance of 1 can stop a unit short, and two units short if the
tolerance were taken twice. Three iterations are a first order, its replacement and a
replacement refused; four prices leave a spread in which a price can improve and one in
which it would cross. Four prices let a stop be followed up, hit and turned; a channel
for two fills up with one message each of two protocols. Two feeds are one that has the
best price and one that is left when the first fails; the three parameters turn a limit
round, double it and move it. Six prices with windows of three and timeframes of one and
two make windows and timeframes overlap in every way. Three commands are what a weak Del
needs (New, Del, Adj), two runs what a restart needs. `MaxFills`, `MaxUpdates`,
`MaxBatches`, `MaxReports`, `MaxFaults`, `Step`, `MaxPending`, `StreamCap`, `FeedCap`,
`MaxCommands` and `MaxRuns` bound what the environment does, and are guards of its
actions only. `MaxIterations`, `MaxFetches` and `RunTimes` are limits of the code, made
small.

**Deadlock** is off everywhere: each model stops when its environment has used
up its bounds, and when tasks have ended.

**Fairness.** Each tokio task that can make a step eventually does (weak fairness per
task). `tokio::select!` picks among ready branches at random, so a branch that stays
ready is picked in the end: weak fairness for each branch of hub and position in
`FillKeyProtocol`; the runtime's select is entered and left all the time, hence strong
fairness for `TakePolledFill` and `SeeChange` in `BinanceRuntime`. In `WsChaseLimit`
only the client is fair: both of its loops have a sleep among their branches. In
`RoutingCommands` only the subscriber and the first step of `next()`. In `ChaseLimit`
only the client: each of its requests is answered or fails. In `Protocols` the
position's `select!` comes round, and a sender that waits for room gets its turn
whenever there is some, since tokio's channels queue their senders: strong fairness for
`Tell`. Of `Books` nothing is assumed: the loop that pulls from it is not in this
repository (`discretionary_engine_data/src/lib.rs` declares the module and nothing
else), so only safety is said of it. In `Position` the fairness of two actions is
written out with their guards in place of `ENABLED`, which TLC evaluates too slowly
there; a guard is true exactly when the action can happen. No fairness is ever assumed
of a venue, a market, a client or a user; where a property needs a market that trades
(`BuysIfMarketFills`) that is its explicit premise.

**Mishaps.** `BinanceRuntime` and `WsChaseLimit` record what the code has no
means to recover from; properties that such a mishap breaks name it in their premise,
and the mishaps stay reachable in the runs. What a premise excludes is not shown, and
these hazards of `PROJECT.json` are excluded, in whole or in part:

* a lost answer to a post, a close loop that gave up, an entry written at the wrong
  index (`binance/mod.rs:602`, `:571`, `:215`): by `OpenOrdersTracked`; the last also by
  `NoExecutionToldTwice`, and any mishap, a report dropped by the `select!` (`:541`)
  included, by `EveryExecutionReported`. `Position` has the first two and says what they
  cost: `NoOverbuy` counts it as `behind`, `BooksNeverUnderstate` as `lost`;
* ends of the hub: `HubOutlivesPositions` is checked where none of the reasons to end
  but the order's kind could arise, and of the kinds only supported ones are; that it
  ends with a followup is `FillKeyFollowup`, and the reasons are the theorem
  `HubEndsForAReason`;
* a position that stops after a partial fill (`positions.rs:94`): `BuysIfMarketFills` is
  content with a part, and with a failed call; `CompletesIfMarketFills` is not, and
  fails;
* an error in the chase (`ws_chase_limit.rs:537`): two orders execute then.
  `NoOverfillBeforeExpiry` and half of `FilledMeansDone` exclude it; reports that make
  the client forget what it had (`:506`) are `ReturnsWhatWasFilled`, only the opposite
  is `NeverOverstates`;
* a protocol that panics (`sar.rs:85`) has ended, and nothing more is expected of it; a
  position that waits for the hub does not take orders, and `TellsOrEnds` is about one
  that comes back;
* a feed dropped without publishing (`book.rs:143`): `TopIsBest` waits for the next
  publish;
* work dropped with `next()` (`routing/src/lib.rs:161`, `:211`): `HandlesAllInOrder`,
  `AppliesEventually` and `ListensToAllAssets` hold until then; only
  `AppliesInOrderOnce` and `WeakDelYields` hold beyond. That replayed limits have new
  ids (`redis_bus.rs:107`) is not judged.

## 4. Proofs

TLC checks every theorem's property on a small instance; the theorems hold for
every value of the constants.

### Keys

`FillKeyProtocolProofs` proves, for all values of the constants that satisfy
`CapAssumption` and `ProtocolAssumption` (capacities are positive, `None` is no
position, bounds are naturals):

* `TypeCorrect`: `Spec => []TypeOK`.
* `KeysCorrect`: `Spec => []KeyInv`.
* `AskerUpToDateTheorem`: `Spec => []AcceptedAskerUpToDate`.
* `FillsGoToKnownPositions`: `Spec => []NoUnknownPosition`, the part of `KeyInv`
  that an `expect` of the hub (`hub.rs:84`) relies on.

The argument. That the runtime acts only on orders whose asker has seen all its
fills is not inductive: it depends on what is under way. `KeyInv` adds (1) the
hub's key of the exchange lags behind the runtime's by exactly the reports in
its channel; (2) the hub's key of a position is that of the position's last fill
the hub has taken; (3) an order in a request was computed under the request's
key; (4) a batch was up to date for its asker at the key it carries, both in the
watch and at the runtime; (5) whoever ever asked or was filled has an entry in
the hub. When a request is taken its key equals the hub's key of the position,
so by (2) its orders know the position's last fill among those the hub has
taken, and by (1) these are the fills up to the key the batch is given. When the
runtime accepts, its own last key equals the batch's, so nothing was reported in
between. TLC checks `KeyInv` as an invariant of `FillKeyTwo`; the proof has one
lemma per action of hub, position and runtime.

That a position behind the hub's key is never stuck needs another induction.
`AcquirersNeverStuck` says that a position that still acquires, and is behind the
key the hub demands from it, has a fill still to come; `NeverStuckTheorem` is
`NeverStuckBehind` for positions that only acquire (`LastStage = "acquisition"`,
which is in the theorem's statement: a followup takes the channel of the
acquisition with it, see `FillKeyFollowup`). The invariant, `OnItsWay`, says that
the *last* fill on its way to a position, in the hub's hand, else at the end of its
channel, else taken, carries the key the hub demands, and that the hub still sends
to the channel of the stage the position is in.

`HubEndsForAReasonTheorem` lists why a hub ends: a position finished its acquisition,
a kind of order ran into the `todo!()`, or the runtime panicked.
`HubOutlivesASinglePosition` concludes `HubOutlivesPositions` where none of them
can come about before the position itself has ended: a position that has the hub
for itself, only acquires, asks for supported kinds, and a runtime that does not panic.

### The older chase

`ChaseLimitProofs` proves, from `ChaseLimitAssumption` (a positive target and cap,
positive prices), `KeptOrderStands`: `Spec => KeepsAnOrderOut` and
`EveryOrderHasItsMove`: `Spec => []ReplacesOnlyOnMoves`. A turn at an unchanged price
does nothing ("keeping order at"), and the price it compares with is that of an order
whose cancel may have been sent since: a replacement was refused, the link and the price
are still the old ones, and the quote comes back. That the order is there all the same
is because no cancel closes any; the mutant of the property is a cancel that works, so
whoever repairs the cancel has to forget the price with it. The price of that is that
replaced orders pile up and execute too (`OneOrderAtWork`, `NeverOverfills` in section
5); `ReplacesOnlyOnMoves` bounds them by the moves of the quote. That an order is never
sent twice for one move is not inductive: a quote may move while a replacement is
refused, and move back. `ChaseInv` adds that orders are open till they are filled
(`OpenTillFilled`), that the one whose link is held is on the venue at the remembered
price (`HeldIsThere`), that while the loop runs the last order has that price too, that
a limit price other than it is a move no order has answered yet, and that moves are at
most as many as turns. The lemmas are one per action, over two about what a fill and an
accepted order do to the venue's list.

### Books

`BooksProofs` proves, from `BooksAssumption` (positive prices, of which one is the
highest), `TopIsTheBest`: `Spec => []TopIsBest` and `DesiredIsTheLatest`: `Spec =>
DesiredIsLatest`. `TopIsBest` says besides that a book is kept for just the feeds that
are awaited, on which an `expect` of the code relies (`book.rs:128`). The invariant adds
that what `next()` said last and what the executor's cache holds are the same order,
which is why saying nothing and falling back on the cache is right. That the best of
some prices exists at all follows from the well-foundedness of `<` on the naturals,
turned round at the highest price.

### Refinements

`FillKeyProtocolProofs` and `BinanceRuntimeProofs` prove that both detailed sides keep the
contract between hub and runtime: `ContractKept` and `RuntimeKeepsContract`, each
`Spec => KeepsContract`, by `Init` and one case per action; what the venue does, and
every mishap, is a stutter. `FillsDelivered` is
`LastStage = "acquisition" => (Spec => DeliversFills)`: the numbers of the fills due to a
position are those under way to it in three queues, the runtime's channel, the
hub's hand and the position's channel. That it takes the earliest one due is why the
proof needs `InOrder`: keys rise along a channel, and what the hub holds comes after
all of its receiver's channel and before all the hub has yet to receive. The
abstract specification has a set of numbers where the code has queues, so that
the refinement is a statement about membership rather than about filtered sequences.

### The runtime

`BinanceRuntimeProofs` proves, from `BinanceAssumption`:

* `ShapesAndNames`: types, and that a name occurs once in each list and an entry
  bears the name of its order.
* `NoExecutionToldTwiceTheorem`: `Spec => NoExecutionToldTwice`. The invariant,
  `HistoryInv`, says that as long as no entry was mixed up each entry the poller may
  still look at, in the runtime's list or in the poller's own stale copy of it,
  has written down exactly what was last told of its order, and that answers
  under way say at least that and at most what the venue has.
* `OpenOrdersTrackedTheorem`: `Spec => []OpenOrdersTracked`. `TrackedInv` adds what the
  close loop has achieved at each of its awaits (`ClosesAll`), and that a fill by
  which an order leaves the list is told once, while the order is there
  (`LeavesOnce`): since an order leaves by *name*, a second such fill would take
  the order posted under that name since. These parts hold while the only
  mishap was a dropped report; the other ones (a close loop that gave up, a post
  taken as failed, a mixed-up entry) are the premises `OpenOrdersTracked` names.

### The chase over web socket

`WsChaseLimitProofs` proves, from `ChaseAssumption`, `NeverOverstatesTheorem`,
`NoOverfill` and `FilledMeansDoneTheorem`, each an invariant of the run `ChaseAll`.
`WsChaseInv` adds that every report under way, and what the client took from one, is
*backed* by an order of the venue that has executed as much, and that before expiry, and
without an error, there is one place for the client's order to be: with the client, in a
request, in a rejection under way, or on the venue. The second part is why a rejection
may place anew without a second order. The client stops once it knows of all but the
tolerance, so `FilledMeansDone` says that as much was executed, and without an error
that no more than the target was, and no order may execute more than the tolerance yet;
that none is left open is `NothingLeftOpen`, which fails. What was executed is a set of
units (order, n-th unit), so that `Executed` is a cardinality and not a sum.

### Protocols

`ProtocolsProofs` proves, from `ProtocolsAssumption`, `ToldIsWantedTheorem`:
`Spec => []ToldIsWanted` and `StopsLoosenOnlyWhenHitTheorem`:
`Spec => StopsLoosenOnlyWhenHit`. `ProtocolsInv` says that the last order of a protocol
in the shared channel, or else the one the position knows, is the last the protocol
sent (`Heard`), that it sent what it wants or is about to (`SaysWhatItWants`), and
that a SAR is never beyond the extreme of its trend (`StopFollows`), without which
a step towards the extreme could loosen the stop.

### Routing commands

`RoutingCommandsProofs` proves, from `RoutingAssumption`, for any number of commands and
runs of the daemon: `AppliesInOrderOnceTheorem`, `HandlesAllInOrderTheorem`,
`ListensToAllAssetsTheorem` and `WeakDelYieldsTheorem`. A command passes from the stream
through the subscriber's hand and the queue to the batch and the applied ones.
`RoutingInv` says that numbers rise along each of these and from each to the next
(`Order`, always, which is why nothing is applied twice wherever the `select!` drops
`next()`), that none is missing in between as long as nothing was dropped (`NoGap`),
that a batch is left in hand only with a New at its head that waits for its book, and
that an asset with a limit is listened to or is dirty (`Listens`). `WeakDelYields` then
follows from what one batch does: a limit that goes was deleted by a command among the
newly applied, and if that Del is weak no later adjustment of the limit was taken with
it.

### Sums and step-by-step computations

What a position buys, an allocation places and a search for moves finds are defined
by recursive functions, over sequences of any length. The library's induction
theorems take an operator, which the provers here cannot instantiate; `QuantitiesProofs`
therefore states induction for *sets* (`Induction`: a set that holds 0 and with each
number its successor up to n holds them all), from the least number that is missing.
`Recursion` then gives every step-by-step computation its result, from which follow
what a sum is (`PartialSums`, `SumIs`), what one more term, a term less, or a changed
term does to it, that sums are monotone, and that the weights 1..n add up to (n+1)n/2.

### Positions

From `PositionAssumption` (any finite set of protocols, any updates of theirs, any
positive target, minimum and step) and `WholeAssumption`:

* `NeverOverbuys`: `Spec => []NoOverbuy`,
* `BooksAreTrue`: `Spec => []BooksNeverUnderstate`,
* `RequestsStayWithinLeft`: `Spec => []RequestWithinLeft`,

from `PositionInvariant`, `Spec => []PositionInv`. `NoOverbuy` is `bought <= Target +
behind`. A batch is computed from what was reported, so what no report had told when it
was posted is bought beyond what it left room for, and so is what orders execute that
were left open then or have been forgotten since; `behind` is their sum, anew with each
batch, and 0 as long as what was executed had been reported, every order was closed and
every answer arrived. That nothing else is bought too much, by stale requests or by
fills that cross them, is the theorem. `BooksNeverUnderstate` says where what was bought
is: counted, in the position's channel, polled and about to be reported, about to be
polled, or `lost`, executed by an order the runtime no longer asks about. What was
polled of a replaced order still reaches the position, under a newer key.

`NoOverbuy` is not inductive, nor is it together with the books. What the venue has
executed can only be bounded by what it may *still* execute, so the cap is on the sum of
both (`Capped`); a new batch keeps it only if its request asks for no more than is left,
now (`RequestFits`). A request is computed before fills that are still under way, and is
deployed only under the key of the last report; so `KeysInOrder` says that the keys of
the waiting fills count up from the position's to the runtime's: a current request then
implies that no fill is waiting and that the position has counted all that was reported.
`DeployInv` has to do with every way a replacement can go: how far the close loop came,
whether it gave up, and which posts were refused or went unanswered; whatever it left
moves to `astray` and `lost`. `ReportInv` has to do with a late report of a replaced
order that takes the order of the same name off the list (`RemainingIs`). That the books
stay in step needs that a fill has a protocol and slot to be added to
(`FillsHaveSlots`), in what was polled, in the deployed orders and in the request as
well. That `Selection` keeps every request within what is left holds for whatever order
the hash maps give, and although an order beyond what is left gets a negative quantity:
once the rest is used up no later order has a positive one.

### Allocation

`AllocationIsRight` is `AlgorithmsSpec => []MatchesDefinition`, for any number of slots,
percentages, fills, minima and notionals (`AllocationInputs`: naturals, or integers for
the notionals). The turns of the code's `filter_map` carry what is left and the
percentage inherited; the proof shows by induction over the turns that they
are what the definition says of the orders placed before, and that the percentages
still to come and the inherited one never make up more than the whole, whence the
orders fit in what is left.

### Sizing

`LossAtStop` is `AlgorithmsSpec => []LossAtStopBounded`, `LayersOnlyLower` is
`AlgorithmsSpec => []LayersStepDown`, and `MovesAreMeasured` is
`AlgorithmsSpec => []EmaOfMoves`. They assume, beside `RiskSizingAssumption`:

* `SizingInputs`: a balance is at most 100000000 units, so that `Magnitude` has the scale
  of every size, and a bias at most 100 percent, as `PercentU` enforces;
* `NoHalfTiers`: no proximity of a stop shifts by exactly half a tier. `mul_criterion` is
  algebraic, and the logarithm of an algebraic number other than 1 is
  transcendental. Without it rounding half away from zero could turn a step of one
  tier into two or none;
* `MovesInputs`: prices are integers and there is at least one.

`LossAtStop` rests on `RoundsWithin`: the closest of the candidates is at most half a
percent above the size, since the finest scale is a hundredth of the magnitude.
`LayersOnlyLower` rests on `SizesFall`: a tier lower at least halves the size, and
rounding, which can enlarge the lower size and shrink the higher one, cannot make up for
that. `MovesAreMeasured` carries through every request that the times found add up to
the time since the earliest (`Tallied`): a kline is looked at only if it opened no later
than that, by the request's range, and each answer is scanned from the newest. The
average is a weighted one, by the position of a time; that it lies among the times
compares both weighted sums with those of a constant.

### Not proved

Liveness needs fairness and `ENABLED`, which are out of the prover's reach; TLC checks
it on the instances of section 3: `EventuallySettled`, `DeliversFillsEventually`,
`RuntimeKeepsServing`, `EveryExecutionReported`, `BuysIfMarketFills`, `Returns` (of both
chases), `TellsOrEnds` and `AppliesEventually`. Every other property of a passing run is
a theorem, with the premises its text names: `NeverStuckBehind`, `DeliversFills` and
`HubOutlivesPositions` for positions that only acquire, as in their runs.

## 5. Where code and documentation disagree

One run ends in a violation, with its `findings` entry: `FillKeyFollowup`. More
statements of the sources are written down as definitions without a run of their
own. To see one refuted, put it under `INVARIANT` (or `PROPERTY`) in a copy of the
named configuration:

| Definition | Statement | How it fails |
|---|---|---|
| `AcceptedAllUpToDate`, FillKeyTwo | `docs/ARCHITECTURE.md:174`, requests are based on up-to-date knowledge | the hub checks the asker's key only; other positions' stored orders go along under the newest key |
| `CloseLoopBreaksNaturally`, BinanceTwo | `mod.rs:570` "Always will break naturally" | an order that has filled cannot be closed, and its removal waits for the loop |
| `PollerLivesWithRuntime`, BinanceTwo | `mod.rs:183`, the poller is a task of the runtime and lives with it | it indexes a list that was replaced during its await (`mod.rs:215`) and panics under the lock |
| `CompletesIfMarketFills`, PositionMixed | `protocols/mod.rs:160` controlled less filled is distributed | a fill is subtracted from the target and again from the protocol's share, so that what is left is not asked for |
| `FilledIsBought`, PositionMixed | `positions.rs:102` "Filled" | reports are cumulative per order, and are added up |
| `RestIgnored`, PositionMixed; `ClosestChosen`, PositionMixed with `Target = 8` | `positions.rs:263` "choose the closest ones, ignoring the rest" | the rest is requested with zero or a negative quantity; the farthest stop comes first |
| `OthersStayInPlay`, PositionMixed | `protocols/mod.rs:152` leftovers are redistributed | one protocol's leftovers end the loop over its type |
| `InactiveSlotsAccepted`, PositionMixed with `Updates <- SlotUpdates` | `docs/spec/protocol.md:15` inactive orders are `None` | minima are indexed by slot though there is one per symbol |
| `InPlayPlacesSomething`, AlgorithmsAll | `protocols/mod.rs:151` "None -> protocol is in play" | with every share below its minimum it is in play and places nothing |
| `MarketFillsRemaining`, ChaseAll with `Troubled = FALSE` | `ws_chase_limit.rs:7` "market-fills remaining quantity" | a fill whose report is under way is bought again |
| `OneLimitOrder`, `ReturnsWhatWasFilled`, ChaseAll | `ws_chase_limit.rs:4`, `:577` | a rejection or an error places anew; reports overwrite each other |
| `NothingLeftOpen`, ChaseAll | `ws_chase_limit.rs:550` "Order fully filled" | all but the tolerance is: the rest of the order stays open |
| `OneOrderAtWork`, ChaseHttpAll | `chase_limit.rs:15` "a single limit order for the full quantity" that it "cancels and replaces" | the cancels are sent through `place_order` (`:75`, `:157`) and close nothing |
| `NeverOverfills`, ChaseHttpAll | `chase_limit.rs:79` "The exchange will only fill what's remaining unfilled" | each replacement and the market order at the end are for the full quantity, whatever was filled, and those they replace stay open |
| `SurvivesTrendChange`, ProtocolsAll | `docs/spec/protocol.md:15` "Orders not currently active MUST be represented as `None`, not omitted" | a Sar whose only slot is `None` panics in `ProtocolOrders::new` |
| `ProtocolsAreEndless`, ProtocolsAll | `positions.rs:98` "All protocols are endless" | a closed socket ends the trailing stop's task, a panic any |
| `TopOfSubscribed`, BooksAll | `book.rs:25` "Best bid/ask across every subscribed feed" | a feed that fails is removed without publishing (`:143`) |
| `NothingInherited`, RoutingAll | `redis_bus.rs:32` "so we don't inherit pending messages from dead consumers" | the new group starts at id 0 |

What the reading found beside these, without a definition of its own:

* `hub.rs:159`, `positions.rs:206`: hub and position can come to wait for each other for
  ever, each with a full channel (`MutualWait`, see section 3). No document speaks of
  it.
* `sar.rs:149-154`: the branch for a reversal is dead for a kline that just moved the
  stop, since the stop was clamped to that kline before.
* `positions.rs:143`, `:153`: the followup hands the position's own side to the
  recalculation although its orders close it.
* `risk_layers/from_phone.rs`, `lost_last_trade.rs`: "Steps down 1 tier" holds unless
  the proximity of a slow stop or an end of the scale absorbs it (`LayersStepDown` has
  that premise). Quality T, "uses exchange min size" (`lib.rs:39`), becomes tier H, with
  a size, when the stop is slow.
* `stop_loss_proximity.rs:17`, `:29-34`: the range and the table given for the
  multiplier are exceeded at both ends.
* `discretionary_engine_risk/src/lib.rs:237`: "1234.5 should move towards 1200": it
  moves towards 1230, which the assertion below allows.
* `ema_prev_times_for_same_move`: the oldest move weighs most; an empty answer panics
  before the error for it is returned; a window without a satisfying kline is fetched
  again.

## 6. Not modelled, and why

Parsing, signing, HTTP and settings: pure I/O. `exchange_apis/bybit`,
`approaching_limit`, what follows the `todo!()` in `Executor::tick`: stubs.
`discretionary_engine_exec` names the states of an order, but no code moves an order
from one to another. The strategy crate: a copy of the protocol types and a listener
that only logs. The macros and the vendored scripts: generated and third-party code.
Each component listed in `PROJECT.json` says what of it is covered.

## 7. Plan

In order of importance:

1. Proofs of the steps by which liveness comes about, as action properties: that a
   measure of what is under way falls with each step of hub, position and runtime.
2. A composition of `Protocols` with `Position`, whose updates are constants of its
   instance so far.
3. A composition of `Position` with `Hub` for two stages once the followup keeps
   its callback, with the property `positions.rs:134` asks for.
4. `Executor::tick` and the orders of `discretionary_engine_exec`, once they exist.
