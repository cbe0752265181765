------------------------------ MODULE Position ------------------------------
(***************************************************************************)
(* A position while it acquires or follows up (positions.rs): what it      *)
(* makes of its protocols' orders and of the fills it is told about.  The  *)
(* two stages run the same loop; Target, Side and the order's prices are   *)
(* what differs.  It is the only position of its hub; the hub is here what *)
(* module FillKeyProtocol shows it to be, and the exchange runtime is      *)
(* BinanceRuntime in large steps: it deploys only the request under the    *)
(* key of its last report, gives up on orders it cannot close, and tells   *)
(* how much one order had executed when it was polled.  Of what can go     *)
(* wrong there two things are left out: the poller notes an execution      *)
(* where it belongs (nothing is "misplaced"), and no report is "dropped",  *)
(* since neither the 32 places of the hub's channel nor the position's 256 *)
(* are ever full.                                                          *)
(*                                                                         *)
(* The exchange lists one symbol for the asset (info.rs), and then         *)
(* min_qties_batch answers for one order: a protocol's update must have    *)
(* exactly one slot, with an order in it, as those of all protocols in     *)
(* protocols/ do.  Every other update ends in a panic.                     *)
(***************************************************************************)
EXTENDS Allocation, FiniteSets

CONSTANTS
  Protocols,       \* signatures of the position's protocols
  TypeOf,          \* [Protocols -> ProtocolType]
  Updates,         \* [Protocols -> the slots a protocol may send]
  Side,            \* the side the recalculation is told: "Buy" or "Sell"
  Target,          \* target_coin_quantity, or the notional acquired
  MinQty,          \* min_qty_any_ordertype
  MaxUpdates,      \* bound: updates by all protocols
  MaxFaults,       \* bound: replacements in which calls to the venue fail
  Step             \* bound: an order is filled whole or in multiples of this

ASSUME PositionAssumption ==
  /\ IsFiniteSet(Protocols)
  /\ TypeOf \in [Protocols -> {"Momentum", "TP", "SL", "StopEntry"}]
  /\ Updates \in [Protocols -> SUBSET (Seq(Slot) \ {<<>>})]
  /\ Side \in {"Buy", "Sell"}
  /\ {Target, MinQty, Step} \subseteq Nat \ {0}
  /\ {MaxUpdates, MaxFaults} \subseteq Nat

VARIABLES
  dyn_info,            \* [protocol -> [slots, fills]]; no slots: None
  executed_notional,
  last_fill_key,
  loop,                \* "running", "completed" or "panicked"
  request,             \* its last request: [key, orders], orders in order
  deployable,          \* the runtime has yet to look at that request
  rx_fills,            \* fills waiting for the position
  updates,             \* number of protocol updates so far
  deployed,            \* the last batch deployed: what became of its orders
  astray,              \* what orders the runtime has forgotten may still execute
  polled,              \* polled executions the runtime has yet to report
  last_reported,       \* key of the runtime's last report
  faults,              \* number of replacements in which calls failed
  bought,              \* history: executed on the venue
  behind,              \* history: what forgotten orders execute, see Deploy
  lost                 \* history: executed, and never to be told

positionVars == <<dyn_info, executed_notional, last_fill_key, loop, request, updates>>
runtimeVars == <<deployed, astray, polled, last_reported, faults, bought, behind, lost>>
vars == <<positionVars, deployable, rx_fills, runtimeVars>>

NoInfo == [slots |-> <<>>, fills |-> <<>>]

Init ==
  /\ dyn_info = [p \in Protocols |-> NoInfo]
  /\ executed_notional = 0 /\ last_fill_key = 0
  /\ loop = "running" /\ request = [key |-> 0, orders |-> <<>>] /\ deployable = FALSE
  /\ rx_fills = <<>> /\ updates = 0
  /\ deployed = <<>> /\ astray = 0 /\ polled = <<>> /\ last_reported = 0 /\ faults = 0
  /\ bought = 0 /\ behind = 0 /\ lost = 0

-----------------------------------------------------------------------------
(***************************************************************************)
(* recalculate_protocol_orders.                                            *)
(***************************************************************************)
OfType(t) == {p \in Protocols : TypeOf[p] = t}

\* dyn_info is a hash map of hash maps: types, and protocols within a type,
\* come in any order.
Iterations ==
  {s \in SetToSeqs(Protocols) :
     \A l, m, n \in DOMAIN s :
       l < m /\ m < n /\ TypeOf[s[l]] = TypeOf[s[n]] => TypeOf[s[m]] = TypeOf[s[n]]}

Precedes(iteration, p, q) ==
  \E m, n \in DOMAIN iteration : m < n /\ iteration[m] = p /\ iteration[n] = q

Controlled(t, left) == left \div Cardinality(OfType(t))

AllocationOf(p, info, left) ==
  RecalculateAllocation(info[p].slots, info[p].fills, [o \in DOMAIN info[p].slots |-> MinQty],
                        Controlled(TypeOf[p], left), MinQty)

InPlay(p, info, left) == info[p] # NoInfo => AllocationOf(p, info, left).in_play

\* The loop over a type ends with the first protocol that has leftovers, and
\* goes past those that have not sent orders yet.
Reached(iteration, info, left) ==
  {p \in Protocols :
     /\ info[p] # NoInfo
     /\ \A q \in OfType(TypeOf[p]) : Precedes(iteration, q, p) => InPlay(q, info, left)}

\* Anything but one slot with an order in it fails an assertion, or runs past
\* the end of what compile_min_trade_qties returns.
Panics(iteration, info, left) ==
  \E p \in Reached(iteration, info, left) :
    \/ Len(info[p].slots) # 1 \/ Len(info[p].fills) # 1
    \/ info[p].slots[1] = Inactive

OrderOf(p, info, left) ==
  [protocol |-> p, ordinal |-> 1, kind |-> info[p].slots[1].kind, price |-> info[p].slots[1].price,
   qty |-> AllocationOf(p, info, left).placed[1]]

Allocated(iteration, info, left) ==
  {p \in Reached(iteration, info, left) : OrderOf(p, info, left).qty # NotPlaced}

\* Market orders come first; stops by falling price for a Buy and by rising price
\* for a Sell, in a stable sort.  (Limits are not modelled: the hub panics on them.)
ComesFirst(iteration, a, b) ==
  LET farther(c, d) ==
        c.kind = "StopMarket" /\ IF Side = "Buy" THEN c.price > d.price ELSE c.price < d.price
  IN IF a.kind # b.kind THEN a.kind = "Market"
     ELSE \/ farther(a, b)
          \/ ~farther(b, a) /\ Precedes(iteration, a.protocol, b.protocol)

\* The orders in the order in which they are chosen from: there is one for each
\* iteration.
Rankings(iteration, info, left) ==
  LET order(p) == OrderOf(p, info, left)
  IN {[n \in DOMAIN s |-> order(s[n])] :
        s \in {t \in SetToSeqs(Allocated(iteration, info, left)) :
                 \A m, n \in DOMAIN t : m < n => ComesFirst(iteration, order(t[m]), order(t[n]))}}

Uncapped(orders, left) == orders  \* MUTANT of Selection

\* update_order_selection, of the stops with what the market orders leave: an
\* order takes what is left, and what it wanted is subtracted all the same.
Selection(orders, left) ==
  LET rest(n) == left - SumOf([m \in 1..(n - 1) |-> orders[m].qty])
  IN [n \in DOMAIN orders |->
        [orders[n] EXCEPT !.qty = IF @ > rest(n) THEN rest(n) ELSE @]]

-----------------------------------------------------------------------------
(***************************************************************************)
(* The loop of do_acquisition and do_followup.                             *)
(***************************************************************************)
Ask(info, executed, key) ==
  LET left == Target - executed
  IN \E iteration \in Iterations :
       IF Panics(iteration, info, left)
       THEN loop' = "panicked" /\ UNCHANGED <<request, deployable>>
       ELSE /\ \E orders \in Rankings(iteration, info, left) :
                 request' = [key |-> key, orders |-> Selection(orders, left)]
            /\ deployable' = TRUE
            /\ UNCHANGED loop

WithOrders(p, slots) ==
  [dyn_info EXCEPT ![p].slots = slots,
                   ![p].fills = IF dyn_info[p] = NoInfo THEN [o \in DOMAIN slots |-> 0] ELSE @]

ReceiveProtocolOrders(p) ==
  /\ loop = "running"
  /\ updates < MaxUpdates
  /\ updates' = updates + 1
  /\ \E slots \in Updates[p] : dyn_info' = WithOrders(p, slots)
  /\ Ask(dyn_info', executed_notional, last_fill_key)
  /\ UNCHANGED <<executed_notional, last_fill_key, rx_fills, runtimeVars>>

LastFillOnly(f) == f.qty  \* MUTANT of ExecutedWith: assigned, not added

ExecutedWith(f) == executed_notional + f.qty

WithFill(f) == [dyn_info EXCEPT ![f.protocol].fills[f.ordinal] = @ + f.qty]

NothingSuffices(executed) == executed > Target  \* MUTANT of Sufficient

Sufficient(executed) == executed > Target - MinQty

ReceiveProtocolFills ==
  /\ loop = "running"
  /\ rx_fills # <<>>
  /\ rx_fills' = Tail(rx_fills)
  /\ LET f == Head(rx_fills)
     IN /\ last_fill_key' = f.key
        /\ executed_notional' = ExecutedWith(f)
        /\ dyn_info' = WithFill(f)
        /\ IF Sufficient(executed_notional')
           THEN loop' = "completed" /\ UNCHANGED <<request, deployable>>
           ELSE Ask(dyn_info', executed_notional', f.key)
  /\ UNCHANGED <<updates, runtimeVars>>

-----------------------------------------------------------------------------
(***************************************************************************)
(* Hub, exchange runtime and market.                                       *)
(***************************************************************************)
Untold(orders) == SumOf([n \in DOMAIN orders |-> orders[n].executed - orders[n].told])
Open(orders) == SumOf([n \in DOMAIN orders |-> orders[n].qty - orders[n].executed])
Queued(fills) == SumOf([n \in DOMAIN fills |-> fills[n].qty])

AnyRequest == TRUE  \* MUTANT of Current: no key check

Current == request.key = last_reported

Filled(d) == d.executed = d.qty

\* close_orders has cancelled the listed orders among the first c and stopped at
\* the next, which is filled already (-2011) or whose call failed.  No later
\* attempt gets farther: the first order is filled or cancelled by now, and the
\* list does not change before the close loop gives up.
ClosedUpTo(c, faulty) ==
  /\ \A n \in 1..c : deployed[n].listed => ~Filled(deployed[n])
  /\ \/ c = Len(deployed)
     \/ c < Len(deployed) /\ deployed[c + 1].listed /\ (faulty \/ Filled(deployed[c + 1]))

\* "Error posting order": it was refused, or placed and the answer lost.
Fates(faulty) ==
  [DOMAIN request.orders -> IF faulty THEN {"posted", "refused", "unanswered"} ELSE {"posted"}]

\* The venue refuses an order without a positive quantity.
Wanted(r) == IF r.qty > 0 THEN r.qty ELSE 0

Posted(r, fate) ==
  LET qty == IF fate = "posted" THEN Wanted(r) ELSE 0
  IN [protocol |-> r.protocol, ordinal |-> r.ordinal, qty |-> qty,
      executed |-> 0, told |-> 0, listed |-> qty > 0]

Unanswered(fates) ==
  SumOf([n \in DOMAIN fates |-> IF fates[n] = "unanswered" THEN Wanted(request.orders[n]) ELSE 0])

Reported == executed_notional + Queued(rx_fills)

\* A current batch replaces the deployed orders, closed or not.  From then on
\* "behind" counts what the batch was not reduced by: all that was executed
\* and not reported, and whatever orders left open or forgotten execute.  What
\* was polled before is reported later; a poll of a replaced order by a pass
\* that had copied it comes before all polls of the new batch, and counts here
\* as one before the replacement.
Deploy ==
  /\ deployable
  /\ deployable' = FALSE
  /\ IF Current
     THEN \E c \in 0..Len(deployed), faulty \in {f \in BOOLEAN : f => faults < MaxFaults} :
            \E fates \in Fates(faulty) :
              /\ ClosedUpTo(c, faulty)
              /\ deployed' = [n \in DOMAIN request.orders |-> Posted(request.orders[n], fates[n])]
              /\ astray' = astray + Open(SubSeq(deployed, c + 1, Len(deployed))) + Unanswered(fates)
              /\ lost' = lost + Untold(deployed)
              /\ behind' = IF bought > Reported THEN bought - Reported ELSE 0
              /\ faults' = IF faulty THEN faults + 1 ELSE faults
     ELSE UNCHANGED <<deployed, astray, lost, behind, faults>>
  /\ UNCHANGED <<positionVars, rx_fills, polled, last_reported, bought>>

Portion(e, all) == e % Step = 0 \/ e = all

Execute ==
  /\ \E n \in DOMAIN deployed :
       \E e \in (deployed[n].executed + 1)..deployed[n].qty :
         /\ Portion(e, deployed[n].qty)
         /\ deployed' = [deployed EXCEPT ![n].executed = e]
         /\ bought' = bought + (e - deployed[n].executed)
  /\ UNCHANGED <<positionVars, deployable, rx_fills, astray, polled, last_reported, faults, behind, lost>>

ExecuteAstray ==
  /\ \E e \in 1..astray :
       /\ Portion(e, astray)
       /\ astray' = astray - e
       /\ bought' = bought + e /\ behind' = behind + e /\ lost' = lost + e
  /\ UNCHANGED <<positionVars, deployable, rx_fills, deployed, polled, last_reported, faults>>

\* The poller asks for executed_qty: all the order has executed so far.
Poll ==
  /\ \E n \in DOMAIN deployed :
       LET d == deployed[n]
       IN /\ d.listed /\ d.executed # d.told
          /\ polled' = Append(polled, [protocol |-> d.protocol, ordinal |-> d.ordinal,
                                       qty |-> d.executed, filled |-> Filled(d)])
          /\ deployed' = [deployed EXCEPT ![n].told = d.executed]
  /\ UNCHANGED <<positionVars, deployable, rx_fills, astray, last_reported, faults, bought, behind, lost>>

Unlisted(d) == [d EXCEPT !.qty = d.executed, !.told = d.executed, !.listed = FALSE]

\* The order of that name leaves the list: an order of the last batch even when
\* the fill is a replaced one's; it is open then, and forgotten.
Remaining(f) ==
  [n \in DOMAIN deployed |->
     IF f.filled /\ deployed[n].protocol = f.protocol /\ deployed[n].ordinal = f.ordinal
     THEN Unlisted(deployed[n]) ELSE deployed[n]]

Report ==
  /\ polled # <<>>
  /\ polled' = Tail(polled)
  /\ LET f == Head(polled)
     IN /\ deployed' = Remaining(f)
        /\ rx_fills' = Append(rx_fills, [key |-> last_reported + 1, protocol |-> f.protocol,
                                         ordinal |-> f.ordinal, qty |-> f.qty])
  /\ last_reported' = last_reported + 1
  /\ astray' = astray + (Open(deployed) - Open(deployed'))
  /\ lost' = lost + (Untold(deployed) - Untold(deployed'))
  /\ UNCHANGED <<positionVars, deployable, faults, bought, behind>>

Next ==
  \/ \E p \in Protocols : ReceiveProtocolOrders(p)
  \/ ReceiveProtocolFills
  \/ Deploy \/ Execute \/ ExecuteAstray \/ Poll \/ Report

Spec == Init /\ [][Next]_vars

FillWaits == loop = "running" /\ rx_fills # <<>>
Unheard(p) == loop = "running" /\ updates < MaxUpdates /\ dyn_info[p] = NoInfo

\* The loop and the runtime keep running, every protocol sends its first orders,
\* and the runtime polls.  What the market does is no one's promise.  (The first
\* two are weak fairness with the actions' guards for their ENABLED, which TLC
\* takes very long over.)
Fairness ==
  /\ []<>~FillWaits \/ []<><<ReceiveProtocolFills>>_vars
  /\ \A p \in Protocols :
       []<>~Unheard(p) \/ []<><<Unheard(p) /\ ReceiveProtocolOrders(p)>>_vars
  /\ WF_vars(Deploy)
  /\ WF_vars(Poll)
  /\ WF_vars(Report)

FairSpec == Spec /\ Fairness

-----------------------------------------------------------------------------
(***************************************************************************)
(* Properties.                                                             *)
(***************************************************************************)
Orders ==
  [protocol : Protocols, ordinal : {1}, kind : {"Market", "StopMarket"}, price : Nat, qty : Int]
Fills == [key : Nat, protocol : Protocols, ordinal : {1}, qty : Nat]
PolledFills == [protocol : Protocols, ordinal : {1}, qty : Nat, filled : BOOLEAN]
Deployments ==
  [protocol : Protocols, ordinal : {1}, qty : Nat, executed : Nat, told : Nat, listed : BOOLEAN]

TypeOK ==
  /\ dyn_info \in [Protocols -> [slots : Seq(Slot), fills : Seq(Nat)]]
  /\ {executed_notional, updates, astray, faults, bought, behind, lost} \subseteq Nat
  /\ request.key \in 0..last_fill_key /\ last_fill_key \in 0..last_reported
  /\ loop \in {"running", "completed", "panicked"} /\ deployable \in BOOLEAN
  /\ request.orders \in Seq(Orders) /\ rx_fills \in Seq(Fills) /\ polled \in Seq(PolledFills)
  /\ deployed \in Seq(Deployments)
  /\ \A n \in DOMAIN deployed :
       deployed[n].told <= deployed[n].executed /\ deployed[n].executed <= deployed[n].qty

\* The position never comes to hold more than it was to acquire, except what
\* its last batch could not be reduced by, because no report had told it: a
\* stale request is not deployed.
NoOverbuy == bought <= Target + behind

Asked(orders) == SumOf([n \in DOMAIN orders |-> Wanted(orders[n])])

\* What is requested, over all protocols and types, is no more than what is left.
RequestWithinLeft == loop = "running" => Asked(request.orders) <= Target - executed_notional

\* The state keeps its shape.  What was bought is known to the position, on its
\* way to it (under a newer key than its order's, it may be), about to be
\* polled, or lost with an order the runtime forgot: the position never believes
\* to hold less than it was told.
BooksNeverUnderstate ==
  /\ TypeOK
  /\ bought <= Reported + Queued(polled) + Untold(deployed) + lost

\* If the market keeps executing what is deployed, the position completes, or
\* learns of something but not all: no race between updates, fills, requests and
\* orders that cannot be closed leaves it without an order for the whole or
\* without word of it, as long as no call to the venue fails.
BuysIfMarketFills ==
  WF_vars(Execute) =>
    <>(loop = "completed" \/ executed_notional \in 1..(Target - 1) \/ faults > 0)

\* protocols/mod.rs:160: a partial fill is followed by orders for the rest, so
\* the position completes if the market keeps executing what is deployed.
CompletesIfMarketFills == WF_vars(Execute) => <>(loop = "completed")

\* positions.rs:102: the quantity logged as "Filled" has been bought.
FilledIsBought == loop = "completed" => executed_notional <= bought

Requested == ToSet(request.orders)

\* positions.rs:263: the position chooses the closest orders, "ignoring the
\* rest": what it asks for is something to execute.
RestIgnored == \A r \in Requested : r.qty > 0

Closer(a, b) == IF Side = "Buy" THEN a.price < b.price ELSE a.price > b.price

\* The same line: of two stops it is the closer that is chosen.
ClosestChosen ==
  \A a, b \in Requested :
    a.kind = "StopMarket" /\ b.kind = "StopMarket" /\ Closer(a, b) /\ b.qty > 0 => a.qty > 0

\* protocols/mod.rs:151-152: one protocol's leftovers go to the others of its
\* type; at least those still in play keep their orders.
OthersStayInPlay ==
  loop = "running" =>
    \A p \in Protocols :
      dyn_info[p] # NoInfo /\ InPlay(p, dyn_info, Target - executed_notional) =>
        \E r \in Requested : r.protocol = p

\* docs/spec/protocol.md:15: an inactive order is sent as None.
InactiveSlotsAccepted == loop # "panicked"
=============================================================================
