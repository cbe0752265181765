---------------------------- MODULE WsChaseLimit ----------------------------
(***************************************************************************)
(* execute_ws_chase_limit (ws_chase_limit.rs): one limit order for the     *)
(* whole quantity that is amended to ever better prices, until it is       *)
(* filled or the duration expires; then a cancel and a market order for    *)
(* what remains.                                                           *)
(*                                                                         *)
(* Requests to the venue and its answers are queues: a request is sent     *)
(* without waiting for the answer.  The client has subscribed to order     *)
(* updates only, so no fill reports arrive.  Quantities are integers, and  *)
(* a price is its distance in ticks from the worst one: higher is better   *)
(* for either side.                                                        *)
(*                                                                         *)
(* The venue is environment.  An order link may be used again once no open *)
(* order has it, as the code's retries assume; the quantity of an amend is *)
(* the order's new total; every change of an order is reported.            *)
(***************************************************************************)
EXTENDS Naturals, Sequences, FiniteSets

CONSTANTS
  Target,          \* target_qty, in units of the last decimal of format_qty
  Tolerance,       \* 0.0001 in those units: 0 with steps of 0.001 and more, 1
                   \* with steps of 0.0001, 100 with smaller ones
  Prices,          \* limit prices the market may suggest
  HasDuration,     \* a duration was given
  MaxIterations,   \* the code's cap is 10000
  MaxPending,      \* bound: requests under way at a time
  Troubled         \* sends may fail, answers get lost, and errors arrive

ASSUME ChaseAssumption ==
  /\ {Target, MaxIterations, MaxPending} \subseteq Nat \ {0}
  /\ Prices \subseteq Nat /\ Tolerance \in Nat
  /\ {HasDuration, Troubled} \subseteq BOOLEAN

VARIABLES
  loop,             \* "chasing", "waiting" (for the market order) or "done"
  order_placed,
  last_amend_price,
  filled_qty,
  iteration,
  requests,         \* on their way to the venue
  trade_stream,     \* on their way back
  venue,            \* the orders it accepted, in order
  final,            \* history: quantity of the market order, 0 before it
  mishaps           \* history: "error" arrived, an answer was "lost"

clientVars == <<loop, order_placed, last_amend_price, filled_qty, iteration>>
vars == <<clientVars, requests, trade_stream, venue, final, mishaps>>

Place(price) == [op |-> "place", price |-> price, qty |-> Target]
Amend(price, qty) == [op |-> "amend", price |-> price, qty |-> qty]
CancelOrder == [op |-> "cancel", price |-> 0, qty |-> 0]
MarketOrder(qty) == [op |-> "market", price |-> 0, qty |-> qty]

Status(filled) == [msg |-> "status", filled |-> filled]
OrderRejected == [msg |-> "rejected", filled |-> 0]
TradeError == [msg |-> "error", filled |-> 0]

Init ==
  /\ loop = "chasing" /\ order_placed = TRUE /\ filled_qty = 0 /\ iteration = 1
  /\ last_amend_price \in Prices
  /\ requests = <<Place(last_amend_price)>>
  /\ trade_stream = <<>> /\ venue = <<>>
  /\ final = 0 /\ mishaps = {}

-----------------------------------------------------------------------------
(***************************************************************************)
(* The client.                                                             *)
(***************************************************************************)
ToleratedTwice(filled) == filled + 2 * Tolerance >= Target  \* MUTANT of FullyFilled

FullyFilled(filled) == filled + Tolerance >= Target

NeverCounted == iteration  \* MUTANT of NextIteration

NextIteration == iteration + 1

EndsWhen(full) ==
  /\ iteration' = NextIteration
  /\ loop' = IF full \/ iteration' > MaxIterations + 1 THEN "done" ELSE "chasing"

\* The end of a turn.  What is filled is looked at after a trade message only.
EndTurn == EndsWhen(FALSE)
EndTradeTurn(filled) == EndsWhen(FullyFilled(filled))

Send(r) == requests' = Append(requests, r)
SendFails == Troubled /\ UNCHANGED requests

Better(new, current) == new > current

PlaceAlways == TRUE  \* MUTANT of MustPlace

MustPlace == ~order_placed

OnQuote(price) ==
  /\ loop = "chasing"
  /\ Len(requests) < MaxPending
  /\ \/ /\ MustPlace
        /\ \/ /\ Send(Place(price))
              /\ order_placed' = TRUE
              /\ last_amend_price' = price
           \/ SendFails /\ UNCHANGED <<order_placed, last_amend_price>>
     \/ /\ ~MustPlace
        /\ Better(price, last_amend_price)
        /\ \/ Send(Amend(price, Target - filled_qty)) /\ last_amend_price' = price
           \/ SendFails /\ UNCHANGED last_amend_price
        /\ UNCHANGED order_placed
  /\ EndTurn
  /\ UNCHANGED <<filled_qty, trade_stream, venue, final, mishaps>>

\* A quote that is no better, nothing at all, or a refused amend (a trade message).
NothingToDo ==
  /\ loop = "chasing"
  /\ EndTurn \/ EndTradeTurn(filled_qty)
  /\ UNCHANGED <<order_placed, last_amend_price, filled_qty, requests, trade_stream,
                 venue, final, mishaps>>

AddedUp(report) == filled_qty + report.filled  \* MUTANT of Known

\* What the client knows to be filled is what the last report on any of its
\* orders says of that order.
Known(report) == report.filled

Receive(msg) ==
  /\ trade_stream # <<>>
  /\ Head(trade_stream).msg = msg
  /\ trade_stream' = Tail(trade_stream)
  /\ UNCHANGED <<last_amend_price, requests, venue, final, mishaps>>

OnOrderStatus ==
  /\ loop = "chasing"
  /\ Receive("status")
  /\ filled_qty' = Known(Head(trade_stream))
  /\ EndTradeTurn(filled_qty')
  /\ UNCHANGED order_placed

\* The order was refused (PostOnly), or something went wrong: place it anew
\* with the next quote.
OnOrderRejected ==
  /\ loop = "chasing"
  /\ Receive("rejected") \/ Receive("error")
  /\ order_placed' = FALSE
  /\ EndTradeTurn(filled_qty)
  /\ UNCHANGED filled_qty

\* The duration has expired.  Cancel and market order go out one right after
\* the other.
OnExpiry ==
  /\ HasDuration
  /\ loop = "chasing"
  /\ loop' = "waiting"
  /\ LET cancel == IF order_placed THEN <<CancelOrder>> ELSE <<>>
         market == <<MarketOrder(Target - filled_qty)>>
     IN \/ requests' = requests \o cancel \o market
        \/ Troubled /\ requests' \in {requests \o cancel, requests \o market, requests}
  /\ final' = Target - filled_qty
  /\ UNCHANGED <<order_placed, last_amend_price, filled_qty, iteration, trade_stream, venue, mishaps>>

OnFinalStatus ==
  /\ loop = "waiting"
  /\ \/ Receive("status") /\ filled_qty' = Known(Head(trade_stream))
     \/ Receive("rejected") /\ UNCHANGED filled_qty
     \/ Receive("error") /\ UNCHANGED filled_qty
  /\ loop' = IF FullyFilled(filled_qty') THEN "done" ELSE loop
  /\ UNCHANGED <<order_placed, iteration>>

\* Five seconds are over.
WaitEnds ==
  /\ loop = "waiting"
  /\ loop' = "done"
  /\ UNCHANGED <<order_placed, last_amend_price, filled_qty, iteration, requests,
                 trade_stream, venue, final, mishaps>>

Client ==
  \/ \E price \in Prices : OnQuote(price)
  \/ NothingToDo
  \/ OnOrderStatus
  \/ OnOrderRejected
  \/ OnExpiry
  \/ OnFinalStatus
  \/ WaitEnds

-----------------------------------------------------------------------------
(***************************************************************************)
(* The venue.                                                              *)
(***************************************************************************)
Report(msg) == trade_stream' = Append(trade_stream, msg)

Open(n) == venue[n].kind = "limit" /\ venue[n].status = "open"
OpenOrders == {n \in DOMAIN venue : Open(n)}

Handle(op) ==
  /\ requests # <<>>
  /\ Head(requests).op = op
  /\ requests' = Tail(requests)
  /\ UNCHANGED <<clientVars, final, mishaps>>

AcceptOrder ==
  /\ Handle("place")
  /\ OpenOrders = {}
  /\ venue' = Append(venue, [kind |-> "limit", price |-> Head(requests).price,
                             qty |-> Head(requests).qty, filled |-> 0, status |-> "open"])
  /\ Report(Status(0))

\* The price has become one that takes, or the link is in use.
RejectOrder ==
  /\ Handle("place")
  /\ Report(OrderRejected)
  /\ UNCHANGED venue

AmendOpen ==
  /\ Handle("amend")
  /\ \E n \in OpenOrders :
       /\ Head(requests).qty > venue[n].filled
       /\ venue' = [venue EXCEPT ![n] = [@ EXCEPT !.price = Head(requests).price,
                                                 !.qty = Head(requests).qty]]
       /\ Report(Status(venue[n].filled))

\* Nothing is open, or not with so little left.
RefuseAmend ==
  /\ Handle("amend")
  /\ \A n \in OpenOrders : Head(requests).qty <= venue[n].filled
  /\ UNCHANGED <<venue, trade_stream>>

CancelOpen ==
  /\ Handle("cancel")
  /\ IF OpenOrders = {}
     THEN UNCHANGED <<venue, trade_stream>>
     ELSE \E n \in OpenOrders :
            /\ venue' = [venue EXCEPT ![n].status = "closed"]
            /\ Report(Status(venue[n].filled))

ExecuteMarket ==
  /\ Handle("market")
  /\ \E filled \in 0..Head(requests).qty :
       /\ venue' = Append(venue, [kind |-> "market", price |-> 0, qty |-> Head(requests).qty,
                                  filled |-> filled, status |-> "closed"])
       /\ Report(Status(filled))

FillOpen ==
  /\ \E n \in OpenOrders :
       \E filled \in (venue[n].filled + 1)..venue[n].qty :
         /\ venue' = [venue EXCEPT ![n] =
                        [@ EXCEPT !.filled = filled,
                                  !.status = IF filled = venue[n].qty THEN "closed" ELSE "open"]]
         /\ Report(Status(filled))
  /\ UNCHANGED <<clientVars, requests, final, mishaps>>

LoseAnswer ==
  /\ Troubled
  /\ trade_stream # <<>>
  /\ trade_stream' = Tail(trade_stream)
  /\ mishaps' = mishaps \union {"lost"}
  /\ UNCHANGED <<clientVars, requests, venue, final>>

SendError ==
  /\ Troubled
  /\ "error" \notin mishaps
  /\ Report(TradeError)
  /\ mishaps' = mishaps \union {"error"}
  /\ UNCHANGED <<clientVars, requests, venue, final>>

Venue ==
  \/ AcceptOrder \/ RejectOrder \/ AmendOpen \/ RefuseAmend \/ CancelOpen \/ ExecuteMarket
  \/ FillOpen \/ LoseAnswer \/ SendError

Next == (loop # "done" /\ Client) \/ Venue

Spec == Init /\ [][Next]_vars

\* Every turn of either loop ends: each select! has a sleep among its branches.
\* Nothing is assumed of the venue or the market.
FairSpec == Spec /\ WF_vars(Client)

-----------------------------------------------------------------------------
(***************************************************************************)
(* Properties.                                                             *)
(***************************************************************************)
Requests == [op : {"place", "amend", "market"}, price : Prices \union {0}, qty : 1..Target]
              \union {CancelOrder}
Messages == [msg : {"status"}, filled : 0..Target] \union {OrderRejected, TradeError}
Orders == [kind : {"limit", "market"}, price : Prices \union {0}, qty : 1..Target,
           filled : 0..Target, status : {"open", "closed"}]

\* Every variable keeps its shape, and what is asked for, known or executed of
\* one order stays within the target.
TypeOK ==
  /\ loop \in {"chasing", "waiting", "done"} /\ order_placed \in BOOLEAN
  /\ last_amend_price \in Prices
  /\ filled_qty \in 0..Target /\ final \in 0..Target
  /\ iteration \in 1..(MaxIterations + 2)
  /\ requests \in Seq(Requests)
  /\ trade_stream \in Seq(Messages)
  /\ venue \in Seq(Orders)
  /\ mishaps \subseteq {"error", "lost"}

\* The units executed, by order, and how many these are.
Units == UNION {{n} \X (1..venue[n].filled) : n \in DOMAIN venue}
Executed == Cardinality(Units)

\* The state keeps its shape, and the client never claims more than was executed
\* over all its orders, whatever reports are lost, and whichever they are about.
NeverOverstates == TypeOK /\ filled_qty <= Executed

\* As long as there was no error, the limit orders alone never execute more
\* than the target, although rejections make the client place again.
NoOverfillBeforeExpiry == final = 0 /\ "error" \notin mishaps => Executed <= Target

\* A client that stopped because all was filled is at most the tolerance short of
\* its target, even after an error; without one it has executed no more, and what
\* it leaves open can execute no more than the tolerance.
FilledMeansDone ==
  loop = "done" /\ final = 0 /\ FullyFilled(filled_qty) =>
    /\ Executed + Tolerance >= Target
    /\ "error" \notin mishaps =>
         /\ Executed <= Target
         /\ \A n \in OpenOrders : venue[n].qty <= venue[n].filled + Tolerance

\* The call returns, however the market moves and whatever is lost.
Returns == <>(loop = "done")

\* ws_chase_limit.rs:7: "When duration expires, cancels and market-fills
\* remaining quantity": no more than the target is executed.
MarketFillsRemaining == mishaps = {} => Executed <= Target

\* ws_chase_limit.rs:550: "Order fully filled" ends the chase: nothing is left open.
NothingLeftOpen ==
  loop = "done" /\ final = 0 /\ FullyFilled(filled_qty) /\ mishaps = {} => OpenOrders = {}

\* ws_chase_limit.rs:4: "Places ONE limit order for the full quantity".
OneLimitOrder == Len(SelectSeq(venue, LAMBDA o : o.kind = "limit")) <= 1

\* ws_chase_limit.rs:577: what is returned is the quantity "filled".
ReturnsWhatWasFilled ==
  loop = "done" /\ requests = <<>> /\ trade_stream = <<>> => filled_qty = Executed
=============================================================================
