------------------------------ MODULE ChaseLimit ------------------------------
(***************************************************************************)
(* execute_chase_limit (chase_limit.rs): a limit order for the whole       *)
(* quantity whose cancel is requested and that is placed again whenever    *)
(* the quote moves, until the duration expires, the iterations are used up *)
(* or a request fails.  Each request is awaited, and the market and the    *)
(* venue go on meanwhile: a turn is a step per request.                    *)
(*                                                                         *)
(* Prices count ticks, so that "by more than half a tick" is "different".  *)
(* Links are numbered by iteration, as in the code.  The venue is          *)
(* environment: it fills open orders at will, and refuses to create an     *)
(* order without side, type and quantity.                                  *)
(***************************************************************************)
EXTENDS Integers, Sequences, SequencesExt, FiniteSets

CONSTANTS
  Target,          \* target_qty
  Prices,          \* what the market may quote
  HasDuration,     \* a duration was given
  MaxIterations    \* the code's cap is 10000

ASSUME ChaseLimitAssumption ==
  /\ {Target, MaxIterations} \subseteq Nat \ {0}
  /\ Prices \subseteq Nat \ {0}
  /\ HasDuration \in BOOLEAN

VARIABLES
  loop,                   \* "top", "replacing", "expiring" or "returned"
  side,
  iteration,
  current_order_link_id,  \* 0: None
  last_order_price,       \* 0: None
  limit_price,            \* the price of this turn
  venue,                  \* the limit orders it accepted, in order
  market,                 \* what the market order executed
  moves                   \* history: how often limit_price changed

clientVars == <<loop, side, iteration, current_order_link_id, last_order_price, limit_price>>
vars == <<clientVars, venue, market, moves>>

Init ==
  /\ loop = "top" /\ side \in {"Buy", "Sell"} /\ iteration = 1
  /\ current_order_link_id = 0 /\ last_order_price = 0 /\ limit_price = 0
  /\ venue = <<>> /\ market = 0 /\ moves = 0

-----------------------------------------------------------------------------
\* One tick inside the spread, unless that would cross it.
LimitPrice(bid, ask) ==
  IF side = "Buy"
  THEN IF bid + 1 >= ask THEN bid ELSE bid + 1
  ELSE IF ask - 1 <= bid THEN ask ELSE ask - 1

EveryTurn(price) == TRUE  \* MUTANT of ShouldUpdate

ShouldUpdate(price) == price # last_order_price

NeverReturning == iteration' = iteration /\ loop' = "top"  \* MUTANT of AfterTurn

\* Safety check: don't run forever.
AfterTurn ==
  /\ iteration' = iteration + 1
  /\ loop' = IF iteration > MaxIterations THEN "returned" ELSE "top"

\* MUTANT of CancelCurrent: the cancel is one
CancelCloses ==
  venue' = [n \in DOMAIN venue |->
              IF venue[n].link = current_order_link_id THEN [venue[n] EXCEPT !.open = FALSE]
              ELSE venue[n]]

\* The request to cancel, symbol and link alone, goes out through place_order.
\* It creates no order, it closes none, and its answer is not looked at.
CancelCurrent == UNCHANGED venue

\* The ticker is read, and if the price moved a cancel is sent.
Turn(bid, ask) ==
  /\ loop = "top"
  /\ bid < ask
  /\ LET price == LimitPrice(bid, ask)
     IN /\ limit_price' = price
        /\ moves' = IF price = limit_price THEN moves ELSE moves + 1
        /\ IF ShouldUpdate(price)
           THEN /\ loop' = "replacing"
                /\ CancelCurrent
                /\ UNCHANGED iteration
           ELSE /\ AfterTurn
                /\ UNCHANGED venue
  /\ UNCHANGED <<side, current_order_link_id, last_order_price, market>>

Accept ==
  venue' = Append(venue, [link |-> iteration, price |-> limit_price, filled |-> 0, open |-> TRUE])

PlaceAccepted ==
  /\ loop = "replacing"
  /\ Accept
  /\ current_order_link_id' = iteration
  /\ last_order_price' = limit_price
  /\ AfterTurn
  /\ UNCHANGED <<side, limit_price, market, moves>>

\* PostOnly would cross, or any other return code.
PlaceRefused ==
  /\ loop = "replacing"
  /\ AfterTurn
  /\ UNCHANGED <<side, current_order_link_id, last_order_price, limit_price, venue, market, moves>>

\* The request fails on its way there, or its answer on the way back.
PlaceFails ==
  /\ loop = "replacing"
  /\ loop' = "returned"
  /\ Accept \/ UNCHANGED venue
  /\ UNCHANGED <<side, iteration, current_order_link_id, last_order_price, limit_price, market, moves>>

TickerFails ==
  /\ loop = "top"
  /\ loop' = "returned"
  /\ UNCHANGED <<side, iteration, current_order_link_id, last_order_price, limit_price,
                 venue, market, moves>>

\* The duration is over: the same cancel, then a market order for the full quantity,
\* whatever became of either.
OnExpiry ==
  /\ HasDuration
  /\ loop = "top"
  /\ loop' = "expiring"
  /\ CancelCurrent
  /\ UNCHANGED <<side, iteration, current_order_link_id, last_order_price, limit_price, market, moves>>

FinalMarketOrder ==
  /\ loop = "expiring"
  /\ loop' = "returned"
  /\ market' \in 0..Target
  /\ UNCHANGED <<side, iteration, current_order_link_id, last_order_price, limit_price, venue, moves>>

Client ==
  \/ \E bid, ask \in Prices : Turn(bid, ask)
  \/ PlaceAccepted
  \/ PlaceRefused
  \/ PlaceFails
  \/ TickerFails
  \/ OnExpiry
  \/ FinalMarketOrder

Fill ==
  /\ \E n \in DOMAIN venue :
       /\ venue[n].open
       /\ \E filled \in (venue[n].filled + 1)..Target :
            venue' = [venue EXCEPT ![n].filled = filled, ![n].open = filled < Target]
  /\ UNCHANGED <<clientVars, market, moves>>

Next == Client \/ Fill

Spec == Init /\ [][Next]_vars

\* Every request is answered or fails, and every sleep ends.
FairSpec == Spec /\ WF_vars(Client)

-----------------------------------------------------------------------------
(***************************************************************************)
(* Properties.                                                             *)
(***************************************************************************)
LimitOrder == [link : 1..(MaxIterations + 1), price : Nat, filled : 0..Target, open : BOOLEAN]

TypeOK ==
  /\ loop \in {"top", "replacing", "expiring", "returned"} /\ side \in {"Buy", "Sell"}
  /\ iteration \in 1..(MaxIterations + 2)
  /\ current_order_link_id \in 0..(MaxIterations + 1)
  /\ last_order_price \in Nat /\ limit_price \in Nat
  /\ venue \in Seq(LimitOrder)
  /\ market \in 0..Target /\ moves \in 0..(MaxIterations + 1)

\* Every variable keeps its shape, and the full quantity is sent again only when
\* the quote moved in between ("to avoid unnecessary cancel-replace",
\* chase_limit.rs:139), and never at a price at which it was the last to be
\* accepted.  As no order is ever cancelled this bounds what piles up.
ReplacesOnlyOnMoves ==
  /\ TypeOK
  /\ Len(venue) <= moves
  /\ \A n \in 2..Len(venue) : venue[n].price # venue[n - 1].price

\* chase_limit.rs:193: a turn that is "keeping order at" the last price has it:
\* the order whose link is held is at the quote's price, and open or filled, even
\* if the quote went away and came back and the replacement was refused in
\* between ("will retry next iteration", 188).  It is because no cancel does
\* anything that this holds.
KeepsAnOrderOut ==
  [][loop = "top" /\ loop' = "top" /\ iteration' > iteration =>
       \E n \in DOMAIN venue' :
         /\ venue'[n].link = current_order_link_id' /\ venue'[n].price = limit_price'
         /\ venue'[n].open \/ venue'[n].filled = Target]_vars

\* The call returns whatever the market, the venue and the connection do.
Returns == <>(loop = "returned")

\* chase_limit.rs:15: "places a single limit order for the full quantity and
\* continuously cancels and replaces it".
OneOrderAtWork == Cardinality({n \in DOMAIN venue : venue[n].open}) <= 1

\* chase_limit.rs:79: "The exchange will only fill what's remaining unfilled".
NeverOverfills == FoldSeq(LAMBDA o, sum : o.filled + sum, market, venue) <= Target
=============================================================================
