--------------------------- MODULE ChaseLimitProofs ---------------------------
(***************************************************************************)
(* Proofs about ChaseLimit: for any target, any prices and any number of   *)
(* iterations the quantity is sent again only when the quote moved, and a  *)
(* turn that sends nothing relies on an order that is there.               *)
(***************************************************************************)
EXTENDS ChaseLimit, SequenceTheorems, TLAPS

USE ChaseLimitAssumption

(***************************************************************************)
(* The strengthening.  Orders are open until they are filled; the one whose *)
(* link is held is there, at the last price.  While the loop runs the last *)
(* order accepted is at that price too, and a limit price other than that  *)
(* one is a move not yet answered by an order.                             *)
(***************************************************************************)
OpenTillFilled == \A n \in DOMAIN venue : venue[n].open \/ venue[n].filled = Target

HeldIsThere ==
  last_order_price # 0 =>
    \E n \in DOMAIN venue :
      venue[n].link = current_order_link_id /\ venue[n].price = last_order_price

Running ==
  loop # "returned" =>
    /\ iteration <= MaxIterations + 1
    /\ market = 0
    /\ venue # <<>> => venue[Len(venue)].price = last_order_price
    /\ limit_price # last_order_price => Len(venue) < moves

Replacing == loop = "replacing" => limit_price # last_order_price

MovesCounted == moves <= IF loop \in {"top", "expiring"} THEN iteration - 1 ELSE iteration

ChaseInv ==
  /\ TypeOK
  /\ OpenTillFilled
  /\ HeldIsThere
  /\ Running
  /\ Replacing
  /\ MovesCounted
  /\ ReplacesOnlyOnMoves

\* The quote gives a price, whatever it is.
LEMMA LimitPriceType ==
  ASSUME side \in {"Buy", "Sell"}, NEW bid \in Prices, NEW ask \in Prices, bid < ask
  PROVE  LimitPrice(bid, ask) \in Nat \ {0}
<1>1. bid \in Nat /\ bid # 0 /\ ask \in Nat /\ ask # 0
  OBVIOUS
<1>. QED  BY <1>1, SMT DEF LimitPrice

\* What the invariant says of the orders at the venue it says of any that agree
\* with them in number, links and prices, and are open till filled too.
LEMMA OrdersKept ==
  ASSUME ChaseInv, venue' \in Seq(LimitOrder), Len(venue') = Len(venue),
         \A n \in 1..Len(venue) :
           /\ venue'[n].link = venue[n].link /\ venue'[n].price = venue[n].price
           /\ venue'[n].open \/ venue'[n].filled = Target,
         UNCHANGED <<current_order_link_id, last_order_price>>, moves <= moves', moves' \in Nat
  PROVE  /\ DOMAIN venue' = 1..Len(venue)
         /\ OpenTillFilled' /\ HeldIsThere'
         /\ venue' # <<>> => venue # <<>> /\ venue'[Len(venue')].price = venue[Len(venue)].price
         /\ Len(venue') <= moves' /\ \A n \in 2..Len(venue') : venue'[n].price # venue'[n - 1].price
<1>1. /\ Len(venue) \in Nat /\ DOMAIN venue = 1..Len(venue)
      /\ DOMAIN venue' = 1..Len(venue)
  BY LenProperties DEF ChaseInv, TypeOK
<1>2. OpenTillFilled'
  BY <1>1 DEF OpenTillFilled
<1>3. HeldIsThere'
  BY <1>1 DEF ChaseInv, HeldIsThere
<1>4. venue' # <<>> => venue # <<>> /\ Len(venue) \in 1..Len(venue)
  BY <1>1, EmptySeq DEF ChaseInv, TypeOK
<1>5. Len(venue') <= moves'
  <2>1. Len(venue) <= moves /\ moves \in Nat
    BY DEF ChaseInv, ReplacesOnlyOnMoves, TypeOK
  <2>. QED  BY <1>1, <2>1
<1>6. \A n \in 2..Len(venue') : venue'[n].price # venue'[n - 1].price
  <2>1. \A n \in 2..Len(venue) : n \in 1..Len(venue) /\ n - 1 \in 1..Len(venue)
    BY <1>1
  <2>. QED  BY <2>1 DEF ChaseInv, ReplacesOnlyOnMoves
<1>. QED  BY <1>1, <1>2, <1>3, <1>4, <1>5, <1>6

\* As long as the venue is as it was, so is what the invariant says of it.
LEMMA VenueKept ==
  ASSUME ChaseInv, UNCHANGED <<venue, current_order_link_id, last_order_price>>,
         moves <= moves', moves' \in Nat
  PROVE  /\ OpenTillFilled' /\ HeldIsThere'
         /\ Len(venue') <= moves' /\ \A n \in 2..Len(venue') : venue'[n].price # venue'[n - 1].price
<1>1. DOMAIN venue = 1..Len(venue) /\ venue \in Seq(LimitOrder)
  BY LenProperties DEF ChaseInv, TypeOK
<1>2. /\ venue' \in Seq(LimitOrder) /\ Len(venue') = Len(venue)
      /\ \A n \in 1..Len(venue) :
           /\ venue'[n].link = venue[n].link /\ venue'[n].price = venue[n].price
           /\ venue'[n].open \/ venue'[n].filled = Target
  BY <1>1 DEF ChaseInv, OpenTillFilled
<1>. QED  BY <1>2, OrdersKept

\* One more order, at a price that answers a move, is open and leaves those
\* before it as they are.
LEMMA AcceptAppends ==
  ASSUME ChaseInv, Accept, loop = "replacing", UNCHANGED <<limit_price, moves>>
  PROVE  /\ venue' \in Seq(LimitOrder)
         /\ Len(venue') = Len(venue) + 1 /\ DOMAIN venue' = 1..(Len(venue) + 1)
         /\ Len(venue) \in Nat /\ DOMAIN venue = 1..Len(venue)
         /\ \A n \in 1..Len(venue) : venue'[n] = venue[n]
         /\ venue'[Len(venue) + 1] =
              [link |-> iteration, price |-> limit_price, filled |-> 0, open |-> TRUE]
         /\ OpenTillFilled'
         /\ Len(venue') <= moves' /\ \A n \in 2..Len(venue') : venue'[n].price # venue'[n - 1].price
<1>1. /\ iteration <= MaxIterations + 1 /\ limit_price # last_order_price /\ Len(venue) < moves
      /\ venue # <<>> => venue[Len(venue)].price = last_order_price
  BY DEF ChaseInv, Running, Replacing
<1>2. [link |-> iteration, price |-> limit_price, filled |-> 0, open |-> TRUE] \in LimitOrder
  BY <1>1 DEF ChaseInv, TypeOK, LimitOrder
<1>3. venue \in Seq(LimitOrder)
  BY DEF ChaseInv, TypeOK
<1>4. /\ venue' \in Seq(LimitOrder)
      /\ Len(venue') = Len(venue) + 1
      /\ \A n \in 1..Len(venue) : venue'[n] = venue[n]
      /\ venue'[Len(venue) + 1] =
           [link |-> iteration, price |-> limit_price, filled |-> 0, open |-> TRUE]
  BY <1>2, <1>3, AppendProperties DEF Accept
<1>5. /\ Len(venue) \in Nat /\ DOMAIN venue = 1..Len(venue)
      /\ DOMAIN venue' = 1..(Len(venue) + 1)
  BY <1>3, <1>4, LenProperties
<1>6. OpenTillFilled'
  <2>. SUFFICES ASSUME NEW n \in 1..(Len(venue) + 1)
                PROVE  venue'[n].open \/ venue'[n].filled = Target
    BY <1>5 DEF OpenTillFilled
  <2>1. CASE n \in 1..Len(venue)
    BY <1>4, <1>5, <2>1 DEF ChaseInv, OpenTillFilled
  <2>2. CASE n = Len(venue) + 1
    BY <1>4, <2>2
  <2>. QED  BY <1>5, <2>1, <2>2
<1>7. Len(venue') <= moves'
  BY <1>1, <1>4, <1>5 DEF ChaseInv, TypeOK
<1>8. ASSUME NEW n \in 2..Len(venue')
      PROVE  venue'[n].price # venue'[n - 1].price
  <2>1. CASE n \in 2..Len(venue)
    BY <1>4, <1>5, <2>1 DEF ChaseInv, ReplacesOnlyOnMoves
  <2>2. CASE n = Len(venue) + 1
    <3>1. venue # <<>> /\ Len(venue) \in 1..Len(venue)
      BY <1>4, <1>5, <2>2, EmptySeq
    <3>2. venue'[n].price = limit_price /\ venue'[n - 1] = venue[Len(venue)]
      BY <1>4, <1>5, <2>2, <3>1
    <3>. QED  BY <1>1, <3>1, <3>2
  <2>. QED  BY <1>4, <1>5, <2>1, <2>2
<1>. QED  BY <1>4, <1>5, <1>6, <1>7, <1>8

-----------------------------------------------------------------------------
(***************************************************************************)
(* One lemma per step of the client that asks for something, and one for   *)
(* the venue.                                                              *)
(***************************************************************************)
LEMMA TurnKeeps ==
  ASSUME ChaseInv, NEW bid \in Prices, NEW ask \in Prices, Turn(bid, ask)
  PROVE  ChaseInv'
<1>. DEFINE price == LimitPrice(bid, ask)
<1>1. price \in Nat
  BY LimitPriceType DEF ChaseInv, TypeOK, Turn
<1>2. Len(venue) \in Nat /\ moves \in Nat
  BY LenProperties DEF ChaseInv, TypeOK
<1>3. moves <= iteration - 1 /\ iteration <= MaxIterations + 1 /\ loop = "top" /\ iteration \in Nat
  BY DEF ChaseInv, TypeOK, MovesCounted, Running, Turn
<1>4. /\ limit_price' = price
      /\ moves' = IF price = limit_price THEN moves ELSE moves + 1
      /\ UNCHANGED <<venue, side, current_order_link_id, last_order_price, market>>
  BY DEF Turn, CancelCurrent
<1>. HIDE DEF price
<1>5. price # last_order_price => Len(venue) < moves'
  BY <1>1, <1>2, <1>3, <1>4 DEF ChaseInv, Running, ReplacesOnlyOnMoves
<1>6. moves <= moves' /\ moves' \in Nat
  BY <1>2, <1>4
<1>7. /\ OpenTillFilled' /\ HeldIsThere'
      /\ Len(venue') <= moves' /\ \A n \in 2..Len(venue') : venue'[n].price # venue'[n - 1].price
  BY <1>4, <1>6, VenueKept
<1>8. CASE price # last_order_price
  <2>1. loop' = "replacing" /\ UNCHANGED iteration
    BY <1>8 DEF Turn, ShouldUpdate, price
  <2>2. TypeOK'
    BY <1>1, <1>3, <1>4, <2>1 DEF ChaseInv, TypeOK
  <2>3. Running' /\ Replacing' /\ MovesCounted'
    BY <1>3, <1>4, <1>5, <1>8, <2>1 DEF ChaseInv, Running, Replacing, MovesCounted, TypeOK
  <2>. QED  BY <1>7, <2>2, <2>3 DEF ChaseInv, ReplacesOnlyOnMoves
<1>9. CASE price = last_order_price
  <2>1. AfterTurn
    BY <1>9 DEF Turn, ShouldUpdate, price
  <2>2. TypeOK'
    BY <1>1, <1>3, <1>4, <2>1 DEF ChaseInv, TypeOK, AfterTurn
  <2>3. Running' /\ Replacing' /\ MovesCounted'
    BY <1>3, <1>4, <1>9, <2>1 DEF ChaseInv, Running, Replacing, MovesCounted, AfterTurn, TypeOK
  <2>. QED  BY <1>7, <2>2, <2>3 DEF ChaseInv, ReplacesOnlyOnMoves
<1>. QED  BY <1>8, <1>9

\* A replacement the venue takes is the order the client then holds.
LEMMA PlaceAcceptedKeeps ==
  ASSUME ChaseInv, PlaceAccepted
  PROVE  ChaseInv'
<1>1. /\ iteration <= MaxIterations + 1 /\ loop = "replacing" /\ market = 0 /\ moves <= iteration
  BY DEF ChaseInv, MovesCounted, Running, PlaceAccepted
<1>2. Accept /\ AfterTurn /\ current_order_link_id' = iteration
      /\ last_order_price' = limit_price /\ UNCHANGED <<side, limit_price, market, moves>>
  BY DEF PlaceAccepted
<1>3. /\ venue' \in Seq(LimitOrder)
      /\ Len(venue') = Len(venue) + 1 /\ DOMAIN venue' = 1..(Len(venue) + 1)
      /\ Len(venue) \in Nat
      /\ venue'[Len(venue) + 1] =
           [link |-> iteration, price |-> limit_price, filled |-> 0, open |-> TRUE]
      /\ OpenTillFilled'
      /\ Len(venue') <= moves' /\ \A n \in 2..Len(venue') : venue'[n].price # venue'[n - 1].price
  BY <1>1, <1>2, AcceptAppends
<1>4. TypeOK'
  BY <1>1, <1>2, <1>3 DEF ChaseInv, TypeOK, AfterTurn
<1>5. HeldIsThere'
  <2>1. Len(venue) + 1 \in DOMAIN venue'
    BY <1>3
  <2>2. /\ venue'[Len(venue) + 1].link = current_order_link_id'
        /\ venue'[Len(venue) + 1].price = last_order_price'
    BY <1>2, <1>3
  <2>. QED  BY <2>1, <2>2 DEF HeldIsThere
<1>6. Running' /\ Replacing' /\ MovesCounted'
  BY <1>1, <1>2, <1>3 DEF ChaseInv, Running, Replacing, MovesCounted, AfterTurn, TypeOK
<1>. QED  BY <1>3, <1>4, <1>5, <1>6 DEF ChaseInv, ReplacesOnlyOnMoves

\* A request that fails leaves an order nobody holds, at worst, and the call.
LEMMA PlaceFailsKeeps ==
  ASSUME ChaseInv, PlaceFails
  PROVE  ChaseInv'
<1>1. /\ iteration <= MaxIterations + 1 /\ loop = "replacing" /\ moves <= iteration
      /\ moves \in Nat
  BY DEF ChaseInv, TypeOK, MovesCounted, Running, PlaceFails
<1>2. loop' = "returned" /\ UNCHANGED <<side, iteration, current_order_link_id, last_order_price,
                                        limit_price, market, moves>>
  BY DEF PlaceFails
<1>3. Running' /\ Replacing' /\ MovesCounted'
  BY <1>1, <1>2 DEF Running, Replacing, MovesCounted
<1>4. CASE UNCHANGED venue
  <2>1. /\ OpenTillFilled' /\ HeldIsThere'
        /\ Len(venue') <= moves' /\ \A n \in 2..Len(venue') : venue'[n].price # venue'[n - 1].price
    BY <1>1, <1>2, <1>4, VenueKept
  <2>2. TypeOK'
    BY <1>2, <1>4 DEF ChaseInv, TypeOK
  <2>. QED  BY <1>3, <2>1, <2>2 DEF ChaseInv, ReplacesOnlyOnMoves
<1>5. CASE Accept
  <2>1. /\ venue' \in Seq(LimitOrder)
        /\ Len(venue') = Len(venue) + 1 /\ DOMAIN venue' = 1..(Len(venue) + 1)
        /\ Len(venue) \in Nat /\ DOMAIN venue = 1..Len(venue)
        /\ \A n \in 1..Len(venue) : venue'[n] = venue[n]
        /\ OpenTillFilled'
        /\ Len(venue') <= moves' /\ \A n \in 2..Len(venue') : venue'[n].price # venue'[n - 1].price
    BY <1>1, <1>2, <1>5, AcceptAppends
  <2>2. TypeOK'
    BY <1>2, <2>1 DEF ChaseInv, TypeOK
  <2>3. HeldIsThere'
    <3>. SUFFICES ASSUME last_order_price # 0
                  PROVE  \E n \in DOMAIN venue' :
                           /\ venue'[n].link = current_order_link_id
                           /\ venue'[n].price = last_order_price
      BY <1>2 DEF HeldIsThere
    <3>1. PICK n \in DOMAIN venue :
            venue[n].link = current_order_link_id /\ venue[n].price = last_order_price
      BY DEF ChaseInv, HeldIsThere
    <3>2. n \in DOMAIN venue' /\ venue'[n] = venue[n]
      BY <2>1
    <3>. QED  BY <3>1, <3>2
  <2>. QED  BY <1>3, <2>1, <2>2, <2>3 DEF ChaseInv, ReplacesOnlyOnMoves
<1>. QED  BY <1>4, <1>5 DEF PlaceFails

\* The venue's fills close what they complete, and no link or price changes.
LEMMA FillKeeps ==
  ASSUME ChaseInv, Fill
  PROVE  ChaseInv'
<1>1. PICK k \in DOMAIN venue :
        /\ venue[k].open
        /\ \E filled \in (venue[k].filled + 1)..Target :
             venue' = [venue EXCEPT ![k].filled = filled, ![k].open = filled < Target]
  BY DEF Fill
<1>2. PICK filled \in (venue[k].filled + 1)..Target :
        venue' = [venue EXCEPT ![k].filled = filled, ![k].open = filled < Target]
  BY <1>1
<1>3. UNCHANGED <<clientVars, market, moves>>
  BY DEF Fill
<1>4. venue \in Seq(LimitOrder) /\ Len(venue) \in Nat /\ DOMAIN venue = 1..Len(venue)
  BY LenProperties DEF ChaseInv, TypeOK
<1>. DEFINE open == filled < Target
            order == [venue[k] EXCEPT !.filled = filled, !.open = open]
<1>5. venue[k] \in LimitOrder
  BY <1>4, ElementOfSeq
<1>6. filled \in 0..Target /\ Target \in Nat
  BY <1>5 DEF LimitOrder
<1>7. open \in BOOLEAN /\ (open \/ filled = Target)
  BY <1>6
<1>8. venue' = [venue EXCEPT ![k].filled = filled, ![k].open = open]
  BY <1>2
<1>. HIDE DEF open
<1>9. /\ order \in LimitOrder /\ order.link = venue[k].link /\ order.price = venue[k].price
      /\ order.open = open /\ order.filled = filled
  BY <1>5, <1>6, <1>7 DEF LimitOrder
<1>10. venue' = [venue EXCEPT ![k] = order]
  BY <1>4, <1>5, <1>8 DEF LimitOrder
<1>. HIDE DEF order
<1>11. /\ venue' \in Seq(LimitOrder) /\ Len(venue') = Len(venue)
       /\ \A n \in 1..Len(venue) : venue'[n] = IF n = k THEN order ELSE venue[n]
  BY <1>4, <1>9, <1>10, ExceptSeq
<1>12. \A n \in 1..Len(venue) :
         /\ venue'[n].link = venue[n].link /\ venue'[n].price = venue[n].price
         /\ venue'[n].open \/ venue'[n].filled = Target
  BY <1>4, <1>7, <1>9, <1>11 DEF ChaseInv, OpenTillFilled
<1>13. moves \in Nat /\ moves <= moves /\ moves' = moves
       /\ UNCHANGED <<current_order_link_id, last_order_price>>
  BY <1>3 DEF ChaseInv, TypeOK, clientVars
<1>14. /\ OpenTillFilled' /\ HeldIsThere'
       /\ venue' # <<>> => venue # <<>> /\ venue'[Len(venue')].price = venue[Len(venue)].price
       /\ Len(venue') <= moves' /\ \A n \in 2..Len(venue') : venue'[n].price # venue'[n - 1].price
  BY <1>11, <1>12, <1>13, OrdersKept
<1>15. TypeOK'
  BY <1>3, <1>11 DEF ChaseInv, TypeOK, clientVars
<1>16. Running' /\ Replacing' /\ MovesCounted'
  BY <1>3, <1>11, <1>14 DEF ChaseInv, Running, Replacing, MovesCounted, clientVars
<1>. QED  BY <1>14, <1>15, <1>16 DEF ChaseInv, ReplacesOnlyOnMoves

-----------------------------------------------------------------------------
\* ChaseInv holds in every state.
LEMMA ChaseInvariant == Spec => []ChaseInv
<1>1. Init => ChaseInv
  <2>. SUFFICES ASSUME Init PROVE ChaseInv  OBVIOUS
  <2>1. venue = <<>> /\ venue \in Seq(LimitOrder) /\ Len(venue) = 0 /\ DOMAIN venue = 1..0
    BY EmptySeq, LenProperties DEF Init
  <2>. QED  BY <2>1 DEF Init, ChaseInv, TypeOK, OpenTillFilled, HeldIsThere, Running, Replacing,
                        MovesCounted, ReplacesOnlyOnMoves
<1>2. ChaseInv /\ [Next]_vars => ChaseInv'
  <2>. SUFFICES ASSUME ChaseInv, [Next]_vars PROVE ChaseInv'  OBVIOUS
  <2>. USE DEF ChaseInv, TypeOK, OpenTillFilled, HeldIsThere, Running, Replacing, MovesCounted,
               ReplacesOnlyOnMoves
  <2>1. CASE \E bid, ask \in Prices : Turn(bid, ask)
    BY <2>1, TurnKeeps
  <2>2. CASE PlaceAccepted
    BY <2>2, PlaceAcceptedKeeps
  <2>3. CASE PlaceRefused
    BY <2>3 DEF PlaceRefused, AfterTurn
  <2>4. CASE PlaceFails
    BY <2>4, PlaceFailsKeeps
  <2>5. CASE TickerFails
    BY <2>5 DEF TickerFails
  <2>6. CASE OnExpiry
    BY <2>6 DEF OnExpiry, CancelCurrent
  <2>7. CASE FinalMarketOrder
    BY <2>7 DEF FinalMarketOrder
  <2>8. CASE Fill
    BY <2>8, FillKeeps
  <2>9. CASE UNCHANGED vars
    BY <2>9 DEF vars, clientVars
  <2>. QED  BY <2>1, <2>2, <2>3, <2>4, <2>5, <2>6, <2>7, <2>8, <2>9 DEF Next, Client
<1>. QED  BY <1>1, <1>2, PTL DEF Spec

\* A turn of the older chase that places nothing, because it is "keeping order
\* at" the last price (chase_limit.rs:193), relies on an order that is there:
\* whatever became of replacements and cancels before, the order whose link is
\* held is at the quote's price, and open or filled.
THEOREM KeptOrderStands == Spec => KeepsAnOrderOut
<1>. DEFINE Stands == loop = "top" /\ loop' = "top" /\ iteration' > iteration =>
                        \E n \in DOMAIN venue' :
                          /\ venue'[n].link = current_order_link_id' /\ venue'[n].price = limit_price'
                          /\ venue'[n].open \/ venue'[n].filled = Target
<1>1. ChaseInv /\ [Next]_vars => [Stands]_vars
  <2>. SUFFICES ASSUME ChaseInv, Next, loop = "top", loop' = "top", iteration' > iteration
                PROVE  Stands
    OBVIOUS
  <2>1. iteration \in Nat
    BY DEF ChaseInv, TypeOK
  <2>2. ~ Fill
    <3>1. Fill => iteration' = iteration
      BY Zenon DEF Fill, clientVars
    <3>. QED  BY <2>1, <3>1
  <2>3. PICK bid \in Prices, ask \in Prices : Turn(bid, ask)
    BY <2>2 DEF Next, Client, PlaceAccepted, PlaceRefused, PlaceFails, TickerFails, OnExpiry,
                FinalMarketOrder
  <2>. DEFINE price == LimitPrice(bid, ask)
  <2>4. price # 0
    BY <2>3, LimitPriceType DEF ChaseInv, TypeOK, Turn
  <2>. HIDE DEF price
  <2>5. /\ limit_price' = price /\ price = last_order_price
        /\ UNCHANGED <<venue, current_order_link_id>>
    BY <2>3 DEF Turn, ShouldUpdate, CancelCurrent, price
  <2>6. PICK n \in DOMAIN venue :
          venue[n].link = current_order_link_id /\ venue[n].price = last_order_price
    BY <2>4, <2>5 DEF ChaseInv, HeldIsThere
  <2>7. venue[n].open \/ venue[n].filled = Target
    BY DEF ChaseInv, OpenTillFilled
  <2>. QED  BY <2>5, <2>6, <2>7
<1>. QED  BY <1>1, ChaseInvariant, PTL DEF Spec, KeepsAnOrderOut

\* Every order it sends answers a move of the quote of its own, and two orders
\* that follow each other never have the same price (chase_limit.rs:138-143); so
\* no more orders pile up than the quote has moved.
THEOREM EveryOrderHasItsMove == Spec => []ReplacesOnlyOnMoves
<1>1. ChaseInv => ReplacesOnlyOnMoves
  BY DEF ChaseInv
<1>. QED  BY <1>1, ChaseInvariant, PTL
=============================================================================
