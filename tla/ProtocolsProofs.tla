--------------------------- MODULE ProtocolsProofs ----------------------------
(***************************************************************************)
(* Proofs about Protocols: for any protocols, prices, parameters and       *)
(* channel capacities a position hears of every stop a protocol wants, and *)
(* a stop moves away from the price only when that traded through it.      *)
(***************************************************************************)
EXTENDS Protocols, SequenceTheorems, TLAPS

USE ProtocolsAssumption DEF None, AtMarket

(***************************************************************************)
(* The strengthening.                                                      *)
(***************************************************************************)
\* The last thing p said that is known or on its way is this stop.
LastSaid(p, stop) ==
  LET said == {n \in DOMAIN rx_orders : rx_orders[n].from = p}
  IN IF said = {} THEN known[p] = stop
     ELSE \E n \in said : (\A m \in said : m <= n) /\ rx_orders[n].order = stop

Heard == position = "running" => \A p \in ProtocolIds : LastSaid(p, last_order[p])

\* A protocol has told its stop or is about to.
SaysWhatItWants ==
  \A p \in ProtocolIds :
    Alive(p) => wanted[p] = IF in_hand[p] = None THEN last_order[p] ELSE in_hand[p]

NothingWhileWarming ==
  \A p \in ProtocolIds :
    task[p] = "warming" =>
      /\ kinds[p] = "sar"
      /\ in_hand[p] = None /\ last_order[p] = None /\ wanted[p] = None

\* A stop is where the indicator has it, and the extreme is beyond it.
Beyond(p) ==
  IF protocols_side = "Buy" THEN indicator[p].extreme <= indicator[p].sar
                            ELSE indicator[p].sar <= indicator[p].extreme

Followed(p) == IF protocols_side = "Buy" THEN indicator[p].bottom ELSE indicator[p].top

StopFollows ==
  \A p \in ProtocolIds :
    /\ kinds[p] = "sar" /\ wanted[p] # None => wanted[p] = indicator[p].sar /\ Beyond(p)
    /\ kinds[p] = "ts" /\ wanted[p] # None =>
         Followed(p) # 0 /\ wanted[p] = TrailStop(Followed(p))
    /\ kinds[p] = "dummy" => wanted[p] = AtMarket

ProtocolsInv ==
  /\ TypeOK
  /\ Heard
  /\ SaysWhatItWants
  /\ NothingWhileWarming
  /\ StopFollows
-----------------------------------------------------------------------------
(***************************************************************************)
(* The indicators.                                                         *)
(***************************************************************************)
\* Going some eighths of the way from a to b ends up between them.
LEMMA PartOfTheWay ==
  ASSUME NEW a \in Nat \ {0}, NEW b \in Nat \ {0}, NEW f \in 1..8
  PROVE  LET moved == a + (f * (b - a)) \div 8
         IN /\ moved \in Nat \ {0}
            /\ a <= b => a <= moved
            /\ b <= a => moved <= a
<1>1. f \in {1, 2, 3, 4, 5, 6, 7, 8}
  OBVIOUS
<1> QED  BY <1>1

\* A step of the parabola keeps its shape.  Its stop stays on the side of the
\* trend where it was, at the extreme or before it; and if it was before the
\* extreme it comes no closer to where it came from, or the price has gone
\* through it.
LEMMA SarStepFollows ==
  ASSUME NEW i \in Sars, NEW k \in Klines
  PROVE  /\ SarStep(i, k) \in Sars
         /\ IsUptrend(i, k) => SarStep(i, k).sar <= SarStep(i, k).extreme
         /\ ~IsUptrend(i, k) => SarStep(i, k).extreme <= SarStep(i, k).sar
         /\ IsUptrend(i, k) /\ i.sar <= i.extreme => i.sar <= SarStep(i, k).sar
         /\ ~IsUptrend(i, k) /\ i.extreme <= i.sar => SarStep(i, k).sar <= i.sar \/ k.high >= i.sar
<1> DEFINE moved == i.sar + (i.factor * (i.extreme - i.sar)) \div 8
           stop == MovedSar(i, k)
<1>1. /\ i.sar \in Nat \ {0} /\ i.extreme \in Nat \ {0} /\ i.factor \in 1..8
      /\ k.low \in Nat \ {0} /\ k.high \in Nat \ {0} /\ k.low <= k.high
  BY DEF Sars, Klines
<1>2. /\ moved \in Nat \ {0}
      /\ i.sar <= i.extreme => i.sar <= moved
      /\ i.extreme <= i.sar => moved <= i.sar
  BY <1>1, PartOfTheWay
<1>3. stop = IF IsUptrend(i, k) THEN Lower(Lower(moved, k.low), i.extreme)
                               ELSE Higher(Higher(moved, k.high), i.extreme)
  BY DEF MovedSar
<1> HIDE DEF moved, stop
<1>4. /\ stop \in Nat \ {0}
      /\ IsUptrend(i, k) => /\ stop <= k.low /\ stop <= i.extreme
                            /\ i.sar <= i.extreme => i.sar <= stop
      /\ ~IsUptrend(i, k) => /\ stop >= k.high /\ stop >= i.extreme
                             /\ i.extreme <= i.sar => stop <= i.sar \/ k.high >= i.sar
  BY <1>1, <1>2, <1>3 DEF Lower, Higher, IsUptrend
<1>5. LET up == IsUptrend(i, k)
          news == IF up THEN k.high > i.extreme ELSE k.low < i.extreme
      IN SarStep(i, k) = [sar |-> stop,
                          factor |-> IF news THEN Lower(i.factor + Increment, MaxFactor) ELSE i.factor,
                          extreme |-> IF ~news THEN i.extreme ELSE IF up THEN k.high ELSE k.low]
  <2>1. CASE IsUptrend(i, k)
    <3>1. ~(k.low < stop)
      BY <1>1, <1>4, <2>1 DEF IsUptrend
    <3> QED  BY <2>1, <3>1 DEF SarStep, stop
  <2>2. CASE ~IsUptrend(i, k)
    <3>1. ~(k.high > stop)
      BY <1>1, <1>4, <2>2 DEF IsUptrend
    <3> QED  BY <2>2, <3>1 DEF SarStep, stop
  <2> QED  BY <2>1, <2>2
<1>6. /\ SarStep(i, k).sar = stop
      /\ SarStep(i, k).extreme \in Nat \ {0}
      /\ IsUptrend(i, k) => i.extreme <= SarStep(i, k).extreme
      /\ ~IsUptrend(i, k) => SarStep(i, k).extreme <= i.extreme
  BY <1>1, <1>5
<1>7. SarStep(i, k) \in Sars
  <2>1. Lower(i.factor + Increment, MaxFactor) \in 1..8
    BY <1>1 DEF Lower
  <2> QED  BY <1>1, <1>4, <1>5, <2>1 DEF Sars
<1>8. CASE IsUptrend(i, k)
  <2>1. stop <= SarStep(i, k).extreme
    BY <1>1, <1>4, <1>6, <1>8 DEF IsUptrend
  <2> QED  BY <1>1, <1>4, <1>6, <1>7, <1>8, <2>1 DEF IsUptrend
<1>9. CASE ~IsUptrend(i, k)
  <2>1. SarStep(i, k).extreme <= stop
    BY <1>1, <1>4, <1>6, <1>9 DEF IsUptrend
  <2> QED  BY <1>1, <1>4, <1>6, <1>7, <1>9, <2>1 DEF IsUptrend
<1> QED  BY <1>8, <1>9

\* A trailing stop is a price, and is further on when the price is.
LEMMA TrailStopFollows ==
  ASSUME protocols_side \in {"Buy", "Sell"}, NEW a \in Prices, NEW b \in Prices
  PROVE  /\ TrailStop(a) \in Nat \ {0}
         /\ protocols_side = "Buy" /\ a < b => TrailStop(a) <= TrailStop(b)
         /\ protocols_side = "Sell" /\ a < b => TrailStop(a) <= TrailStop(b)
<1>1. a \in Nat \ {0} /\ b \in Nat \ {0}
  OBVIOUS
<1>2. Percent \in {1, 2, 3, 4, 5, 6, 7}
  OBVIOUS
<1> QED  BY <1>1, <1>2 DEF TrailStop
-----------------------------------------------------------------------------
(***************************************************************************)
(* Types.                                                                  *)
(***************************************************************************)
\* The parts of the state, one by one.
LEMMA Shapes ==
  ASSUME TypeOK, NEW p \in ProtocolIds
  PROVE  /\ feed \in [ProtocolIds -> Seq(Klines)] /\ feed[p] \in Seq(Klines)
         /\ Len(feed[p]) \in Nat /\ Len(feed[p]) <= FeedCap
         /\ indicator \in [ProtocolIds -> Sars \union Trails]
         /\ indicator[p] \in IF kinds[p] = "sar" THEN Sars ELSE Trails
         /\ last_order \in [ProtocolIds -> Stops] /\ in_hand \in [ProtocolIds -> Stops]
         /\ wanted \in [ProtocolIds -> Stops] /\ known \in [ProtocolIds -> Stops]
         /\ rx_orders \in Seq([from : ProtocolIds, order : Stops])
         /\ Len(rx_orders) \in Nat /\ DOMAIN rx_orders = 1..Len(rx_orders)
         /\ kinds[p] \in {"sar", "ts", "dummy"} /\ protocols_side \in {"Buy", "Sell"}
<1>1. kinds \in [ProtocolIds -> {"sar", "ts", "dummy"}]
  BY DEF TypeOK
<1>2. feed[p] \in Seq(Klines) /\ rx_orders \in Seq([from : ProtocolIds, order : Stops])
  BY DEF TypeOK
<1>3. /\ Len(feed[p]) \in Nat /\ Len(rx_orders) \in Nat /\ DOMAIN rx_orders = 1..Len(rx_orders)
  BY <1>2, LenProperties
<1> QED  BY <1>1, <1>2, <1>3 DEF TypeOK

\* What is read first from a feed is a kline, and what follows it stays a feed.
LEMMA FeedTaken ==
  ASSUME TypeOK, NEW p \in ProtocolIds, feed[p] # <<>>
  PROVE  /\ Head(feed[p]) \in Klines
         /\ Tail(feed[p]) \in Seq(Klines) /\ Len(Tail(feed[p])) <= FeedCap
<1>1. feed[p] \in Seq(Klines) /\ Len(feed[p]) \in Nat \ {0} /\ Len(feed[p]) <= FeedCap
  BY Shapes, EmptySeq
<1>2. /\ Head(feed[p]) \in Klines /\ Tail(feed[p]) \in Seq(Klines)
      /\ Len(Tail(feed[p])) = Len(feed[p]) - 1
  BY <1>1, HeadTailProperties
<1>3. FeedCap \in Nat
  OBVIOUS
<1> QED  BY <1>1, <1>2, <1>3

\* Both indicators' steps keep their shapes, and orders are stops.
LEMMA StepTypes ==
  ASSUME protocols_side \in {"Buy", "Sell"}
  PROVE  /\ \A i \in Sars, k \in Klines :
              SarStep(i, k) \in Sars /\ SarOrder(i, k) \in Stops /\ SarOrder(i, k) # AtMarket
         /\ \A i \in Trails, price \in Prices :
              TrailStep(i, price) \in Trails /\ TrailOrder(i, price) \in Stops
<1>1. ASSUME NEW i \in Sars, NEW k \in Klines
      PROVE  SarStep(i, k) \in Sars /\ SarOrder(i, k) \in Stops /\ SarOrder(i, k) # AtMarket
  <2>1. SarStep(i, k) \in Sars
    BY SarStepFollows
  <2>2. SarStep(i, k).sar \in Nat
    BY <2>1 DEF Sars
  <2> QED  BY <2>1, <2>2 DEF SarOrder, Stops
<1>2. ASSUME NEW i \in Trails, NEW price \in Prices
      PROVE  TrailStep(i, price) \in Trails /\ TrailOrder(i, price) \in Stops
  <2>1. TrailStep(i, price) \in Trails
    BY DEF TrailStep, Trails
  <2>2. TrailStop(price) \in Nat \ {0}
    BY TrailStopFollows
  <2> QED  BY <2>1, <2>2 DEF TrailOrder, Stops
<1> QED  BY <1>1, <1>2

\* The bounded sequences grow within their bounds.
LEMMA Grown ==
  ASSUME NEW S, NEW q \in Seq(S), NEW e \in S, NEW cap \in Nat, Len(q) < cap
  PROVE  Append(q, e) \in Seq(S) /\ Len(Append(q, e)) <= cap
<1>1. Append(q, e) \in Seq(S) /\ Len(Append(q, e)) = Len(q) + 1 /\ Len(q) \in Nat
  BY AppendProperties, LenProperties
<1> QED  BY <1>1

\* No step leaves the shapes.
LEMMA TypePreserved ==
  ASSUME TypeOK, NothingWhileWarming, [Next]_vars
  PROVE  TypeOK'
<1> FeedCap \in Nat /\ OrdersCap \in Nat
  OBVIOUS
<1>0. ASSUME NEW p \in ProtocolIds, NEW q \in Seq(Klines), Len(q) <= FeedCap,
             feed' = [feed EXCEPT ![p] = q]
      PROVE  feed' \in [ProtocolIds -> Seq(Klines)] /\ \A r \in ProtocolIds : Len(feed'[r]) <= FeedCap
  BY <1>0 DEF TypeOK
<1>e. <<>> \in Seq(Klines) /\ Len(<<>>) <= FeedCap
  BY EmptySeq
<1>1. ASSUME NEW p \in ProtocolIds, NEW k \in Klines, Receive(p, k)  PROVE TypeOK'
  <2>1. Append(feed[p], k) \in Seq(Klines) /\ Len(Append(feed[p], k)) <= FeedCap
    BY <1>1, Shapes, Grown DEF Receive
  <2>2. feed' \in [ProtocolIds -> Seq(Klines)] /\ \A r \in ProtocolIds : Len(feed'[r]) <= FeedCap
    BY <1>0, <1>1, <2>1 DEF Receive, TypeOK
  <2> QED  BY <1>1, <2>2 DEF Receive, TypeOK, attached
<1>2. ASSUME NEW p \in ProtocolIds, CloseSocket(p)  PROVE TypeOK'
  BY <1>2 DEF CloseSocket, TypeOK, attached
<1>3. ASSUME NEW p \in ProtocolIds, Panic(p)  PROVE TypeOK'
  <2>1. feed' \in [ProtocolIds -> Seq(Klines)] /\ \A r \in ProtocolIds : Len(feed'[r]) <= FeedCap
    BY <1>0, <1>3, <1>e DEF Panic, TypeOK
  <2> QED  BY <1>3, <2>1 DEF Panic, TypeOK, attached, Stops
<1>4. ASSUME NEW p \in ProtocolIds, WarmUp(p)  PROVE TypeOK'
  <2>1. kinds[p] = "sar" /\ indicator[p] \in Sars
    BY <1>4, Shapes DEF WarmUp, NothingWhileWarming
  <2>2. PICK k \in Klines : indicator' = [indicator EXCEPT ![p] = SarStep(@, k)]
    BY <1>4 DEF WarmUp
  <2>3. SarStep(indicator[p], k) \in Sars
    BY <2>1, SarStepFollows
  <2>4. indicator' \in [ProtocolIds -> Sars \union Trails]
        /\ \A r \in ProtocolIds : indicator'[r] \in IF kinds[r] = "sar" THEN Sars ELSE Trails
    BY <2>1, <2>2, <2>3 DEF TypeOK
  <2>5. task' \in [ProtocolIds -> {"warming", "running", "ended", "panicked"}]
    BY <1>4 DEF WarmUp, TypeOK
  <2> QED  BY <1>4, <2>4, <2>5 DEF WarmUp, TypeOK, attached
<1>5. ASSUME NEW p \in ProtocolIds, StepSar(p)  PROVE TypeOK'
  <2> DEFINE k == Head(feed[p])
             order == SarOrder(indicator[p], k)
  <2>1. /\ k \in Klines /\ Tail(feed[p]) \in Seq(Klines) /\ Len(Tail(feed[p])) <= FeedCap
        /\ indicator[p] \in Sars
    BY <1>5, FeedTaken, Shapes DEF StepSar
  <2>2. SarStep(indicator[p], k) \in Sars /\ order \in Stops
    BY <2>1, StepTypes DEF TypeOK
  <2>3. /\ indicator' = [indicator EXCEPT ![p] = SarStep(@, k)]
        /\ wanted' = [wanted EXCEPT ![p] = order]
        /\ in_hand' = [in_hand EXCEPT ![p] = IF Changed(p, order) THEN order ELSE None]
    BY <1>5 DEF StepSar
  <2>4. feed' = [feed EXCEPT ![p] = <<>>] \/ feed' = [feed EXCEPT ![p] = Tail(@)]
    BY <1>5 DEF StepSar
  <2>5. task' = [task EXCEPT ![p] = "panicked"] \/ task' = [task EXCEPT ![p] = @]
    BY <1>5 DEF StepSar
  <2> HIDE DEF k, order
  <2>6. feed' \in [ProtocolIds -> Seq(Klines)] /\ \A r \in ProtocolIds : Len(feed'[r]) <= FeedCap
    BY <1>0, <1>e, <2>1, <2>4
  <2>7. task' \in [ProtocolIds -> {"warming", "running", "ended", "panicked"}]
    BY <2>5 DEF TypeOK
  <2>8. /\ indicator' \in [ProtocolIds -> Sars \union Trails]
        /\ \A r \in ProtocolIds : indicator'[r] \in IF kinds[r] = "sar" THEN Sars ELSE Trails
    BY <1>5, <2>2, <2>3 DEF TypeOK, StepSar
  <2>9. wanted' \in [ProtocolIds -> Stops] /\ in_hand' \in [ProtocolIds -> Stops]
    BY <2>2, <2>3 DEF TypeOK, Stops
  <2> QED  BY <1>5, <2>6, <2>7, <2>8, <2>9 DEF StepSar, TypeOK, attached
<1>6. ASSUME NEW p \in ProtocolIds, StepTrailing(p)  PROVE TypeOK'
  <2> DEFINE price == Head(feed[p]).low
             order == TrailOrder(indicator[p], price)
  <2>1. /\ price \in Prices /\ Tail(feed[p]) \in Seq(Klines) /\ Len(Tail(feed[p])) <= FeedCap
        /\ indicator[p] \in Trails
    BY <1>6, FeedTaken, Shapes DEF StepTrailing, Klines
  <2>2. TrailStep(indicator[p], price) \in Trails /\ order \in Stops
    BY <2>1, StepTypes DEF TypeOK
  <2>3. /\ indicator' = [indicator EXCEPT ![p] = TrailStep(@, price)]
        /\ in_hand' = [in_hand EXCEPT ![p] = order]
        /\ wanted' = [wanted EXCEPT ![p] = IF order = None THEN @ ELSE order]
        /\ feed' = [feed EXCEPT ![p] = Tail(@)]
    BY <1>6 DEF StepTrailing
  <2> HIDE DEF price, order
  <2>4. feed' \in [ProtocolIds -> Seq(Klines)] /\ \A r \in ProtocolIds : Len(feed'[r]) <= FeedCap
    BY <1>0, <2>1, <2>3
  <2>5. /\ indicator' \in [ProtocolIds -> Sars \union Trails]
        /\ \A r \in ProtocolIds : indicator'[r] \in IF kinds[r] = "sar" THEN Sars ELSE Trails
    BY <1>6, <2>2, <2>3 DEF TypeOK, StepTrailing
  <2>6. wanted' \in [ProtocolIds -> Stops] /\ in_hand' \in [ProtocolIds -> Stops]
    BY <2>2, <2>3 DEF TypeOK
  <2> QED  BY <1>6, <2>4, <2>5, <2>6 DEF StepTrailing, TypeOK, attached
<1>7. ASSUME NEW p \in ProtocolIds, Tell(p)  PROVE TypeOK'
  <2>1. [from |-> p, order |-> in_hand[p]] \in [from : ProtocolIds, order : Stops]
    BY DEF TypeOK
  <2>2. /\ rx_orders' \in Seq([from : ProtocolIds, order : Stops])
        /\ Len(rx_orders') <= OrdersCap
    BY <1>7, <2>1, Grown, Shapes DEF Tell, Queued
  <2>3. last_order' \in [ProtocolIds -> Stops] /\ in_hand' \in [ProtocolIds -> Stops]
    BY <1>7 DEF Tell, TypeOK, Stops
  <2> QED  BY <1>7, <2>2, <2>3 DEF Tell, TypeOK, attached
<1>8. ASSUME NEW p \in ProtocolIds, Finish(p)  PROVE TypeOK'
  BY <1>8 DEF Finish, TypeOK, attached
<1>9. ASSUME TakeOrders  PROVE TypeOK'
  <2>1. rx_orders \in Seq([from : ProtocolIds, order : Stops]) /\ rx_orders # <<>>
    BY <1>9 DEF TakeOrders, TypeOK
  <2>2. /\ Head(rx_orders) \in [from : ProtocolIds, order : Stops]
        /\ Tail(rx_orders) \in Seq([from : ProtocolIds, order : Stops])
        /\ Len(Tail(rx_orders)) = Len(rx_orders) - 1 /\ Len(rx_orders) \in Nat
    BY <2>1, HeadTailProperties, LenProperties
  <2>3. known' \in [ProtocolIds -> Stops]
    BY <1>9, <2>2 DEF TakeOrders, TypeOK
  <2>4. Len(rx_orders') <= OrdersCap
    BY <1>9, <2>2 DEF TakeOrders, TypeOK
  <2> QED  BY <1>9, <2>2, <2>3, <2>4 DEF TakeOrders, TypeOK, attached
<1>10. ASSUME NEW how \in {"done", "panicked"}, Leave(how)  PROVE TypeOK'
  <2>1. feed' \in [ProtocolIds -> Seq(Klines)] /\ \A p \in ProtocolIds : Len(feed'[p]) <= FeedCap
    BY <1>10, <1>e DEF Leave
  <2>2. rx_orders' \in Seq([from : ProtocolIds, order : Stops]) /\ Len(rx_orders') <= OrdersCap
    BY <1>10, EmptySeq DEF Leave
  <2>3. in_hand' \in [ProtocolIds -> Stops]
    BY <1>10 DEF Leave, Stops
  <2> QED  BY <1>10, <2>1, <2>2, <2>3 DEF Leave, TypeOK, attached
<1>11. CASE UNCHANGED vars
  BY <1>11 DEF vars, attached, TypeOK
<1> QED
  BY <1>1, <1>2, <1>3, <1>4, <1>5, <1>6, <1>7, <1>8, <1>9, <1>10, <1>11
  DEF Next, Protocol, NoticeEnd, Complete
-----------------------------------------------------------------------------
(***************************************************************************)
(* What the position hears.                                                *)
(***************************************************************************)
\* What p tells is the last it said; of the others the last stays the last.
LEMMA TellHeard ==
  ASSUME TypeOK, NEW p \in ProtocolIds, Tell(p), NEW r \in ProtocolIds, LastSaid(r, last_order[r])
  PROVE  LastSaid(r, last_order[r])'
<1> DEFINE e == [from |-> p, order |-> in_hand[p]]
           n == Len(rx_orders)
<1>1. /\ rx_orders \in Seq([from : ProtocolIds, order : Stops]) /\ n \in Nat
      /\ DOMAIN rx_orders = 1..n
      /\ e \in [from : ProtocolIds, order : Stops]
  BY Shapes DEF TypeOK
<1>2. /\ rx_orders' = Append(rx_orders, e) /\ known' = known
      /\ last_order' = [last_order EXCEPT ![p] = in_hand[p]]
  BY DEF Tell, Queued
<1>3. /\ rx_orders' \in Seq([from : ProtocolIds, order : Stops]) /\ Len(rx_orders') = n + 1
      /\ \A m \in 1..n : rx_orders'[m] = rx_orders[m]
      /\ rx_orders'[n + 1] = e
  BY <1>1, <1>2, AppendProperties
<1>4. DOMAIN rx_orders' = 1..(n + 1)
  BY <1>3, LenProperties
<1> HIDE DEF n
<1>5. CASE r = p
  <2>1. last_order'[r] = in_hand[p]
    BY <1>2, <1>5 DEF TypeOK
  <2>2. n + 1 \in DOMAIN rx_orders' /\ \A m \in DOMAIN rx_orders' : m <= n + 1
    BY <1>1, <1>4
  <2>3. rx_orders'[n + 1].from = p /\ rx_orders'[n + 1].order = in_hand[p]
    BY <1>3
  <2> QED  BY <1>5, <2>1, <2>2, <2>3 DEF LastSaid
<1>6. CASE r # p
  <2>1. last_order'[r] = last_order[r]
    BY <1>2, <1>6 DEF TypeOK
  <2>2. {m \in DOMAIN rx_orders' : rx_orders'[m].from = r}
        = {m \in DOMAIN rx_orders : rx_orders[m].from = r}
    BY <1>1, <1>3, <1>4, <1>6
  <2>3. \A m \in DOMAIN rx_orders : rx_orders'[m] = rx_orders[m]
    BY <1>1, <1>3
  <2> QED  BY <1>2, <2>1, <2>2, <2>3 DEF LastSaid
<1> QED  BY <1>5, <1>6

\* What was said first becomes what is known; the last stays the last.
LEMMA TakeHeard ==
  ASSUME TypeOK, TakeOrders, NEW r \in ProtocolIds, LastSaid(r, last_order[r])
  PROVE  LastSaid(r, last_order[r])'
<1> DEFINE n == Len(rx_orders)
           said == {m \in DOMAIN rx_orders : rx_orders[m].from = r}
<1>1. /\ rx_orders \in Seq([from : ProtocolIds, order : Stops]) /\ n \in Nat
      /\ DOMAIN rx_orders = 1..n /\ rx_orders # <<>>
  BY Shapes DEF TypeOK, TakeOrders
<1>2. /\ rx_orders' = Tail(rx_orders) /\ last_order' = last_order
      /\ known' = [known EXCEPT ![Head(rx_orders).from] = Head(rx_orders).order]
  BY DEF TakeOrders
<1>3. /\ n >= 1 /\ Head(rx_orders) = rx_orders[1]
      /\ rx_orders' \in Seq([from : ProtocolIds, order : Stops]) /\ Len(rx_orders') = n - 1
      /\ \A m \in 1..(n - 1) : rx_orders'[m] = rx_orders[m + 1]
  BY <1>1, <1>2, EmptySeq, HeadTailProperties
<1>4. DOMAIN rx_orders' = 1..(n - 1)
  BY <1>3, LenProperties
<1>5. known' = [known EXCEPT ![rx_orders[1].from] = rx_orders[1].order]
  BY <1>2, <1>3
<1> HIDE DEF n
<1>6. CASE said = {}
  <2>1. rx_orders[1].from # r
    BY <1>1, <1>3, <1>6
  <2>2. known'[r] = known[r]
    BY <1>5, <2>1 DEF TypeOK
  <2>3. {m \in DOMAIN rx_orders' : rx_orders'[m].from = r} = {}
    <3>1. ASSUME NEW m \in 1..(n - 1), rx_orders'[m].from = r  PROVE FALSE
      <4>1. m + 1 \in said
        BY <1>1, <1>3, <3>1
      <4> QED  BY <1>6, <4>1
    <3> QED  BY <1>4, <3>1
  <2>4. known[r] = last_order[r]
    BY <1>6 DEF LastSaid
  <2> QED  BY <1>2, <2>2, <2>3, <2>4 DEF LastSaid
<1>7. CASE said # {}
  <2>1. PICK l \in said : (\A m \in said : m <= l) /\ rx_orders[l].order = last_order[r]
    BY <1>7 DEF LastSaid
  <2>2. l \in 1..n /\ rx_orders[l].from = r
    BY <1>1, <2>1
  <2>3. CASE l = 1
    <3>1. known'[r] = last_order[r]
      BY <1>5, <2>1, <2>2, <2>3 DEF TypeOK
    <3>2. ASSUME NEW m \in 1..(n - 1), rx_orders'[m].from = r  PROVE FALSE
      <4>1. m + 1 \in said
        BY <1>1, <1>3, <3>2
      <4> QED  BY <2>1, <2>3, <4>1
    <3>3. {m \in DOMAIN rx_orders' : rx_orders'[m].from = r} = {}
      BY <1>4, <3>2
    <3> QED  BY <1>2, <3>1, <3>3 DEF LastSaid
  <2>4. CASE l # 1
    <3>1. l - 1 \in 1..(n - 1) /\ rx_orders'[l - 1] = rx_orders[l]
      BY <1>1, <1>3, <2>2, <2>4
    <3>2. ASSUME NEW m \in 1..(n - 1), rx_orders'[m].from = r  PROVE m <= l - 1
      <4>1. m + 1 \in said
        BY <1>1, <1>3, <3>2
      <4> QED  BY <2>1, <2>2, <4>1, <1>1
    <3> QED  BY <1>2, <1>4, <2>1, <2>2, <3>1, <3>2 DEF LastSaid
  <2> QED  BY <2>3, <2>4
<1> QED  BY <1>6, <1>7

\* No step makes the position forget or miss what a protocol said last.
LEMMA HeardPreserved ==
  ASSUME TypeOK, Heard, [Next]_vars
  PROVE  Heard'
<1>1. ASSUME NEW p \in ProtocolIds, Tell(p)  PROVE Heard'
  BY <1>1, TellHeard DEF Heard, Tell
<1>2. ASSUME TakeOrders  PROVE Heard'
  BY <1>2, TakeHeard DEF Heard, TakeOrders
<1>3. ASSUME NEW how \in {"done", "panicked"}, Leave(how)  PROVE Heard'
  BY <1>3 DEF Heard, Leave
<1>4. ASSUME UNCHANGED <<rx_orders, known, last_order, position>>  PROVE Heard'
  BY <1>4 DEF Heard, LastSaid
<1> QED
  BY <1>1, <1>2, <1>3, <1>4
  DEF Next, Protocol, NoticeEnd, Complete, vars,
      Receive, CloseSocket, Panic, WarmUp, StepSar, StepTrailing, Finish
-----------------------------------------------------------------------------
(***************************************************************************)
(* What the protocols want.                                                *)
(***************************************************************************)
\* A step of the parabola wants the indicator's stop, or none.
LEMMA SarWants ==
  ASSUME TypeOK, NEW p \in ProtocolIds, StepSar(p)
  PROVE  /\ kinds[p] = "sar" /\ task[p] = "running" /\ in_hand[p] = None
         /\ wanted' = [wanted EXCEPT ![p] = wanted'[p]]
         /\ indicator' = [indicator EXCEPT ![p] = indicator'[p]]
         /\ in_hand' = [in_hand EXCEPT ![p] = IF Changed(p, wanted'[p]) THEN wanted'[p] ELSE None]
         /\ task' = [task EXCEPT ![p] = IF Changed(p, wanted'[p]) /\ wanted'[p] = None
                                        THEN "panicked" ELSE "running"]
         /\ wanted'[p] # None => wanted'[p] = indicator'[p].sar /\ Beyond(p)'
<1> DEFINE k == Head(feed[p])
           order == SarOrder(indicator[p], k)
<1>1. k \in Klines /\ indicator[p] \in Sars /\ protocols_side \in {"Buy", "Sell"}
  BY FeedTaken, Shapes DEF StepSar
<1>2. /\ indicator' = [indicator EXCEPT ![p] = SarStep(@, k)]
      /\ wanted' = [wanted EXCEPT ![p] = order]
      /\ in_hand' = [in_hand EXCEPT ![p] = IF Changed(p, order) THEN order ELSE None]
      /\ task' = [task EXCEPT ![p] = IF Changed(p, order) /\ order = None THEN "panicked" ELSE @]
      /\ kinds[p] = "sar" /\ task[p] = "running" /\ in_hand[p] = None
      /\ protocols_side' = protocols_side
  BY DEF StepSar, attached
<1>3. indicator'[p] = SarStep(indicator[p], k) /\ wanted'[p] = order
  BY <1>2 DEF TypeOK
<1>4. order # None => order = SarStep(indicator[p], k).sar /\ IsUptrend(indicator[p], k) = (protocols_side = "Sell")
  BY DEF SarOrder
<1>5. order # None => Beyond(p)'
  <2> SUFFICES ASSUME order # None  PROVE Beyond(p)'
    OBVIOUS
  <2>1. CASE protocols_side = "Sell"
    BY <1>1, <1>2, <1>3, <1>4, <2>1, SarStepFollows DEF Beyond, IsUptrend
  <2>2. CASE protocols_side = "Buy"
    BY <1>1, <1>2, <1>3, <1>4, <2>2, SarStepFollows DEF Beyond, IsUptrend
  <2> QED  BY <1>1, <2>1, <2>2
<1> HIDE DEF order
<1> QED  BY <1>2, <1>3, <1>4, <1>5

\* A step of a trailing stop that asks for a stop has followed the price to
\* where that lies; one that does not leaves the price it follows.
LEMMA TrailWants ==
  ASSUME TypeOK, NEW p \in ProtocolIds, StepTrailing(p)
  PROVE  /\ kinds[p] = "ts" /\ in_hand[p] = None
         /\ wanted' = [wanted EXCEPT ![p] = wanted'[p]]
         /\ indicator' = [indicator EXCEPT ![p] = indicator'[p]]
         /\ in_hand' = [in_hand EXCEPT ![p] = in_hand'[p]]
         /\ \/ in_hand'[p] = None /\ wanted'[p] = wanted[p] /\ Followed(p)' = Followed(p)
            \/ /\ in_hand'[p] # None /\ wanted'[p] = in_hand'[p]
               /\ wanted'[p] = TrailStop(Followed(p)')
               /\ Followed(p)' \in Prices
               /\ Followed(p) # 0 => IF protocols_side = "Buy" THEN Followed(p)' < Followed(p)
                                                               ELSE Followed(p)' > Followed(p)
<1> DEFINE i == indicator[p]
           price == Head(feed[p]).low
           order == TrailOrder(i, price)
<1>1. price \in Prices /\ i \in Trails /\ protocols_side \in {"Buy", "Sell"}
  BY FeedTaken, Shapes DEF StepTrailing, Klines
<1>2. /\ indicator' = [indicator EXCEPT ![p] = TrailStep(@, price)]
      /\ in_hand' = [in_hand EXCEPT ![p] = order]
      /\ wanted' = [wanted EXCEPT ![p] = IF order = None THEN @ ELSE order]
      /\ kinds[p] = "ts" /\ in_hand[p] = None
      /\ protocols_side' = protocols_side
  BY DEF StepTrailing, attached
<1>3. /\ indicator'[p] = TrailStep(i, price) /\ in_hand'[p] = order
      /\ wanted'[p] = IF order = None THEN wanted[p] ELSE order
  BY <1>2 DEF TypeOK
<1>4. CASE protocols_side = "Buy"
  <2>1. /\ Followed(p)' = IF NewBottom(i, price) THEN price ELSE i.bottom
        /\ Followed(p) = i.bottom
    BY <1>1, <1>2, <1>3, <1>4 DEF Followed, TrailStep, Trails
  <2>2. order = IF NewBottom(i, price) THEN TrailStop(price) ELSE None
    BY <1>4 DEF TrailOrder
  <2>3. TrailStop(price) # None
    BY <1>1, TrailStopFollows
  <2>4. NewBottom(i, price) /\ i.bottom # 0 => price < i.bottom
    BY DEF NewBottom
  <2> HIDE DEF order
  <2> QED  BY <1>1, <1>2, <1>3, <1>4, <2>1, <2>2, <2>3, <2>4
<1>5. CASE protocols_side = "Sell"
  <2>1. /\ Followed(p)' = IF NewTop(i, price) THEN price ELSE i.top
        /\ Followed(p) = i.top
    BY <1>1, <1>2, <1>3, <1>5 DEF Followed, TrailStep, Trails
  <2>2. order = IF NewTop(i, price) THEN TrailStop(price) ELSE None
    BY <1>5 DEF TrailOrder
  <2>3. TrailStop(price) # None
    BY <1>1, TrailStopFollows
  <2>4. NewTop(i, price) /\ i.top # 0 => price > i.top
    BY DEF NewTop
  <2> HIDE DEF order
  <2> QED  BY <1>1, <1>2, <1>3, <1>5, <2>1, <2>2, <2>3, <2>4
<1> QED  BY <1>1, <1>4, <1>5

\* A protocol keeps telling what it wants, wants nothing before it has warmed up,
\* and its stop stays where its indicator has it.
LEMMA WantsPreserved ==
  ASSUME TypeOK, SaysWhatItWants, NothingWhileWarming, StopFollows, [Next]_vars
  PROVE  SaysWhatItWants' /\ NothingWhileWarming' /\ StopFollows'
<1> DEFINE Kept == SaysWhatItWants' /\ NothingWhileWarming' /\ StopFollows'
<1>0. /\ task \in [ProtocolIds -> {"warming", "running", "ended", "panicked"}]
      /\ {last_order, in_hand, wanted, known} \subseteq [ProtocolIds -> Stops]
      /\ indicator \in [ProtocolIds -> Sars \union Trails]
      /\ kinds \in [ProtocolIds -> {"sar", "ts", "dummy"}]
  BY DEF TypeOK
<1>1. ASSUME NEW p \in ProtocolIds, Panic(p)  PROVE Kept
  BY <1>0, <1>1
  DEF Panic, SaysWhatItWants, NothingWhileWarming, StopFollows, Alive, Beyond, Followed, TrailStop,
      attached
<1>2. ASSUME NEW p \in ProtocolIds, WarmUp(p)  PROVE Kept
  <2>1. PICK k \in Klines : indicator' = [indicator EXCEPT ![p] = SarStep(@, k)]
    BY <1>2 DEF WarmUp
  <2>2. \A r \in ProtocolIds : r # p => indicator'[r] = indicator[r]
    BY <1>0, <2>1
  <2>3. /\ \A r \in ProtocolIds : r # p => task'[r] = task[r]
        /\ kinds[p] = "sar" /\ wanted[p] = None /\ in_hand[p] = None /\ last_order[p] = None
        /\ task[p] = "warming"
        /\ UNCHANGED <<attached, in_hand, last_order, wanted, position>>
    BY <1>0, <1>2 DEF WarmUp, NothingWhileWarming
  <2> QED
    BY <1>0, <2>2, <2>3
    DEF SaysWhatItWants, NothingWhileWarming, StopFollows, Alive, Beyond, Followed, TrailStop, attached
<1>3. ASSUME NEW p \in ProtocolIds, StepSar(p)  PROVE Kept
  <2>1. UNCHANGED <<kinds, protocols_side, last_order, position>>
    BY <1>3 DEF StepSar, attached
  <2>2. SaysWhatItWants'
    BY <1>0, <1>3, <2>1, SarWants DEF SaysWhatItWants, Alive, Changed
  <2>3. NothingWhileWarming'
    BY <1>0, <1>3, <2>1, SarWants DEF NothingWhileWarming
  <2>4. StopFollows'
    <3> SUFFICES ASSUME NEW r \in ProtocolIds
                 PROVE  /\ kinds[r] = "sar" /\ wanted'[r] # None =>
                             wanted'[r] = indicator'[r].sar /\ Beyond(r)'
                        /\ kinds[r] = "ts" /\ wanted'[r] # None =>
                             Followed(r)' # 0 /\ wanted'[r] = TrailStop(Followed(r)')
                        /\ kinds[r] = "dummy" => wanted'[r] = AtMarket
      BY <2>1 DEF StopFollows, TrailStop
    <3>1. CASE r = p
      BY <1>3, <3>1, SarWants
    <3>2. CASE r # p
      <4>1. wanted'[r] = wanted[r] /\ indicator'[r] = indicator[r]
        BY <1>0, <1>3, <3>2, SarWants
      <4>2. (Beyond(r)' <=> Beyond(r)) /\ Followed(r)' = Followed(r)
        BY <2>1, <4>1 DEF Beyond, Followed
      <4> QED  BY <4>1, <4>2 DEF StopFollows
    <3> QED  BY <3>1, <3>2
  <2> QED  BY <2>2, <2>3, <2>4
<1>4. ASSUME NEW p \in ProtocolIds, StepTrailing(p)  PROVE Kept
  <2>1. UNCHANGED <<kinds, protocols_side, task, last_order, position>>
    BY <1>4 DEF StepTrailing, attached
  <2>2. SaysWhatItWants'
    BY <1>0, <1>4, <2>1, TrailWants DEF SaysWhatItWants, Alive
  <2>3. NothingWhileWarming'
    BY <1>0, <1>4, <2>1, TrailWants DEF NothingWhileWarming
  <2>4. StopFollows'
    <3> SUFFICES ASSUME NEW r \in ProtocolIds
                 PROVE  /\ kinds[r] = "sar" /\ wanted'[r] # None =>
                             wanted'[r] = indicator'[r].sar /\ Beyond(r)'
                        /\ kinds[r] = "ts" /\ wanted'[r] # None =>
                             Followed(r)' # 0 /\ wanted'[r] = TrailStop(Followed(r)')
                        /\ kinds[r] = "dummy" => wanted'[r] = AtMarket
      BY <2>1 DEF StopFollows, TrailStop
    <3>1. CASE r = p
      BY <1>4, <3>1, TrailWants DEF StopFollows
    <3>2. CASE r # p
      <4>1. wanted'[r] = wanted[r] /\ indicator'[r] = indicator[r]
        BY <1>0, <1>4, <3>2, TrailWants
      <4>2. (Beyond(r)' <=> Beyond(r)) /\ Followed(r)' = Followed(r)
        BY <2>1, <4>1 DEF Beyond, Followed
      <4> QED  BY <4>1, <4>2 DEF StopFollows
    <3> QED  BY <3>1, <3>2
  <2> QED  BY <2>2, <2>3, <2>4
<1>5. ASSUME NEW p \in ProtocolIds, Tell(p)  PROVE Kept
  BY <1>0, <1>5
  DEF Tell, SaysWhatItWants, NothingWhileWarming, StopFollows, Alive, Beyond, Followed, TrailStop,
      attached
<1>6. ASSUME NEW p \in ProtocolIds, Finish(p)  PROVE Kept
  BY <1>0, <1>6
  DEF Finish, SaysWhatItWants, NothingWhileWarming, StopFollows, Alive, Beyond, Followed, TrailStop,
      attached
<1>7. ASSUME NEW how \in {"done", "panicked"}, Leave(how)  PROVE Kept
  BY <1>0, <1>7
  DEF Leave, SaysWhatItWants, NothingWhileWarming, StopFollows, Alive, Beyond, Followed, TrailStop,
      attached
<1>8. ASSUME UNCHANGED <<attached, task, indicator, last_order, in_hand, wanted, position>>
      PROVE  Kept
  BY <1>8
  DEF SaysWhatItWants, NothingWhileWarming, StopFollows, Alive, Beyond, Followed, TrailStop, attached
<1> QED
  BY <1>1, <1>2, <1>3, <1>4, <1>5, <1>6, <1>7, <1>8
  DEF Next, Protocol, NoticeEnd, Complete, vars, Receive, CloseSocket, TakeOrders
-----------------------------------------------------------------------------
(***************************************************************************)
(* The theorems.                                                           *)
(***************************************************************************)
\* The strengthening holds from the start.
LEMMA ProtocolsInit ==
  ASSUME Init
  PROVE  ProtocolsInv
<1> FeedCap \in Nat /\ OrdersCap \in Nat
  OBVIOUS
<1>1. /\ kinds \in [ProtocolIds -> {"sar", "ts", "dummy"}] /\ kinds \in Mixes
      /\ protocols_side \in {"Buy", "Sell"}
  BY DEF Init
<1>2. PICK price \in Prices :
        indicator = [p \in ProtocolIds |->
                       IF kinds[p] = "sar" THEN [sar |-> price, factor |-> Start, extreme |-> price]
                       ELSE [top |-> 0, bottom |-> 0]]
  BY DEF Init
<1>3. \A p \in ProtocolIds : indicator[p] \in IF kinds[p] = "sar" THEN Sars ELSE Trails
  BY <1>2 DEF Sars, Trails
<1>4. indicator \in [ProtocolIds -> Sars \union Trails]
  BY <1>2, <1>3
<1>5. /\ feed = [p \in ProtocolIds |-> <<>>] /\ rx_orders = <<>>
      /\ <<>> \in Seq(Klines) /\ <<>> \in Seq([from : ProtocolIds, order : Stops]) /\ Len(<<>>) = 0
  BY EmptySeq DEF Init
<1>6. feed \in [ProtocolIds -> Seq(Klines)] /\ \A p \in ProtocolIds : Len(feed[p]) <= FeedCap
  BY <1>5
<1>7. {last_order, in_hand, wanted, known} \subseteq [ProtocolIds -> Stops]
  BY DEF Init, Stops
<1>8. TypeOK
  BY <1>1, <1>3, <1>4, <1>5, <1>6, <1>7 DEF Init, TypeOK
<1>9. Heard
  BY <1>5 DEF Heard, LastSaid, Init
<1>10. SaysWhatItWants /\ NothingWhileWarming
  BY <1>1 DEF Init, SaysWhatItWants, NothingWhileWarming
<1>11. StopFollows
  BY <1>1 DEF Init, StopFollows
<1> QED  BY <1>8, <1>9, <1>10, <1>11 DEF ProtocolsInv

\* And no step leaves it.
LEMMA ProtocolsInvariant == Spec => []ProtocolsInv
<1>1. ProtocolsInv /\ [Next]_vars => ProtocolsInv'
  BY TypePreserved, HeardPreserved, WantsPreserved DEF ProtocolsInv
<1> QED  BY ProtocolsInit, <1>1, PTL DEF Spec

\* What is at least as large as all of them is their largest.
LEMMA LargestIs ==
  ASSUME NEW S \in SUBSET Nat, NEW n \in S, \A m \in S : m <= n
  PROVE  Max(S) = n
<1>1. \A x \in S : (\A y \in S : x >= y) <=> x = n
  OBVIOUS
<1> QED  BY <1>1 DEF Max

\* Whatever the mix of protocols, the klines and trades they read and the order
\* tasks and position run in: a protocol with nothing in hand has told the stop
\* of its last step, and that is the one the position knows or hears of last.
THEOREM ToldIsWantedTheorem == Spec => []ToldIsWanted
<1>1. ASSUME ProtocolsInv  PROVE ToldIsWanted
  <2> SUFFICES ASSUME NEW p \in ProtocolIds, Alive(p), in_hand[p] = None
               PROVE  LastTold(p) = wanted[p]
    BY <1>1 DEF ToldIsWanted, ProtocolsInv
  <2> DEFINE said == {n \in DOMAIN rx_orders : rx_orders[n].from = p}
  <2>1. LastSaid(p, last_order[p]) /\ wanted[p] = last_order[p]
    BY <1>1 DEF ProtocolsInv, Heard, SaysWhatItWants, Alive
  <2>2. CASE said = {}
    BY <2>1, <2>2 DEF LastSaid, LastTold
  <2>3. CASE said # {}
    <3>1. PICK n \in said : (\A m \in said : m <= n) /\ rx_orders[n].order = last_order[p]
      BY <2>1, <2>3 DEF LastSaid
    <3>2. said \subseteq Nat
      BY <1>1, Shapes DEF ProtocolsInv
    <3> HIDE DEF said
    <3>3. Max(said) = n
      BY <3>1, <3>2, LargestIs
    <3> QED  BY <2>1, <2>3, <3>1, <3>3 DEF LastTold, said
  <2> QED  BY <2>2, <2>3
<1> QED  BY ProtocolsInvariant, <1>1, PTL

\* Whatever the prices and the parameters: a stop moves away from the price only
\* on a kline that trades through it.
THEOREM StopsLoosenOnlyWhenHitTheorem == Spec => StopsLoosenOnlyWhenHit
<1> DEFINE GivesWayWhenHit ==
             \A p \in ProtocolIds :
               /\ {wanted[p], wanted'[p]} \intersect {None, AtMarket} = {}
               /\ Looser(wanted'[p], wanted[p])
               => TradedThrough(Head(feed[p]), wanted[p])
<1>1. ASSUME ProtocolsInv, [Next]_vars  PROVE [GivesWayWhenHit]_vars
  <2> SUFFICES ASSUME NEW p \in ProtocolIds,
                      {wanted[p], wanted'[p]} \intersect {None, AtMarket} = {},
                      Looser(wanted'[p], wanted[p])
               PROVE  TradedThrough(Head(feed[p]), wanted[p])
    OBVIOUS
  <2>0. wanted[p] # None /\ wanted'[p] # None /\ wanted'[p] # wanted[p]
    <3>1. wanted[p] \in Int
      BY <1>1, Shapes DEF ProtocolsInv, Stops
    <3>2. wanted'[p] # wanted[p]
      BY <3>1 DEF Looser
    <3>3. wanted[p] # None /\ wanted'[p] # None
      OBVIOUS
    <3> QED  BY <3>2, <3>3
  <2>1. PICK r \in ProtocolIds : StepSar(r) \/ StepTrailing(r)
    BY <1>1, <2>0
    DEF Next, Protocol, NoticeEnd, Complete, Leave, vars, TakeOrders,
        Receive, CloseSocket, Panic, WarmUp, Tell, Finish
  <2>2. CASE StepSar(r)
    <3> DEFINE k == Head(feed[p])
    <3>1. r = p
      BY <1>1, <2>0, <2>2, SarWants DEF ProtocolsInv, TypeOK
    <3>2. k \in Klines /\ indicator[p] \in Sars /\ protocols_side \in {"Buy", "Sell"}
      BY <1>1, <2>2, <3>1, FeedTaken, Shapes DEF StepSar, ProtocolsInv
    <3>3. wanted[p] = indicator[p].sar /\ Beyond(p)
      BY <1>1, <2>0, <2>2, <3>1, SarWants DEF ProtocolsInv, StopFollows
    <3>4. wanted'[p] = SarOrder(indicator[p], k)
      BY <1>1, <2>2, <3>1 DEF StepSar, ProtocolsInv, TypeOK
    <3>5. /\ wanted'[p] = SarStep(indicator[p], k).sar
          /\ IsUptrend(indicator[p], k) = (protocols_side = "Sell")
      BY <2>0, <3>4 DEF SarOrder
    <3>6. SarStep(indicator[p], k).sar \in Nat /\ indicator[p].sar \in Nat
      BY <3>2, SarStepFollows DEF Sars
    <3>7. CASE protocols_side = "Sell"
      BY <3>2, <3>3, <3>5, <3>6, <3>7, SarStepFollows DEF Beyond, Looser, IsUptrend
    <3>8. CASE protocols_side = "Buy"
      BY <3>2, <3>3, <3>5, <3>6, <3>8, SarStepFollows DEF Beyond, Looser, IsUptrend, TradedThrough
    <3> QED  BY <3>2, <3>7, <3>8
  <2>3. CASE StepTrailing(r)
    <3>1. r = p
      BY <1>1, <2>0, <2>3, TrailWants DEF ProtocolsInv, TypeOK
    <3>2. /\ kinds[p] = "ts"
          /\ wanted'[p] = TrailStop(Followed(p)') /\ Followed(p)' \in Prices
          /\ Followed(p) # 0 => IF protocols_side = "Buy" THEN Followed(p)' < Followed(p)
                                                          ELSE Followed(p)' > Followed(p)
      BY <1>1, <2>0, <2>3, <3>1, TrailWants DEF ProtocolsInv
    <3>3. /\ wanted[p] = TrailStop(Followed(p)) /\ Followed(p) # 0
          /\ indicator[p] \in Trails /\ protocols_side \in {"Buy", "Sell"}
      BY <1>1, <2>0, <3>2, Shapes DEF ProtocolsInv, StopFollows
    <3>4. Followed(p) \in Prices
      BY <3>3 DEF Followed, Trails
    <3>5. TrailStop(Followed(p)) \in Nat /\ TrailStop(Followed(p)') \in Nat
      BY <3>2, <3>3, <3>4, TrailStopFollows
    <3>6. CASE protocols_side = "Buy"
      <4>1. TrailStop(Followed(p)') <= TrailStop(Followed(p))
        BY <3>2, <3>3, <3>4, <3>6, TrailStopFollows
      <4> QED  BY <3>2, <3>3, <3>5, <3>6, <4>1 DEF Looser
    <3>7. CASE protocols_side = "Sell"
      <4>1. TrailStop(Followed(p)) <= TrailStop(Followed(p)')
        BY <3>2, <3>3, <3>4, <3>7, TrailStopFollows
      <4> QED  BY <3>2, <3>3, <3>5, <3>7, <4>1 DEF Looser
    <3> QED  BY <3>3, <3>6, <3>7
  <2> QED  BY <2>1, <2>2, <2>3
<1> QED  BY ProtocolsInvariant, <1>1, PTL DEF Spec, StopsLoosenOnlyWhenHit
=============================================================================
