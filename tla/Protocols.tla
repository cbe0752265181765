------------------------------ MODULE Protocols -------------------------------
(***************************************************************************)
(* The protocols a position is bought or closed with (sar.rs,              *)
(* trailing_stop.rs, dummy_market.rs) and what binds them to it            *)
(* (positions.rs, init_protocols and the select! of both loops).           *)
(*                                                                         *)
(* Each protocol is a task with two inside: one reads the web socket into  *)
(* a bounded feed, one steps the indicator and tells the position the stop *)
(* it wants, over a channel all protocols share.  Either task panics on    *)
(* what it unwraps, and takes the protocol with it.                        *)
(*                                                                         *)
(* Prices are integers.  What is read of a kline is its low and high; a    *)
(* trade has one price for both.  Fractions are eighths, rounded down.     *)
(***************************************************************************)
EXTENDS Integers, Sequences, FiniteSetsExt

CONSTANTS
  ProtocolIds,
  Mixes,        \* what they may be: functions to {"sar", "ts", "dummy"}
  Prices,       \* what is traded at
  Start,        \* of the acceleration factor, in eighths
  Increment,
  MaxFactor,
  Percent,      \* of the trailing stop, in eighths
  FeedCap,      \* 256 in the code
  OrdersCap     \* 256 in the code

ASSUME ProtocolsAssumption ==
  /\ Mixes \subseteq [ProtocolIds -> {"sar", "ts", "dummy"}]
  /\ Prices \subseteq Nat \ {0}
  /\ {Start, Increment, MaxFactor} \subseteq 1..8 /\ Percent \in 1..7
  /\ {FeedCap, OrdersCap} \subseteq Nat \ {0}

VARIABLES
  kinds,           \* the mix of this position
  protocols_side,  \* the side the protocols are attached with
  task,            \* of each protocol: "warming", "running", "ended" or "panicked"
  open,            \* whether its web socket is
  feed,            \* what was read and not stepped on
  indicator,
  last_order,      \* the stop last sent, None before (kept for "ts" as history)
  in_hand,         \* the stop being sent, None
  wanted,          \* history: the stop of the last step, None
  rx_orders,       \* the shared channel
  known,           \* the position's stop of each protocol
  position         \* "running", "done" or "panicked"

attached == <<kinds, protocols_side>>
vars == <<attached, task, open, feed, indicator, last_order, in_hand, wanted, rx_orders, known,
          position>>

None == 0
AtMarket == -1     \* what a dummy_market order says instead of a stop

Klines == {k \in [low : Prices, high : Prices] : k.low <= k.high}

Init ==
  /\ kinds \in Mixes /\ protocols_side \in {"Buy", "Sell"}
  /\ task = [p \in ProtocolIds |-> IF kinds[p] = "sar" THEN "warming" ELSE "running"]
  /\ open = [p \in ProtocolIds |-> kinds[p] # "dummy"]
  /\ feed = [p \in ProtocolIds |-> <<>>]
  /\ \E price \in Prices :
       indicator = [p \in ProtocolIds |->
                      IF kinds[p] = "sar" THEN [sar |-> price, factor |-> Start, extreme |-> price]
                      ELSE [top |-> 0, bottom |-> 0]]
  /\ in_hand = [p \in ProtocolIds |-> IF kinds[p] = "dummy" THEN AtMarket ELSE None]
  /\ wanted = in_hand
  /\ last_order = [p \in ProtocolIds |-> None]
  /\ rx_orders = <<>> /\ known = last_order /\ position = "running"

-----------------------------------------------------------------------------
(***************************************************************************)
(* The indicators.                                                         *)
(***************************************************************************)
Lower(a, b) == IF a < b THEN a ELSE b
Higher(a, b) == IF a < b THEN b ELSE a

IsUptrend(i, k) == i.sar < k.low

Unclamped(i, k) == i.sar + (i.factor * (i.extreme - i.sar)) \div 8  \* MUTANT of MovedSar

MovedSar(i, k) ==
  LET moved == i.sar + (i.factor * (i.extreme - i.sar)) \div 8
  IN IF IsUptrend(i, k) THEN Lower(Lower(moved, k.low), i.extreme)
                        ELSE Higher(Higher(moved, k.high), i.extreme)

SarStep(i, k) ==
  LET up == IsUptrend(i, k)
      sar == MovedSar(i, k)
      news == IF up THEN k.high > i.extreme ELSE k.low < i.extreme
      reversal == IF up THEN k.low < sar ELSE k.high > sar
      extreme == IF ~news THEN i.extreme ELSE IF up THEN k.high ELSE k.low
      factor == IF news THEN Lower(i.factor + Increment, MaxFactor) ELSE i.factor
  IN IF reversal
     THEN [sar |-> extreme, factor |-> Start, extreme |-> IF up THEN k.low ELSE k.high]
     ELSE [sar |-> sar, factor |-> factor, extreme |-> extreme]

\* A stop on the followup's side of the trend, none on the other.
SarOrder(i, k) ==
  IF IsUptrend(i, k) = (protocols_side = "Sell") THEN SarStep(i, k).sar ELSE None

NewBottom(i, price) == price < i.bottom \/ i.bottom = 0
NewTop(i, price) == price > i.top \/ i.top = 0

\* A new bottom returns early on the side of Buy, before the top is looked at.
TrailStep(i, price) ==
  LET below == IF NewBottom(i, price) THEN [i EXCEPT !.bottom = price] ELSE i
  IN IF NewTop(i, price) /\ ~(NewBottom(i, price) /\ protocols_side = "Buy")
     THEN [below EXCEPT !.top = price] ELSE below

TrailStop(price) ==
  LET distance == (price * Percent) \div 8
  IN IF protocols_side = "Buy" THEN price + distance ELSE price - distance

TrailOrder(i, price) ==
  LET follows == IF protocols_side = "Buy" THEN NewBottom(i, price) ELSE NewTop(i, price)
  IN IF follows THEN TrailStop(price) ELSE None

-----------------------------------------------------------------------------
(***************************************************************************)
(* The tasks.  They live as long as the position.                          *)
(***************************************************************************)
Alive(p) == position = "running" /\ task[p] \in {"warming", "running"}

\* A kline or trade arrives; the reader waits while the feed is full.
Receive(p, k) ==
  /\ Alive(p) /\ open[p]
  /\ kinds[p] = "ts" => k.low = k.high
  /\ Len(feed[p]) < FeedCap
  /\ feed' = [feed EXCEPT ![p] = Append(@, k)]
  /\ UNCHANGED <<attached, task, open, indicator, last_order, in_hand, wanted, rx_orders,
                 known, position>>

CloseSocket(p) ==
  /\ Alive(p) /\ open[p]
  /\ open' = [open EXCEPT ![p] = FALSE]
  /\ UNCHANGED <<attached, task, feed, indicator, last_order, in_hand, wanted, rx_orders,
                 known, position>>

\* An unwrap of either task: the connection, a message, the historic klines.
Panic(p) ==
  /\ Alive(p) /\ (open[p] \/ task[p] = "warming")
  /\ task' = [task EXCEPT ![p] = "panicked"]
  /\ feed' = [feed EXCEPT ![p] = <<>>]
  /\ in_hand' = [in_hand EXCEPT ![p] = None]
  /\ UNCHANGED <<attached, open, indicator, last_order, wanted, rx_orders, known, position>>

\* SarIndicator::init, one historic kline after another; nothing is told.
WarmUp(p) ==
  /\ Alive(p) /\ task[p] = "warming"
  /\ \E k \in Klines : indicator' = [indicator EXCEPT ![p] = SarStep(@, k)]
  /\ \/ task' = [task EXCEPT ![p] = "running"]
     \/ UNCHANGED task
  /\ UNCHANGED <<attached, open, feed, last_order, in_hand, wanted, rx_orders, known, position>>

ToldOnce(p, order) == last_order[p] = None /\ order # None  \* MUTANT of Changed

Changed(p, order) == last_order[p] # order

\* ProtocolOrders::new asserts that there is a symbol, so a lone None panics.
StepSar(p) ==
  /\ Alive(p) /\ task[p] = "running" /\ kinds[p] = "sar"
  /\ in_hand[p] = None /\ feed[p] # <<>>
  /\ LET k == Head(feed[p])
         order == SarOrder(indicator[p], k)
         panics == Changed(p, order) /\ order = None
     IN /\ indicator' = [indicator EXCEPT ![p] = SarStep(@, k)]
        /\ wanted' = [wanted EXCEPT ![p] = order]
        /\ in_hand' = [in_hand EXCEPT ![p] = IF Changed(p, order) THEN order ELSE None]
        /\ task' = [task EXCEPT ![p] = IF panics THEN "panicked" ELSE @]
        /\ feed' = [feed EXCEPT ![p] = IF panics THEN <<>> ELSE Tail(@)]
  /\ UNCHANGED <<attached, open, last_order, rx_orders, known, position>>

StepTrailing(p) ==
  /\ Alive(p) /\ kinds[p] = "ts"
  /\ in_hand[p] = None /\ feed[p] # <<>>
  /\ LET price == Head(feed[p]).low
         order == TrailOrder(indicator[p], price)
     IN /\ indicator' = [indicator EXCEPT ![p] = TrailStep(@, price)]
        /\ in_hand' = [in_hand EXCEPT ![p] = order]
        /\ wanted' = [wanted EXCEPT ![p] = IF order = None THEN @ ELSE order]
  /\ feed' = [feed EXCEPT ![p] = Tail(@)]
  /\ UNCHANGED <<attached, task, open, last_order, rx_orders, known, position>>

Queued(s, e) == Append(s, e)

Tell(p) ==
  /\ Alive(p) /\ in_hand[p] # None
  /\ Len(rx_orders) < OrdersCap
  /\ rx_orders' = Queued(rx_orders, [from |-> p, order |-> in_hand[p]])
  /\ last_order' = [last_order EXCEPT ![p] = in_hand[p]]
  /\ in_hand' = [in_hand EXCEPT ![p] = None]
  /\ UNCHANGED <<attached, task, open, feed, indicator, wanted, known, position>>

\* The socket is closed and the feed is drained: both tasks return.
Finish(p) ==
  /\ Alive(p) /\ task[p] = "running" /\ kinds[p] # "dummy"
  /\ ~open[p] /\ feed[p] = <<>> /\ in_hand[p] = None
  /\ task' = [task EXCEPT ![p] = "ended"]
  /\ UNCHANGED <<attached, open, feed, indicator, last_order, in_hand, wanted, rx_orders,
                 known, position>>

Protocol(p) ==
  \/ \E k \in Klines : Receive(p, k)
  \/ CloseSocket(p) \/ Panic(p) \/ WarmUp(p)
  \/ StepSar(p) \/ StepTrailing(p) \/ Tell(p) \/ Finish(p)

-----------------------------------------------------------------------------
(***************************************************************************)
(* The position, as far as it minds its protocols.                         *)
(***************************************************************************)
TakeOrders ==
  /\ position = "running" /\ rx_orders # <<>>
  /\ known' = [known EXCEPT ![Head(rx_orders).from] = Head(rx_orders).order]
  /\ rx_orders' = Tail(rx_orders)
  /\ UNCHANGED <<attached, task, open, feed, indicator, last_order, in_hand, wanted, position>>

\* The loop is left: its channel goes, and the JoinSet with the tasks.
Leave(how) ==
  /\ position = "running"
  /\ position' = how
  /\ feed' = [p \in ProtocolIds |-> <<>>]
  /\ in_hand' = [p \in ProtocolIds |-> None]
  /\ rx_orders' = <<>>
  /\ UNCHANGED <<attached, task, open, indicator, last_order, wanted, known>>

NoticeOther(p) == task[p] = "ended"  \* MUTANT of HasEnded: a panic goes unnoticed

HasEnded(p) == task[p] \in {"ended", "panicked"}

\* join_next returned, and "all protocols are endless": unreachable!()
NoticeEnd ==
  /\ \E p \in ProtocolIds : HasEnded(p)
  /\ Leave("panicked")

\* Enough is executed; some protocol had asked for it.
Complete ==
  /\ \E p \in ProtocolIds : known[p] # None
  /\ Leave("done")

Next ==
  \/ \E p \in ProtocolIds : Protocol(p)
  \/ TakeOrders \/ NoticeEnd \/ Complete

Spec == Init /\ [][Next]_vars

\* A waiting sender gets its turn when there is room (the channel is fair), and
\* select! takes its branches in random order; the hub takes what the position
\* sends it, so the loop comes round.
FairSpec ==
  /\ Spec
  /\ WF_vars(TakeOrders) /\ WF_vars(NoticeEnd)
  /\ \A p \in ProtocolIds : SF_vars(Tell(p))

-----------------------------------------------------------------------------
(***************************************************************************)
(* Properties.                                                             *)
(***************************************************************************)
Stops == {AtMarket} \union Nat

Sars == [sar : Nat \ {0}, factor : 1..8, extreme : Nat \ {0}]
Trails == [top : Prices \union {0}, bottom : Prices \union {0}]

TypeOK ==
  /\ kinds \in Mixes /\ protocols_side \in {"Buy", "Sell"}
  /\ position \in {"running", "done", "panicked"}
  /\ task \in [ProtocolIds -> {"warming", "running", "ended", "panicked"}]
  /\ open \in [ProtocolIds -> BOOLEAN]
  /\ feed \in [ProtocolIds -> Seq(Klines)]
  /\ \A p \in ProtocolIds : Len(feed[p]) <= FeedCap
  /\ indicator \in [ProtocolIds -> Sars \union Trails]
  /\ \A p \in ProtocolIds : indicator[p] \in IF kinds[p] = "sar" THEN Sars ELSE Trails
  /\ {last_order, in_hand, wanted, known} \subseteq [ProtocolIds -> Stops]
  /\ rx_orders \in Seq([from : ProtocolIds, order : Stops]) /\ Len(rx_orders) <= OrdersCap

\* What p last said that is known or on its way.
LastTold(p) ==
  LET said == {n \in DOMAIN rx_orders : rx_orders[n].from = p}
  IN IF said = {} THEN known[p] ELSE rx_orders[Max(said)].order

\* Every variable keeps its shape and, while a protocol has nothing in hand, what
\* the position knows or is about to hear from it is the stop its last step
\* asked for: the orders the position allocates from are never those of an
\* earlier step for good (sar.rs:83-87, trailing_stop.rs:57-62).
ToldIsWanted ==
  /\ TypeOK
  /\ \A p \in ProtocolIds :
       Alive(p) /\ in_hand[p] = None => LastTold(p) = wanted[p]

Looser(new, old) == IF protocols_side = "Buy" THEN new > old ELSE new < old
TradedThrough(k, stop) == IF protocols_side = "Buy" THEN k.high >= stop ELSE k.low <= stop

\* A stop follows the price and never moves away from it, unless the price has
\* just traded through it, whatever history and klines came before
\* (sar.rs:126-169, trailing_stop.rs:91-111).
StopsLoosenOnlyWhenHit ==
  [][\A p \in ProtocolIds :
       /\ {wanted[p], wanted'[p]} \intersect {None, AtMarket} = {}
       /\ Looser(wanted'[p], wanted[p])
       => TradedThrough(Head(feed[p]), wanted[p])]_vars

\* A protocol that has something to say gets to say it, however full the channel
\* and however busy the others, unless the position ends: with what it wanted,
\* or by the panic of a protocol, which never goes unnoticed (positions.rs:97-98,
\* 156-157).
TellsOrEnds ==
  \A p \in ProtocolIds :
    (in_hand[p] # None \/ task[p] = "panicked") ~>
      ((in_hand[p] = None /\ task[p] # "panicked") \/ position # "running")

\* docs/spec/protocol.md:15: a slot a protocol has no use for is None.  A Sar
\* whose trend turns asks for that, and panics.
SurvivesTrendChange ==
  \A p \in ProtocolIds : task[p] = "panicked" => wanted[p] # None \/ last_order[p] = None

\* positions.rs:98: "All protocols are endless".
ProtocolsAreEndless == position # "panicked"
=============================================================================
