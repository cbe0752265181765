------------------------------ MODULE BooksProofs -----------------------------
(***************************************************************************)
(* Proofs about Books: for any feeds, prices and parameters of a limit the *)
(* published top is the best of the feeds, and an executor wants what its  *)
(* limit asks for.                                                         *)
(***************************************************************************)
EXTENDS Books, SequenceTheorems, WellFoundedInduction, TLAPS

\* Prices are positive, 0 is none of them, and a limit is at one of them.
LEMMA Constants ==
  /\ \A p \in Prices : p \in Nat /\ p # 0 /\ p # NoPrice
  /\ \A p \in Prices \union {NoPrice} : p \in Nat
  /\ \E highest \in Nat : \A p \in Prices : p <= highest
  /\ Parameters \subseteq [side : {"Buy", "Sell"}, limit : Prices, size : Nat \ {0}]
  /\ StreamCap \in Nat \ {0}
BY BooksAssumption DEF BooksAssumption, NoPrice

(***************************************************************************)
(* Lowest and highest of a set of prices.                                  *)
(***************************************************************************)
\* A set of naturals that is not empty has a least element.
LEMMA LeastNatural ==
  ASSUME NEW T, T \subseteq Nat, T # {}
  PROVE  \E x \in T : \A y \in T : x <= y
<1>1. PICK x \in T : \A y \in T : ~ (<<y, x>> \in OpToRel(<, Nat))
  BY NatLessThanWellFounded, WFMin
<1>2. ASSUME NEW y \in T
      PROVE  x <= y
  <2>1. <<y, x>> \in Nat \X Nat /\ <<y, x>>[1] = y /\ <<y, x>>[2] = x
    OBVIOUS
  <2>2. ~ (y < x)
    BY <1>1, <2>1 DEF OpToRel
  <2>. QED  BY <2>2
<1>. QED  BY <1>2

\* The minimum of some prices is one of them, and none is lower.
LEMMA MinOfPrices ==
  ASSUME NEW T, T \subseteq Prices, T # {}
  PROVE  Min(T) \in T /\ \A y \in T : Min(T) <= y
<1>1. \E x \in T : \A y \in T : x <= y
  BY Constants, LeastNatural
<1>. QED  BY <1>1 DEF Min

\* The maximum of some prices is one of them, and none is higher: as there is a
\* highest price, it is the one least far from that.
LEMMA MaxOfPrices ==
  ASSUME NEW T, T \subseteq Prices, T # {}
  PROVE  Max(T) \in T /\ \A y \in T : Max(T) >= y
<1>1. PICK highest \in Nat : \A p \in Prices : p \in Nat /\ p <= highest
  BY Constants
<1>. DEFINE distances == {highest - t : t \in T}
<1>2. distances \subseteq Nat /\ distances # {}
  <2>1. \A t \in T : highest - t \in Nat
    BY <1>1
  <2>. QED  BY <2>1
<1>3. PICK d \in distances : \A e \in distances : d <= e
  BY <1>2, LeastNatural
<1>4. PICK x \in T : d = highest - x
  OBVIOUS
<1>5. ASSUME NEW y \in T
      PROVE  x >= y
  <2>1. highest - x <= highest - y
    BY <1>3, <1>4
  <2>. QED  BY <1>1, <2>1
<1>. QED  BY <1>5 DEF Max

\* What is published is, on each side, the price of a feed that no feed betters,
\* and no price only if none has one.
LEMMA BestIsBest ==
  ASSUME NEW books, books \subseteq Tops
  PROVE  /\ BestOf(books) \in [bid : Prices \union {NoPrice}, ask : Prices \union {NoPrice}]
         /\ \A b \in books :
              /\ b.bid # NoPrice => BestOf(books).bid # NoPrice /\ BestOf(books).bid >= b.bid
              /\ b.ask # NoPrice => BestOf(books).ask # NoPrice /\ BestOf(books).ask <= b.ask
         /\ BestOf(books).bid # NoPrice => \E b \in books : b.bid = BestOf(books).bid
         /\ BestOf(books).ask # NoPrice => \E b \in books : b.ask = BestOf(books).ask
<1>. DEFINE bids == {b.bid : b \in books} \ {NoPrice}
            asks == {b.ask : b \in books} \ {NoPrice}
<1>1. \A b \in books : b.bid \in Prices \union {NoPrice} /\ b.ask \in Prices \union {NoPrice}
  BY DEF Tops
<1>2. bids \subseteq Prices /\ asks \subseteq Prices
  BY <1>1
<1>3. BestOf(books) = [bid |-> IF bids = {} THEN NoPrice ELSE Max(bids),
                       ask |-> IF asks = {} THEN NoPrice ELSE Min(asks)]
  BY DEF BestOf
<1>4. bids # {} => Max(bids) \in bids /\ \A y \in bids : Max(bids) >= y
  BY <1>2, MaxOfPrices
<1>5. asks # {} => Min(asks) \in asks /\ \A y \in asks : Min(asks) <= y
  BY <1>2, MinOfPrices
<1>6. /\ \A b \in books : b.bid # NoPrice => b.bid \in bids
      /\ \A b \in books : b.ask # NoPrice => b.ask \in asks
      /\ \A p \in bids : p # NoPrice /\ \E b \in books : b.bid = p
      /\ \A p \in asks : p # NoPrice /\ \E b \in books : b.ask = p
  OBVIOUS
<1>. DEFINE bid == IF bids = {} THEN NoPrice ELSE Max(bids)
            ask == IF asks = {} THEN NoPrice ELSE Min(asks)
<1>7. BestOf(books).bid = bid /\ BestOf(books).ask = ask /\ BestOf(books) = [bid |-> bid, ask |-> ask]
  BY <1>3
<1>. HIDE DEF bids, asks
<1>8. /\ bid \in Prices \union {NoPrice} /\ ask \in Prices \union {NoPrice}
      /\ bid # NoPrice => bid \in bids
      /\ ask # NoPrice => ask \in asks
      /\ \A p \in bids : bid # NoPrice /\ bid >= p
      /\ \A p \in asks : ask # NoPrice /\ ask <= p
  BY <1>2, <1>4, <1>5, <1>6
<1>. HIDE DEF bid, ask
<1>. QED  BY <1>6, <1>7, <1>8

-----------------------------------------------------------------------------
(***************************************************************************)
(* The invariant.  What next() said last and what the executor keeps are   *)
(* the same order.                                                         *)
(***************************************************************************)
BooksInv == TopIsBest /\ order_cache = prev

\* A limit asks for an order at one of the prices, within its limit.
LEMMA OrderWithin ==
  ASSUME NEW l \in Parameters,
         NEW t \in [bid : Prices \union {NoPrice}, ask : Prices \union {NoPrice}]
  PROVE  /\ Order(l, t) \in Orders
         /\ IF l.side = "Buy" THEN Order(l, t).price <= l.limit ELSE Order(l, t).price >= l.limit
<1>1. l.side \in {"Buy", "Sell"} /\ l.limit \in Prices /\ l.limit \in Nat
  BY Constants
<1>2. /\ t.bid \in Prices \union {NoPrice} /\ t.bid \in Nat
      /\ t.ask \in Prices \union {NoPrice} /\ t.ask \in Nat
  BY Constants
<1>3. /\ Join(l, t) \in Prices
      /\ l.side = "Buy" => Join(l, t) <= l.limit
      /\ l.side # "Buy" => Join(l, t) >= l.limit
  BY <1>1, <1>2 DEF Join
<1>4. Order(l, t).price = Join(l, t)
  BY DEF Order
<1>5. Order(l, t) \in Orders
  BY <1>3 DEF Order, Orders
<1>. QED  BY <1>3, <1>4, <1>5

\* A message of a stream is taken from its front.
LEMMA StreamTaken ==
  ASSUME TypeOK, NEW f \in Feeds, stream[f] # <<>>
  PROVE  /\ Head(stream[f]) \in Tops \union {Error}
         /\ [stream EXCEPT ![f] = Tail(@)] \in [Feeds -> Seq(Tops \union {Error})]
         /\ \A g \in Feeds : Len([stream EXCEPT ![f] = Tail(@)][g]) <= StreamCap
<1>1. stream[f] \in Seq(Tops \union {Error})
  BY DEF TypeOK
<1>2. /\ Head(stream[f]) \in Tops \union {Error}
      /\ Tail(stream[f]) \in Seq(Tops \union {Error})
      /\ Len(Tail(stream[f])) = Len(stream[f]) - 1
  BY <1>1, HeadTailProperties
<1>3. Len(stream[f]) \in Nat
  BY <1>1, LenProperties
<1>. QED  BY <1>2, <1>3, Constants DEF TypeOK

\* A venue sends something.
LEMMA SendKeeps ==
  ASSUME BooksInv, NEW f \in Feeds, NEW result \in Tops \union {Error}, Send(f, result)
  PROVE  BooksInv'
<1>1. TypeOK /\ stream[f] \in Seq(Tops \union {Error})
  BY DEF BooksInv, TopIsBest, TypeOK
<1>2. /\ Append(stream[f], result) \in Seq(Tops \union {Error})
      /\ Len(Append(stream[f], result)) = Len(stream[f]) + 1
      /\ Len(stream[f]) \in Nat
  BY <1>1, AppendProperties, LenProperties
<1>3. /\ stream' \in [Feeds -> Seq(Tops \union {Error})]
      /\ \A g \in Feeds : Len(stream'[g]) <= StreamCap
  BY <1>1, <1>2, Constants DEF Send, TypeOK
<1>. QED  BY <1>1, <1>3 DEF Send, BooksInv, TopIsBest, TypeOK, limitVars

\* The books of the feeds are folded tops.
LEMMA BooksAreTops ==
  ASSUME NEW fs, fs \in [DOMAIN fs -> Tops]
  PROVE  BooksIn(fs) \subseteq Tops
BY DEF BooksIn

\* A feed has news: it is folded and the best of all is published.
LEMMA PullUpdatesKeeps ==
  ASSUME BooksInv, NEW f \in Feeds, PullUpdates(f)
  PROVE  BooksInv'
<1>1. TypeOK
  BY DEF BooksInv, TopIsBest
<1>2. /\ Head(stream[f]) \in Tops
      /\ stream' \in [Feeds -> Seq(Tops \union {Error})]
      /\ \A g \in Feeds : Len(stream'[g]) <= StreamCap
  BY <1>1, StreamTaken DEF PullUpdates
<1>3. feeds' \in [DOMAIN feeds' -> Tops] /\ DOMAIN feeds' = DOMAIN feeds
  BY <1>1, <1>2 DEF PullUpdates, TypeOK
<1>4. top' = BestOf(BooksIn(feeds')) /\ dropped' = FALSE
      /\ executor' = IF executor = "waiting" THEN "notified" ELSE executor
  BY DEF PullUpdates, Publish
<1>5. BooksIn(feeds') \subseteq Tops
  BY <1>3, BooksAreTops
<1>6. top' \in [bid : Prices \union {NoPrice}, ask : Prices \union {NoPrice}]
  BY <1>4, <1>5, BestIsBest
<1>7. TypeOK'
  BY <1>1, <1>2, <1>3, <1>4, <1>6 DEF PullUpdates, TypeOK, limitVars
<1>8. /\ top'.bid >= BestOf(BooksIn(feeds')).bid
      /\ top'.ask <= BestOf(BooksIn(feeds')).ask
  <2>1. top'.bid \in Nat /\ top'.ask \in Nat
    BY <1>6, Constants
  <2>. QED  BY <1>4, <2>1
<1>9. futs' = DOMAIN feeds'
  BY <1>3 DEF PullUpdates, BooksInv, TopIsBest
<1>. QED  BY <1>4, <1>7, <1>8, <1>9 DEF BooksInv, TopIsBest, PullUpdates, limitVars

\* A feed fails and is dropped: the best of those that are left is no better than
\* the best of all.
LEMMA PullErrorKeeps ==
  ASSUME BooksInv, NEW f \in Feeds, PullError(f)
  PROVE  BooksInv'
<1>1. TypeOK
  BY DEF BooksInv, TopIsBest
<1>2. /\ stream' \in [Feeds -> Seq(Tops \union {Error})]
      /\ \A g \in Feeds : Len(stream'[g]) <= StreamCap
  BY <1>1, StreamTaken DEF PullError
<1>3. /\ feeds' \in [DOMAIN feeds' -> Tops] /\ DOMAIN feeds' \subseteq Feeds
      /\ BooksIn(feeds') \subseteq BooksIn(feeds)
  BY <1>1 DEF PullError, TypeOK, BooksIn
<1>4. TypeOK'
  BY <1>1, <1>2, <1>3 DEF PullError, TypeOK, limitVars
<1>. DEFINE before == BooksIn(feeds)
            after == BooksIn(feeds')
<1>5. before \subseteq Tops /\ after \subseteq Tops /\ after \subseteq before
  BY <1>1, <1>3, BooksAreTops DEF TypeOK
<1>6. /\ BestOf(before).bid # NoPrice => top.bid >= BestOf(before).bid
      /\ BestOf(before).ask # NoPrice => top.ask # NoPrice /\ top.ask <= BestOf(before).ask
  BY DEF BooksInv, TopIsBest
<1>. HIDE DEF before, after
<1>7. /\ \A b \in before :
           /\ b.bid # NoPrice => BestOf(before).bid # NoPrice /\ BestOf(before).bid >= b.bid
           /\ b.ask # NoPrice => BestOf(before).ask # NoPrice /\ BestOf(before).ask <= b.ask
      /\ BestOf(before) \in [bid : Prices \union {NoPrice}, ask : Prices \union {NoPrice}]
  BY <1>5, BestIsBest
<1>8. /\ BestOf(after).bid # NoPrice => \E b \in after : b.bid = BestOf(after).bid
      /\ BestOf(after).ask # NoPrice => \E b \in after : b.ask = BestOf(after).ask
      /\ BestOf(after) \in [bid : Prices \union {NoPrice}, ask : Prices \union {NoPrice}]
  BY <1>5, BestIsBest
<1>9. /\ BestOf(after).bid # NoPrice => top.bid >= BestOf(after).bid
      /\ BestOf(after).ask # NoPrice => top.ask # NoPrice /\ top.ask <= BestOf(after).ask
  <2>1. top.bid \in Nat /\ top.ask \in Nat /\ Prices \union {NoPrice} \subseteq Nat
    BY <1>1, Constants DEF TypeOK
  <2>. QED  BY <1>5, <1>6, <1>7, <1>8, <2>1
<1>10. UNCHANGED <<top, limitVars>> /\ dropped' = TRUE
  BY DEF PullError
<1>11. futs' = DOMAIN feeds'
  BY DEF PullError, BooksInv, TopIsBest
<1>. QED  BY <1>4, <1>9, <1>10, <1>11 DEF BooksInv, TopIsBest, limitVars, after

\* The executor reads the top.
LEMMA ExecutorTickKeeps ==
  ASSUME BooksInv, ExecutorTick
  PROVE  BooksInv'
<1>1. TypeOK /\ limit \in Parameters
      /\ top \in [bid : Prices \union {NoPrice}, ask : Prices \union {NoPrice}]
  BY DEF BooksInv, TopIsBest, TypeOK
<1>2. Order(limit, top) \in Orders
  BY <1>1, OrderWithin
<1>. QED  BY <1>1, <1>2 DEF ExecutorTick, BooksInv, TopIsBest, TypeOK, bookVars

-----------------------------------------------------------------------------
\* BooksInv holds in every state.
LEMMA BooksInvariant == Spec => []BooksInv
<1>1. Init => BooksInv
  <2>. SUFFICES ASSUME Init PROVE BooksInv  OBVIOUS
  <2>1. PICK subscribed \in SUBSET Feeds : feeds = [f \in subscribed |-> Nothing]
    BY DEF Init
  <2>2. Nothing \in Tops /\ BooksIn(feeds) \subseteq {Nothing}
    BY <2>1 DEF Nothing, Tops, BooksIn, NoPrice
  <2>3. BestOf(BooksIn(feeds)) = Nothing
    BY <2>2 DEF BestOf, Nothing, NoPrice
  <2>4. stream \in [Feeds -> Seq(Tops \union {Error})] /\ \A f \in Feeds : Len(stream[f]) = 0
    BY EmptySeq DEF Init
  <2>5. feeds \in [DOMAIN feeds -> Tops] /\ DOMAIN feeds \subseteq Feeds /\ futs \subseteq Feeds
    BY <2>1, <2>2 DEF Init
  <2>6. TypeOK
    <3>1. Nothing \in [bid : Prices \union {NoPrice}, ask : Prices \union {NoPrice}]
      BY DEF Nothing
    <3>2. 0 <= StreamCap
      BY Constants
    <3>3. \A f \in Feeds : Len(stream[f]) <= StreamCap
      BY <2>4, <3>2
    <3>4. {prev, order_cache, desired} \subseteq Orders
      BY DEF Init, Orders
    <3>5. /\ top = Nothing /\ dropped = FALSE /\ executor = "idle" /\ limit \in Parameters
      BY DEF Init
    <3>. QED  BY <2>4, <2>5, <3>1, <3>3, <3>4, <3>5 DEF TypeOK
  <2>. QED  BY <2>1, <2>3, <2>6 DEF Init, BooksInv, TopIsBest, Nothing, NoPrice
<1>2. BooksInv /\ [Next]_vars => BooksInv'
  <2>. SUFFICES ASSUME BooksInv, [Next]_vars PROVE BooksInv'  OBVIOUS
  <2>1. CASE \E f \in Feeds : \E result \in Tops \union {Error} : Send(f, result)
    BY <2>1, SendKeeps
  <2>2. CASE \E f \in Feeds : PullUpdates(f)
    BY <2>2, PullUpdatesKeeps
  <2>3. CASE \E f \in Feeds : PullError(f)
    BY <2>3, PullErrorKeeps
  <2>4. CASE Adjust
    BY <2>4 DEF Adjust, BooksInv, TopIsBest, TypeOK, bookVars
  <2>5. CASE Wait
    BY <2>5 DEF Wait, BooksInv, TopIsBest, TypeOK, bookVars, limitVars
  <2>6. CASE ExecutorTick
    BY <2>6, ExecutorTickKeeps
  <2>7. CASE UNCHANGED vars
    BY <2>7 DEF vars, bookVars, limitVars, BooksInv, TopIsBest, TypeOK
  <2>. QED  BY <2>1, <2>2, <2>3, <2>4, <2>5, <2>6, <2>7 DEF Next
<1>. QED  BY <1>1, <1>2, PTL DEF Spec

\* The top that executors read is no worse than any subscribed feed, and exactly
\* the best of them unless one was just dropped (book.rs:141-161).
THEOREM TopIsTheBest == Spec => []TopIsBest
<1>1. BooksInv => TopIsBest
  BY DEF BooksInv
<1>. QED  BY <1>1, BooksInvariant, PTL

\* Falling back on its cache when next() has nothing new to say, the executor
\* still wants exactly what the limit asks for now (algo.rs:114-118,
\* lib.rs:78-89), however it was adjusted in between.
THEOREM DesiredIsTheLatest == Spec => DesiredIsLatest
<1>. DEFINE Latest == executor = "notified" /\ executor' = "idle" =>
                        /\ desired' = Order(limit, top)
                        /\ IF limit.side = "Buy" THEN desired'.price <= limit.limit
                                                 ELSE desired'.price >= limit.limit
<1>1. BooksInv /\ [Next]_vars => [Latest]_vars
  <2>. SUFFICES ASSUME BooksInv, Next, executor = "notified", executor' = "idle"
                PROVE  Latest
    OBVIOUS
  <2>1. ExecutorTick
    BY DEF Next, Send, PullUpdates, PullError, Publish, Adjust, Wait, bookVars
  <2>2. desired' = Order(limit, top)
    BY <2>1 DEF ExecutorTick, Unchanged, BooksInv
  <2>3. limit \in Parameters
        /\ top \in [bid : Prices \union {NoPrice}, ask : Prices \union {NoPrice}]
    BY DEF BooksInv, TopIsBest, TypeOK
  <2>. QED  BY <2>2, <2>3, OrderWithin
<1>. QED  BY <1>1, BooksInvariant, PTL DEF Spec, DesiredIsLatest
=============================================================================
