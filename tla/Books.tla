-------------------------------- MODULE Books ---------------------------------
(***************************************************************************)
(* The top of the book over all feeds of an asset (data crate, book.rs)    *)
(* and what a ConceptualLimit makes of it (routing crate, algo.rs and      *)
(* Executor::tick).                                                        *)
(*                                                                         *)
(* One task pulls results from the feeds, folds them and publishes.        *)
(* Another waits for the book to tick and asks the limit for the orders it *)
(* wants out.  They share the top and a Notify, nothing else.              *)
(*                                                                         *)
(* A feed's ladder is abstracted to its best prices, the orders of a limit *)
(* to the single one it has.  The crates are being moved apart: snapshot() *)
(* of the routing crate is read as top(), and the body of tick() ends in   *)
(* todo!() after the step modelled here, so who calls it again is          *)
(* environment.                                                            *)
(***************************************************************************)
EXTENDS Integers, Sequences, FiniteSetsExt

CONSTANTS
  Feeds,        \* (venue, instrument) pairs
  Prices,
  Parameters,   \* what a limit may be adjusted to
  StreamCap     \* bound: results a feed holds that were not pulled

ASSUME BooksAssumption ==
  /\ Prices \subseteq Nat \ {0}
  /\ \E highest \in Prices : \A p \in Prices : p <= highest
  /\ Parameters \subseteq [side : {"Buy", "Sell"}, limit : Prices, size : Nat \ {0}]
  /\ StreamCap \in Nat \ {0}

VARIABLES
  stream,       \* what each feed's stream holds: updates, then an error maybe
  feeds,        \* [subscribed feed -> its folded book]
  futs,         \* feeds whose next result is awaited
  top,          \* published, with the rest of BookShared
  executor,     \* "idle", "waiting" (in tick()) or "notified"
  limit,        \* the ConceptualLimit's parameters
  prev,         \* __prev, None before the first call
  order_cache,  \* None before
  desired,      \* of the last tick of the executor, None
  dropped       \* history: a feed was, since the last publish

bookVars == <<stream, feeds, futs, top, dropped>>
limitVars == <<limit, prev, order_cache, desired>>
vars == <<bookVars, executor, limitVars>>

NoPrice == 0
None == [side |-> "none", price |-> NoPrice, size |-> 0]
Nothing == [bid |-> NoPrice, ask |-> NoPrice]   \* Top::default()

Tops == {t \in [bid : Prices \union {NoPrice}, ask : Prices \union {NoPrice}] :
           t.bid = NoPrice \/ t.ask = NoPrice \/ t.bid < t.ask}
Error == [bid |-> -1, ask |-> -1]

\* Some feeds may not be supported.
Init ==
  /\ \E subscribed \in SUBSET Feeds : feeds = [f \in subscribed |-> Nothing]
  /\ stream = [f \in Feeds |-> <<>>]
  /\ futs = DOMAIN feeds /\ top = Nothing /\ dropped = FALSE
  /\ executor = "idle" /\ limit \in Parameters
  /\ prev = None /\ order_cache = None /\ desired = None

-----------------------------------------------------------------------------
(***************************************************************************)
(* The book.                                                               *)
(***************************************************************************)
Send(f, result) ==
  /\ f \in DOMAIN feeds
  /\ Len(stream[f]) < StreamCap
  /\ \A n \in DOMAIN stream[f] : stream[f][n] # Error
  /\ stream' = [stream EXCEPT ![f] = Append(@, result)]
  /\ UNCHANGED <<feeds, futs, top, dropped, executor, limitVars>>

WorstOf(books) ==  \* MUTANT of BestOf: the bounds of the two sides swapped
  LET bids == {b.bid : b \in books} \ {NoPrice}
      asks == {b.ask : b \in books} \ {NoPrice}
  IN [bid |-> IF bids = {} THEN NoPrice ELSE Min(bids),
      ask |-> IF asks = {} THEN NoPrice ELSE Max(asks)]

BestOf(books) ==
  LET bids == {b.bid : b \in books} \ {NoPrice}
      asks == {b.ask : b \in books} \ {NoPrice}
  IN [bid |-> IF bids = {} THEN NoPrice ELSE Max(bids),
      ask |-> IF asks = {} THEN NoPrice ELSE Min(asks)]

BooksIn(fs) == {fs[f] : f \in DOMAIN fs}

\* notify_waiters wakes those that wait, and leaves no permit.
Publish(fs) ==
  /\ top' = BestOf(BooksIn(fs))
  /\ executor' = IF executor = "waiting" THEN "notified" ELSE executor
  /\ dropped' = FALSE

\* The future of a result is done with; its stream goes back for the next one.
PullUpdates(f) ==
  /\ f \in futs /\ stream[f] # <<>> /\ Head(stream[f]) # Error
  /\ stream' = [stream EXCEPT ![f] = Tail(@)]
  /\ feeds' = [feeds EXCEPT ![f] = Head(stream[f])]
  /\ Publish(feeds')
  /\ UNCHANGED <<futs, limitVars>>

PullError(f) ==
  /\ f \in futs /\ stream[f] # <<>> /\ Head(stream[f]) = Error
  /\ stream' = [stream EXCEPT ![f] = Tail(@)]
  /\ feeds' = [g \in DOMAIN feeds \ {f} |-> feeds[g]]
  /\ futs' = futs \ {f}
  /\ dropped' = TRUE
  /\ UNCHANGED <<top, executor, limitVars>>

-----------------------------------------------------------------------------
(***************************************************************************)
(* The limit and its executor.                                             *)
(***************************************************************************)
Join(l, t) ==
  IF l.side = "Buy"
  THEN IF t.bid # NoPrice /\ t.bid < l.limit THEN t.bid ELSE l.limit
  ELSE IF t.ask # NoPrice /\ t.ask > l.limit THEN t.ask ELSE l.limit

Order(l, t) == [side |-> l.side, price |-> Join(l, t), size |-> l.size]

\* The hub applies an Adj.  What the limit said last is kept.
Adjust ==
  /\ limit' \in Parameters \ {limit}
  /\ UNCHANGED <<bookVars, executor, prev, order_cache, desired>>

\* BookShared::tick is first polled: from here on a publish is noticed, and one
\* before was missed.
Wait ==
  /\ executor = "idle"
  /\ executor' = "waiting"
  /\ UNCHANGED <<bookVars, limitVars>>

SamePrice(order) == prev.price = order.price  \* MUTANT of Unchanged

Unchanged(order) == prev = order

\* The book has ticked: next() of the limit, and the orders out of it or the
\* cache.
ExecutorTick ==
  /\ executor = "notified"
  /\ executor' = "idle"
  /\ LET order == Order(limit, top)
     IN IF Unchanged(order)
        THEN /\ desired' = order_cache
             /\ UNCHANGED <<prev, order_cache>>
        ELSE /\ prev' = order
             /\ order_cache' = order
             /\ desired' = order
  /\ UNCHANGED <<bookVars, limit>>

Next ==
  \/ \E f \in Feeds : \E result \in Tops \union {Error} : Send(f, result)
  \/ \E f \in Feeds : PullUpdates(f)
  \/ \E f \in Feeds : PullError(f)
  \/ Adjust \/ Wait \/ ExecutorTick

Spec == Init /\ [][Next]_vars

-----------------------------------------------------------------------------
(***************************************************************************)
(* Properties.                                                             *)
(***************************************************************************)
Orders == {[side |-> l.side, price |-> p, size |-> l.size] : l \in Parameters, p \in Prices}
            \union {None}

TypeOK ==
  /\ stream \in [Feeds -> Seq(Tops \union {Error})]
  /\ \A f \in Feeds : Len(stream[f]) <= StreamCap
  /\ feeds \in [DOMAIN feeds -> Tops] /\ DOMAIN feeds \subseteq Feeds /\ futs \subseteq Feeds
  /\ top \in [bid : Prices \union {NoPrice}, ask : Prices \union {NoPrice}]
  /\ executor \in {"idle", "waiting", "notified"}
  /\ limit \in Parameters /\ {prev, order_cache, desired} \subseteq Orders
  /\ dropped \in BOOLEAN

\* Every variable keeps its shape and the top is no worse on either side than
\* any feed that is subscribed, though each feed is folded on its own and others
\* come and go; it is exactly the best of them but after a feed was dropped,
\* which does not publish (book.rs:141-161).  And a book is kept for just the
\* feeds whose next result is awaited: "inserted on subscribe, dropped only along
\* with its stream" (128).
TopIsBest ==
  /\ TypeOK
  /\ futs = DOMAIN feeds
  /\ LET best == BestOf(BooksIn(feeds))
     IN /\ ~dropped => top = best
        /\ best.bid # NoPrice => top.bid >= best.bid
        /\ best.ask # NoPrice => top.ask # NoPrice /\ top.ask <= best.ask

\* What an executor wants out is what its limit asks for at the top it read last,
\* as large and on the side it was then adjusted to, although next() says
\* nothing when it would repeat itself and adjusting does not reset that; and
\* it is never a price beyond the limit (algo.rs:114-118, lib.rs:78-89).
DesiredIsLatest ==
  [][executor = "notified" /\ executor' = "idle" =>
       /\ desired' = Order(limit, top)
       /\ IF limit.side = "Buy" THEN desired'.price <= limit.limit
                                ELSE desired'.price >= limit.limit]_vars

\* book.rs:25: "Best bid/ask across every subscribed feed".  A dropped feed's
\* prices stay until another one has news, for ever if there is none.
TopOfSubscribed == top = BestOf(BooksIn(feeds))
=============================================================================
