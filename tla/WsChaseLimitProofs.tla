-------------------------- MODULE WsChaseLimitProofs --------------------------
(***************************************************************************)
(* Proofs about WsChaseLimit: for any target, any prices, any number of    *)
(* iterations and any loss of answers the client never claims more than    *)
(* was executed; and until it expires or is told of an error it has one    *)
(* order, executes at most the target and, filled, leaves open no more     *)
(* than the tolerance.                                                     *)
(***************************************************************************)
EXTENDS WsChaseLimit, SequenceTheorems, FiniteSetTheorems, TLAPS

USE ChaseAssumption

-----------------------------------------------------------------------------
(***************************************************************************)
(* Queues.                                                                 *)
(***************************************************************************)
\* What taking the first element of a queue gives and leaves.
LEMMA TakenFromQueue ==
  ASSUME NEW S, NEW s \in Seq(S), s # <<>>
  PROVE  /\ 1 \in DOMAIN s /\ Head(s) = s[1] /\ Head(s) \in S
         /\ Tail(s) \in Seq(S)
         /\ \A i \in DOMAIN Tail(s) : /\ i \in Nat /\ i # 0 /\ i + 1 \in DOMAIN s
                                      /\ Tail(s)[i] = s[i + 1]
<1>1. /\ Len(s) \in Nat \ {0} /\ DOMAIN s = 1..Len(s)
      /\ Head(s) = s[1] /\ Head(s) \in S
      /\ Tail(s) \in Seq(S) /\ Len(Tail(s)) = Len(s) - 1
      /\ \A i \in 1..Len(Tail(s)) : Tail(s)[i] = s[i + 1]
  BY EmptySeq, HeadTailProperties, LenProperties
<1>2. DOMAIN Tail(s) = 1..Len(Tail(s))
  BY <1>1, LenProperties
<1> QED  BY <1>1, <1>2

\* What adding an element to a queue makes of it.
LEMMA AddedToQueue ==
  ASSUME NEW S, NEW s \in Seq(S), NEW e \in S
  PROVE  /\ Append(s, e) \in Seq(S) /\ Append(s, e) # <<>>
         /\ Len(s) \in Nat /\ DOMAIN s = 1..Len(s)
         /\ DOMAIN Append(s, e) = DOMAIN s \union {Len(s) + 1}
         /\ Len(s) + 1 \notin DOMAIN s
         /\ \A i \in DOMAIN s : Append(s, e)[i] = s[i]
         /\ Append(s, e)[Len(s) + 1] = e
<1>1. /\ Append(s, e) \in Seq(S) /\ Len(Append(s, e)) = Len(s) + 1
      /\ Len(s) \in Nat /\ DOMAIN s = 1..Len(s)
      /\ \A i \in 1..Len(s) : Append(s, e)[i] = s[i]
      /\ Append(s, e)[Len(s) + 1] = e
  BY AppendProperties, LenProperties
<1>2. DOMAIN Append(s, e) = 1..(Len(s) + 1)
  BY <1>1, LenProperties
<1>3. Append(s, e) # <<>>
  BY <1>1, EmptySeq
<1> QED  BY <1>1, <1>2, <1>3

\* A queue's elements are what it is a queue of.
LEMMA InQueue ==
  ASSUME NEW S, NEW s \in Seq(S), NEW i \in DOMAIN s
  PROVE  s[i] \in S /\ i \in Nat /\ i # 0
BY LenProperties, ElementOfSeq

-----------------------------------------------------------------------------
(***************************************************************************)
(* The strengthening.  Everything that was ever said of fills is backed by *)
(* an order that has them.                                                 *)
(***************************************************************************)
Backed(filled, orders) == filled = 0 \/ \E n \in DOMAIN orders : filled <= orders[n].filled

ReportsBacked ==
  /\ Backed(filled_qty, venue)
  /\ \A i \in DOMAIN trade_stream : Backed(trade_stream[i].filled, venue)

\* What the loop knows of itself.
Running ==
  /\ loop = "chasing" =>
       filled_qty < Target /\ final = 0 /\ iteration <= MaxIterations + 1
  /\ loop = "waiting" => final # 0

OpenUnfilled ==
  \A n \in DOMAIN venue : Open(n) => venue[n].filled < venue[n].qty

\* Before expiry, and without an error, there is one place for the client's
\* order to be: with the client, on its way, rejected on its way back, or on
\* the venue.
IsPlace(i) == requests[i].op = "place"
IsRejection(i) == trade_stream[i].msg = "rejected"

OneOrder ==
  /\ \A i \in DOMAIN requests : requests[i].op \in {"place", "amend"}
  /\ \A i \in DOMAIN trade_stream : trade_stream[i].msg # "error"
  /\ \A i, j \in DOMAIN requests : IsPlace(i) /\ IsPlace(j) => i = j
  /\ \A i, j \in DOMAIN trade_stream : IsRejection(i) /\ IsRejection(j) => i = j
  /\ \A i \in DOMAIN requests, j \in DOMAIN trade_stream : ~(IsPlace(i) /\ IsRejection(j))
  /\ \A i \in DOMAIN requests : IsPlace(i) => order_placed /\ venue = <<>>
  /\ \A i \in DOMAIN trade_stream : IsRejection(i) => order_placed /\ venue = <<>>
  /\ venue # <<>> => order_placed /\ Len(venue) = 1

OneOrderSoFar == final = 0 /\ "error" \notin mishaps => OneOrder

WsChaseInv ==
  /\ TypeOK
  /\ ReportsBacked
  /\ Running
  /\ OpenUnfilled
  /\ OneOrderSoFar
-----------------------------------------------------------------------------
(***************************************************************************)
(* Type correctness.                                                       *)
(***************************************************************************)
\* What the client sends and the venue says is of the types listed.
LEMMA MessageTypes ==
  /\ \A price \in Prices : Place(price) \in Requests
  /\ \A price \in Prices, qty \in 1..Target : Amend(price, qty) \in Requests
  /\ \A qty \in 1..Target : MarketOrder(qty) \in Requests
  /\ CancelOrder \in Requests
  /\ \A filled \in 0..Target : Status(filled) \in Messages
  /\ {OrderRejected, TradeError} \subseteq Messages
BY DEF Requests, Messages, Place, Amend, MarketOrder, CancelOrder, Status, OrderRejected, TradeError

\* Each turn's end counts it and keeps the loop to its states; after a trade
\* message it goes on only if something is left to fill.
LEMMA EndTurnType ==
  ASSUME TypeOK, Running, loop = "chasing", NEW full \in BOOLEAN, EndsWhen(full)
  PROVE  /\ loop' \in {"chasing", "done"}
         /\ iteration' \in 1..(MaxIterations + 2)
         /\ loop' = "chasing" => ~full /\ iteration' <= MaxIterations + 1
BY DEF TypeOK, Running, EndsWhen, NextIteration

\* What is not fully filled is less than the target.
LEMMA NotFull ==
  /\ \A filled \in 0..Target : FullyFilled(filled) \in BOOLEAN
  /\ \A filled \in 0..Target : ~FullyFilled(filled) => filled < Target
BY DEF FullyFilled

\* The next message is one, and what follows it stays a queue of messages.
LEMMA ReceiveType ==
  ASSUME TypeOK, NEW msg, Receive(msg)
  PROVE  /\ trade_stream' \in Seq(Messages)
         /\ Head(trade_stream) \in Messages
         /\ Head(trade_stream).filled \in 0..Target
BY TakenFromQueue DEF TypeOK, Receive, Messages, OrderRejected, TradeError

\* The requests of the expiry join those under way.
LEMMA ExpiryType ==
  ASSUME TypeOK, Running, OnExpiry
  PROVE  requests' \in Seq(Requests)
<1> DEFINE market == MarketOrder(Target - filled_qty)
<1>1. market \in Requests /\ CancelOrder \in Requests /\ requests \in Seq(Requests)
  BY MessageTypes DEF OnExpiry, TypeOK, Running
<1>2. requests' \in {requests \o <<CancelOrder>> \o <<market>>, requests \o <<CancelOrder>>,
                    requests \o <<>> \o <<market>>, requests \o <<>>,
                    requests \o <<market>>, requests}
  BY DEF OnExpiry
<1> HIDE DEF market
<1>3. <<market>> \in Seq(Requests) /\ <<CancelOrder>> \in Seq(Requests) /\ <<>> \in Seq(Requests)
  BY <1>1
<1>4. \A s, t \in Seq(Requests) : s \o t \in Seq(Requests)
  BY ConcatProperties
<1>5. /\ requests \o <<CancelOrder>> \in Seq(Requests)
      /\ requests \o <<>> \in Seq(Requests)
      /\ requests \o <<market>> \in Seq(Requests)
  BY <1>1, <1>3, <1>4
<1>6. /\ requests \o <<CancelOrder>> \o <<market>> \in Seq(Requests)
      /\ requests \o <<>> \o <<market>> \in Seq(Requests)
  BY <1>3, <1>4, <1>5
<1> QED  BY <1>1, <1>2, <1>5, <1>6

\* The types are kept by what the client does.
LEMMA ClientTypeOK ==
  ASSUME TypeOK, Running, Client
  PROVE  TypeOK'
<1>1. CASE \E price \in Prices : OnQuote(price)
  <2>1. PICK price \in Prices : OnQuote(price)
    BY <1>1
  <2>2. Target - filled_qty \in 1..Target
    BY <2>1 DEF OnQuote, TypeOK, Running
  <2>3. /\ requests' \in {requests, Append(requests, Place(price)),
                         Append(requests, Amend(price, Target - filled_qty))}
        /\ order_placed' \in BOOLEAN /\ last_amend_price' \in Prices
    BY <2>1 DEF OnQuote, Send, SendFails, TypeOK
  <2>5. requests' \in Seq(Requests)
    <3>1. Place(price) \in Requests /\ Amend(price, Target - filled_qty) \in Requests
      BY <2>2, MessageTypes
    <3>2. requests \in Seq(Requests)
      BY DEF TypeOK
    <3> QED  BY <2>3, <3>1, <3>2, AddedToQueue
  <2>4. loop' \in {"chasing", "done"} /\ iteration' \in 1..(MaxIterations + 2)
    BY <2>1, EndTurnType DEF OnQuote, EndTurn, TypeOK
  <2> QED  BY <2>1, <2>3, <2>4, <2>5 DEF OnQuote, TypeOK
<1>2. CASE NothingToDo
  <2>1. loop' \in {"chasing", "done"} /\ iteration' \in 1..(MaxIterations + 2)
    BY <1>2, EndTurnType, NotFull DEF NothingToDo, EndTurn, EndTradeTurn, TypeOK
  <2> QED  BY <1>2, <2>1 DEF NothingToDo, TypeOK
<1>3. CASE OnOrderStatus
  <2>1. trade_stream' \in Seq(Messages) /\ filled_qty' \in 0..Target
    BY <1>3, ReceiveType DEF OnOrderStatus, Known
  <2>2. loop' \in {"chasing", "done"} /\ iteration' \in 1..(MaxIterations + 2)
    BY <1>3, <2>1, EndTurnType, NotFull DEF OnOrderStatus, EndTradeTurn
  <2> QED  BY <1>3, <2>1, <2>2 DEF OnOrderStatus, Receive, TypeOK
<1>4. CASE OnOrderRejected
  <2>1. trade_stream' \in Seq(Messages)
    BY <1>4, ReceiveType DEF OnOrderRejected
  <2>2. loop' \in {"chasing", "done"} /\ iteration' \in 1..(MaxIterations + 2)
    BY <1>4, EndTurnType, NotFull DEF OnOrderRejected, EndTradeTurn, TypeOK
  <2> QED  BY <1>4, <2>1, <2>2 DEF OnOrderRejected, Receive, TypeOK
<1>5. CASE OnExpiry
  <2>1. Target - filled_qty \in 1..Target
    BY <1>5 DEF OnExpiry, TypeOK, Running
  <2>2. requests' \in Seq(Requests)
    BY <1>5, <2>1, ExpiryType
  <2> QED  BY <1>5, <2>1, <2>2 DEF OnExpiry, TypeOK
<1>6. CASE OnFinalStatus
  <2>1. trade_stream' \in Seq(Messages) /\ filled_qty' \in 0..Target
    BY <1>6, ReceiveType DEF OnFinalStatus, Known, TypeOK
  <2> QED  BY <1>6, <2>1 DEF OnFinalStatus, Receive, TypeOK
<1>7. CASE WaitEnds
  BY <1>7 DEF WaitEnds, TypeOK
<1> QED  BY <1>1, <1>2, <1>3, <1>4, <1>5, <1>6, <1>7 DEF Client
\* Taking a request leaves a queue of them.
LEMMA HandleType ==
  ASSUME TypeOK, NEW op, Handle(op)
  PROVE  /\ requests' \in Seq(Requests) /\ requests # <<>>
         /\ Head(requests) \in Requests /\ Head(requests) = requests[1]
         /\ op # "cancel" => Head(requests).price \in Prices \union {0}
                            /\ Head(requests).qty \in 1..Target
BY TakenFromQueue DEF TypeOK, Handle, Requests, CancelOrder

-----------------------------------------------------------------------------
(***************************************************************************)
(* The venue.  Its orders only gain fills, and it reports what they have.  *)
(***************************************************************************)
FillsGrow ==
  \A n \in DOMAIN venue : n \in DOMAIN venue' /\ venue[n].filled <= venue'[n].filled

\* An order on the venue is one, and what is executed of it is a number.
LEMMA OrderTypes ==
  /\ \A o \in Orders : o.filled \in 0..Target /\ o.qty \in 1..Target
  /\ TypeOK => \A n \in DOMAIN venue : venue[n] \in Orders
<1>1. \A o \in Orders : o.filled \in 0..Target /\ o.qty \in 1..Target
  BY DEF Orders
<1>2. TypeOK => \A n \in DOMAIN venue : venue[n] \in Orders
  BY InQueue DEF TypeOK
<1> QED  BY <1>1, <1>2

\* What was backed stays so.
LEMMA BackedKept ==
  ASSUME TypeOK, venue' \in Seq(Orders), FillsGrow, NEW filled \in Nat, Backed(filled, venue)
  PROVE  Backed(filled, venue')
<1>1. CASE filled = 0
  BY <1>1 DEF Backed
<1>2. CASE filled # 0
  <2>1. PICK n \in DOMAIN venue : filled <= venue[n].filled
    BY <1>2 DEF Backed
  <2>2. n \in DOMAIN venue' /\ venue[n].filled <= venue'[n].filled
        /\ venue[n] \in Orders /\ venue'[n] \in Orders
    BY InQueue DEF TypeOK, FillsGrow
  <2>3. filled <= venue'[n].filled
    BY <2>1, <2>2 DEF Orders
  <2> QED  BY <2>2, <2>3 DEF Backed
<1> QED  BY <1>1, <1>2

\* A backed message joins those on their way.
LEMMA ReportBacked ==
  ASSUME TypeOK, ReportsBacked, venue' \in Seq(Orders), FillsGrow, filled_qty' = filled_qty,
         NEW m \in Messages, Backed(m.filled, venue'), Report(m)
  PROVE  trade_stream' \in Seq(Messages) /\ ReportsBacked'
<1>1. trade_stream \in Seq(Messages) /\ filled_qty \in Nat
  BY DEF TypeOK
<1>2. \A i \in DOMAIN trade_stream : trade_stream[i].filled \in Nat
  BY <1>1, InQueue DEF Messages, OrderRejected, TradeError
<1>3. /\ trade_stream' \in Seq(Messages)
      /\ DOMAIN trade_stream' = DOMAIN trade_stream \union {Len(trade_stream) + 1}
      /\ \A i \in DOMAIN trade_stream : trade_stream'[i] = trade_stream[i]
      /\ trade_stream'[Len(trade_stream) + 1] = m
  BY <1>1, AddedToQueue DEF Report
<1>4. Backed(filled_qty, venue')
  BY <1>1, BackedKept DEF ReportsBacked
<1>5. ASSUME NEW i \in DOMAIN trade_stream' PROVE Backed(trade_stream'[i].filled, venue')
  <2>1. CASE i \in DOMAIN trade_stream
    <3>1. Backed(trade_stream[i].filled, venue) /\ trade_stream[i].filled \in Nat
      BY <1>2, <2>1 DEF ReportsBacked
    <3> QED  BY <1>3, <2>1, <3>1, BackedKept DEF Backed
  <2>2. CASE i = Len(trade_stream) + 1
    BY <1>3, <2>2 DEF Backed
  <2> QED  BY <1>3, <2>1, <2>2
<1> QED  BY <1>3, <1>4, <1>5 DEF ReportsBacked

\* With no order changed and no message added, what is said stays backed.
LEMMA StillBacked ==
  ASSUME TypeOK, ReportsBacked, venue' = venue, filled_qty' = filled_qty,
         \/ trade_stream' = trade_stream
         \/ trade_stream # <<>> /\ trade_stream' = Tail(trade_stream)
  PROVE  trade_stream' \in Seq(Messages) /\ ReportsBacked'
<1>1. trade_stream \in Seq(Messages)
  BY DEF TypeOK
<1>2. CASE trade_stream' = trade_stream
  BY <1>1, <1>2 DEF ReportsBacked, Backed
<1>3. CASE trade_stream # <<>> /\ trade_stream' = Tail(trade_stream)
  <2>1. /\ trade_stream' \in Seq(Messages)
        /\ \A i \in DOMAIN trade_stream' : i + 1 \in DOMAIN trade_stream
                                         /\ trade_stream'[i] = trade_stream[i + 1]
    BY <1>1, <1>3, TakenFromQueue
  <2> QED  BY <2>1 DEF ReportsBacked, Backed
<1> QED  BY <1>2, <1>3

\* One more order.
LEMMA OrderAdded ==
  ASSUME TypeOK, OpenUnfilled, NEW o \in Orders, o.status = "open" => o.filled < o.qty,
         venue' = Append(venue, o)
  PROVE  venue' \in Seq(Orders) /\ FillsGrow /\ OpenUnfilled' /\ Backed(o.filled, venue')
<1>1. /\ venue \in Seq(Orders) /\ venue' \in Seq(Orders)
      /\ DOMAIN venue' = DOMAIN venue \union {Len(venue) + 1}
      /\ \A n \in DOMAIN venue : venue'[n] = venue[n]
      /\ venue'[Len(venue) + 1] = o
  BY AddedToQueue DEF TypeOK
<1>2. FillsGrow /\ OpenUnfilled'
  <2>1. \A n \in DOMAIN venue : venue[n].filled \in Nat
    BY OrderTypes
  <2> QED  BY <1>1, <2>1 DEF FillsGrow, OpenUnfilled, Open
<1>3. Backed(o.filled, venue')
  BY <1>1 DEF Backed, Orders
<1> QED  BY <1>1, <1>2, <1>3

\* An order changes, and no other.
LEMMA OrderChanged ==
  ASSUME TypeOK, OpenUnfilled, NEW n \in DOMAIN venue, NEW o \in Orders,
         venue[n].filled <= o.filled, o.status = "open" => o.filled < o.qty,
         venue' = [venue EXCEPT ![n] = o]
  PROVE  /\ venue' \in Seq(Orders) /\ FillsGrow /\ OpenUnfilled' /\ Backed(o.filled, venue')
         /\ Len(venue') = Len(venue) /\ venue # <<>> /\ venue' # <<>>
<1>1. venue \in Seq(Orders) /\ Len(venue) \in Nat /\ DOMAIN venue = 1..Len(venue)
  BY LenProperties DEF TypeOK
<1>2. \A k \in 1..Len(venue) : venue[k] \in Orders
  BY <1>1, ElementOfSeq
<1>3. /\ venue' \in [1..Len(venue) -> Orders] /\ DOMAIN venue' = DOMAIN venue
      /\ \A k \in DOMAIN venue : venue'[k] = IF k = n THEN o ELSE venue[k]
  BY <1>1, <1>2
<1>4. venue' \in Seq(Orders)
  BY <1>1, <1>3, SeqDef
<1>5. Len(venue') = Len(venue)
  BY <1>1, <1>3, <1>4, LenProperties
<1>6. FillsGrow /\ OpenUnfilled'
  <2>1. \A k \in DOMAIN venue : venue[k].filled \in Nat
    BY <1>1, <1>2 DEF Orders
  <2> QED  BY <1>3, <2>1 DEF FillsGrow, OpenUnfilled, Open
<1>7. Backed(o.filled, venue')
  BY <1>3 DEF Backed, Orders
<1> QED  BY <1>1, <1>3, <1>4, <1>5, <1>6, <1>7, EmptySeq

\* What the venue does keeps the types, backs what it says, and leaves no
\* filled order open.
LEMMA VenueKeeps ==
  ASSUME TypeOK, ReportsBacked, OpenUnfilled, Venue
  PROVE  TypeOK' /\ ReportsBacked' /\ OpenUnfilled'
<1> SUFFICES /\ requests' \in Seq(Requests)
             /\ trade_stream' \in Seq(Messages) /\ ReportsBacked'
             /\ venue' \in Seq(Orders) /\ OpenUnfilled'
             /\ mishaps' \subseteq {"error", "lost"}
             /\ UNCHANGED <<clientVars, final>>
  BY DEF TypeOK, clientVars
<1>0. /\ requests \in Seq(Requests) /\ venue \in Seq(Orders)
      /\ mishaps \subseteq {"error", "lost"}
      /\ \A n \in DOMAIN venue : venue[n] \in Orders
      /\ clientVars' = clientVars => filled_qty' = filled_qty
      /\ venue' = venue => FillsGrow /\ OpenUnfilled'
  <2>1. venue' = venue => FillsGrow
    BY OrderTypes DEF FillsGrow
  <2> QED  BY <2>1, InQueue DEF TypeOK, clientVars, OpenUnfilled, Open
<1>1. CASE AcceptOrder
  <2> DEFINE o == [kind |-> "limit", price |-> Head(requests).price,
                   qty |-> Head(requests).qty, filled |-> 0, status |-> "open"]
  <2>1. requests' \in Seq(Requests) /\ o \in Orders /\ o.filled < o.qty
        /\ venue' = Append(venue, o)
    BY <1>1, HandleType DEF AcceptOrder, Orders
  <2>2. venue' \in Seq(Orders) /\ FillsGrow /\ OpenUnfilled' /\ Backed(0, venue')
    BY <2>1, OrderAdded DEF Backed
  <2>3. Report(Status(0)) /\ Status(0) \in Messages /\ Status(0).filled = 0
    BY <1>1, MessageTypes DEF AcceptOrder, Status
  <2>4. trade_stream' \in Seq(Messages) /\ ReportsBacked'
    BY <1>0, <1>1, <2>2, <2>3, ReportBacked DEF AcceptOrder, Handle
  <2> QED  BY <1>0, <1>1, <2>1, <2>2, <2>4 DEF AcceptOrder, Handle
<1>2. CASE RejectOrder
  <2>1. Report(OrderRejected) /\ OrderRejected \in Messages /\ Backed(OrderRejected.filled, venue')
    BY <1>2, MessageTypes DEF RejectOrder, OrderRejected, Backed
  <2>2. trade_stream' \in Seq(Messages) /\ ReportsBacked'
    BY <1>0, <1>2, <2>1, ReportBacked DEF RejectOrder, Handle
  <2> QED  BY <1>0, <1>2, <2>2, HandleType DEF RejectOrder, Handle
<1>3. CASE AmendOpen
  <2>1. PICK n \in OpenOrders :
          /\ Head(requests).qty > venue[n].filled
          /\ venue' = [venue EXCEPT ![n] = [@ EXCEPT !.price = Head(requests).price,
                                                    !.qty = Head(requests).qty]]
          /\ Report(Status(venue[n].filled))
    BY <1>3 DEF AmendOpen
  <2>2. n \in DOMAIN venue /\ venue[n] \in Orders
    BY <1>0 DEF OpenOrders
  <2> DEFINE o == [venue[n] EXCEPT !.price = Head(requests).price, !.qty = Head(requests).qty]
  <2>3. requests' \in Seq(Requests) /\ Head(requests).price \in Prices \union {0}
        /\ Head(requests).qty \in 1..Target
    BY <1>3, HandleType DEF AmendOpen
  <2>8. o \in Orders /\ o.filled = venue[n].filled /\ o.filled < o.qty
    BY <2>1, <2>2, <2>3 DEF Orders
  <2>9. venue' = [venue EXCEPT ![n] = o]
    BY <2>1
  <2>10. venue[n].filled <= o.filled
    BY <2>2, <2>8, OrderTypes
  <2> HIDE DEF o
  <2>4. venue' \in Seq(Orders) /\ FillsGrow /\ OpenUnfilled' /\ Backed(o.filled, venue')
    BY <2>2, <2>8, <2>9, <2>10, OrderChanged
  <2>5. Report(Status(o.filled)) /\ Status(o.filled) \in Messages
        /\ Status(o.filled).filled = o.filled
    BY <2>1, <2>8, OrderTypes, MessageTypes DEF Status
  <2>6. trade_stream' \in Seq(Messages) /\ ReportsBacked'
    BY <1>0, <1>3, <2>4, <2>5, ReportBacked DEF AmendOpen, Handle
  <2> QED  BY <1>0, <1>3, <2>3, <2>4, <2>6 DEF AmendOpen, Handle
<1>4. CASE RefuseAmend
  <2>1. trade_stream' \in Seq(Messages) /\ ReportsBacked'
    BY <1>0, <1>4, StillBacked DEF RefuseAmend, Handle
  <2> QED  BY <1>0, <1>4, <2>1, HandleType DEF RefuseAmend, Handle
<1>5. CASE CancelOpen
  <2>1. requests' \in Seq(Requests)
    BY <1>5, HandleType DEF CancelOpen
  <2>2. CASE OpenOrders = {}
    <3>1. trade_stream' \in Seq(Messages) /\ ReportsBacked'
      BY <1>0, <1>5, <2>2, StillBacked DEF CancelOpen, Handle
    <3> QED  BY <1>0, <1>5, <2>1, <2>2, <3>1 DEF CancelOpen, Handle
  <2>3. CASE OpenOrders # {}
    <3>1. PICK n \in OpenOrders : /\ venue' = [venue EXCEPT ![n].status = "closed"]
                                  /\ Report(Status(venue[n].filled))
      BY <1>5, <2>3 DEF CancelOpen
    <3>2. n \in DOMAIN venue /\ venue[n] \in Orders
      BY <1>0 DEF OpenOrders
    <3> DEFINE o == [venue[n] EXCEPT !.status = "closed"]
    <3>3. o \in Orders /\ o.filled = venue[n].filled /\ o.status # "open"
      BY <3>2 DEF Orders
    <3>7. venue' = [venue EXCEPT ![n] = o]
      BY <3>1
    <3>8. venue[n].filled <= o.filled
      BY <3>2, <3>3, OrderTypes
    <3> HIDE DEF o
    <3>4. venue' \in Seq(Orders) /\ FillsGrow /\ OpenUnfilled' /\ Backed(o.filled, venue')
      BY <3>2, <3>3, <3>7, <3>8, OrderChanged
    <3>5. Report(Status(o.filled)) /\ Status(o.filled) \in Messages
          /\ Status(o.filled).filled = o.filled
      BY <3>1, <3>3, OrderTypes, MessageTypes DEF Status
    <3>6. trade_stream' \in Seq(Messages) /\ ReportsBacked'
      BY <1>0, <1>5, <3>4, <3>5, ReportBacked DEF CancelOpen, Handle
    <3> QED  BY <1>0, <1>5, <2>1, <3>4, <3>6 DEF CancelOpen, Handle
  <2> QED  BY <2>2, <2>3
<1>6. CASE ExecuteMarket
  <2>1. Head(requests).qty \in 1..Target /\ requests' \in Seq(Requests)
    BY <1>6, HandleType DEF ExecuteMarket
  <2>2. PICK filled \in 0..Head(requests).qty :
          /\ venue' = Append(venue, [kind |-> "market", price |-> 0, qty |-> Head(requests).qty,
                                     filled |-> filled, status |-> "closed"])
          /\ Report(Status(filled))
    BY <1>6 DEF ExecuteMarket
  <2> DEFINE o == [kind |-> "market", price |-> 0, qty |-> Head(requests).qty,
                   filled |-> filled, status |-> "closed"]
  <2>3. o \in Orders /\ o.filled = filled /\ o.status # "open" /\ venue' = Append(venue, o)
    BY <2>1, <2>2 DEF Orders
  <2>4. venue' \in Seq(Orders) /\ FillsGrow /\ OpenUnfilled' /\ Backed(filled, venue')
    BY <2>3, OrderAdded DEF Backed
  <2>5. Status(filled) \in Messages /\ Status(filled).filled = filled
    BY <2>1, MessageTypes DEF Status
  <2>6. trade_stream' \in Seq(Messages) /\ ReportsBacked'
    BY <1>0, <1>6, <2>2, <2>4, <2>5, ReportBacked DEF ExecuteMarket, Handle
  <2> QED  BY <1>0, <1>6, <2>1, <2>4, <2>6 DEF ExecuteMarket, Handle
<1>7. CASE FillOpen
  <2>1. PICK n \in OpenOrders : \E filled \in (venue[n].filled + 1)..venue[n].qty :
          /\ venue' = [venue EXCEPT ![n] =
                         [@ EXCEPT !.filled = filled,
                                   !.status = IF filled = venue[n].qty THEN "closed" ELSE "open"]]
          /\ Report(Status(filled))
    BY <1>7 DEF FillOpen
  <2>2. PICK filled \in (venue[n].filled + 1)..venue[n].qty :
          /\ venue' = [venue EXCEPT ![n] =
                         [@ EXCEPT !.filled = filled,
                                   !.status = IF filled = venue[n].qty THEN "closed" ELSE "open"]]
          /\ Report(Status(filled))
    BY <2>1
  <2>3. n \in DOMAIN venue /\ venue[n] \in Orders
    BY <1>0 DEF OpenOrders
  <2> DEFINE o == [venue[n] EXCEPT !.filled = filled,
                                   !.status = IF filled = venue[n].qty THEN "closed" ELSE "open"]
  <2>8. venue[n].filled \in 0..Target /\ venue[n].qty \in 1..Target
    BY <2>3, OrderTypes
  <2>10. filled \in 0..Target /\ venue[n].filled <= filled /\ filled <= venue[n].qty
    BY <2>8
  <2>11. o \in Orders /\ o.filled = filled /\ o.qty = venue[n].qty
        /\ o.status = IF filled = venue[n].qty THEN "closed" ELSE "open"
    BY <2>3, <2>10 DEF Orders
  <2>4. /\ o \in Orders /\ o.filled = filled /\ filled \in 0..Target
        /\ venue[n].filled <= o.filled
        /\ o.status = "open" => o.filled < o.qty
    <3>1. o.status = "open" => filled < venue[n].qty
      BY <2>8, <2>10, <2>11
    <3> QED  BY <2>10, <2>11, <3>1
  <2>9. venue' = [venue EXCEPT ![n] = o]
    BY <2>2
  <2> HIDE DEF o
  <2>5. venue' \in Seq(Orders) /\ FillsGrow /\ OpenUnfilled' /\ Backed(filled, venue')
    BY <2>3, <2>4, <2>9, OrderChanged
  <2>6. Status(filled) \in Messages /\ Status(filled).filled = filled
    BY <2>4, MessageTypes DEF Status
  <2>7. trade_stream' \in Seq(Messages) /\ ReportsBacked'
    BY <1>0, <1>7, <2>2, <2>5, <2>6, ReportBacked DEF FillOpen
  <2> QED  BY <1>0, <1>7, <2>5, <2>7 DEF FillOpen
<1>8. CASE LoseAnswer
  BY <1>0, <1>8, StillBacked DEF LoseAnswer
<1>9. CASE SendError
  <2>1. Report(TradeError) /\ TradeError \in Messages /\ Backed(TradeError.filled, venue')
    BY <1>9, MessageTypes DEF SendError, TradeError, Backed
  <2> QED  BY <1>0, <1>9, <2>1, ReportBacked DEF SendError
<1> QED  BY <1>1, <1>2, <1>3, <1>4, <1>5, <1>6, <1>7, <1>8, <1>9 DEF Venue
-----------------------------------------------------------------------------
(***************************************************************************)
(* The client learns only what was reported.                               *)
(***************************************************************************)
\* The message received is backed, and so is what follows it.
LEMMA ReceiveBacked ==
  ASSUME TypeOK, ReportsBacked, NEW msg, Receive(msg)
  PROVE  /\ Backed(Head(trade_stream).filled, venue)
         /\ \A i \in DOMAIN trade_stream' : Backed(trade_stream'[i].filled, venue)
<1>1. trade_stream \in Seq(Messages) /\ trade_stream # <<>> /\ trade_stream' = Tail(trade_stream)
  BY DEF TypeOK, Receive
<1>2. /\ 1 \in DOMAIN trade_stream /\ Head(trade_stream) = trade_stream[1]
      /\ \A i \in DOMAIN trade_stream' : i + 1 \in DOMAIN trade_stream
                                       /\ trade_stream'[i] = trade_stream[i + 1]
  BY <1>1, TakenFromQueue
<1> QED  BY <1>2 DEF ReportsBacked

\* What the client does keeps its knowledge backed.
LEMMA ClientKeepsBacked ==
  ASSUME TypeOK, ReportsBacked, OpenUnfilled, Client
  PROVE  ReportsBacked' /\ OpenUnfilled'
<1>1. venue' = venue
  BY DEF Client, OnQuote, NothingToDo, OnOrderStatus, OnOrderRejected, OnExpiry,
         OnFinalStatus, WaitEnds, Receive
<1>2. \/ UNCHANGED <<trade_stream, filled_qty>>
      \/ \E msg \in {"status", "rejected", "error"} :
           Receive(msg) /\ filled_qty' \in {filled_qty, Head(trade_stream).filled}
  BY DEF Client, OnQuote, NothingToDo, OnOrderStatus, OnOrderRejected, OnExpiry,
         OnFinalStatus, WaitEnds, Known
<1>3. ReportsBacked'
  <2>1. CASE UNCHANGED <<trade_stream, filled_qty>>
    BY <1>1, <2>1 DEF ReportsBacked
  <2>2. ASSUME NEW msg, Receive(msg), filled_qty' \in {filled_qty, Head(trade_stream).filled}
        PROVE  ReportsBacked'
    BY <1>1, <2>2, ReceiveBacked DEF ReportsBacked
  <2> QED  BY <1>2, <2>1, <2>2
<1>4. OpenUnfilled'
  BY <1>1 DEF OpenUnfilled, Open
<1> QED  BY <1>3, <1>4

\* The loop ends once all is filled, and expires only before that.
LEMMA ClientKeepsRunning ==
  ASSUME TypeOK, Running, Client
  PROVE  Running'
<1>1. CASE \E price \in Prices : OnQuote(price)
  BY <1>1, EndTurnType DEF OnQuote, EndTurn, TypeOK, Running
<1>2. CASE NothingToDo
  BY <1>2, EndTurnType, NotFull DEF NothingToDo, EndTurn, EndTradeTurn, TypeOK, Running
<1>3. CASE OnOrderStatus
  <2>1. filled_qty' \in 0..Target
    BY <1>3, ReceiveType DEF OnOrderStatus, Known
  <2> QED  BY <1>3, <2>1, EndTurnType, NotFull DEF OnOrderStatus, EndTradeTurn, Receive, Running
<1>4. CASE OnOrderRejected
  BY <1>4, EndTurnType, NotFull DEF OnOrderRejected, EndTradeTurn, Receive, TypeOK, Running
<1>5. CASE OnExpiry
  BY <1>5 DEF OnExpiry, TypeOK, Running
<1>6. CASE OnFinalStatus
  BY <1>6 DEF OnFinalStatus, Receive, Running
<1>7. CASE WaitEnds
  BY <1>7 DEF WaitEnds, Running
<1> QED  BY <1>1, <1>2, <1>3, <1>4, <1>5, <1>6, <1>7 DEF Client

-----------------------------------------------------------------------------
(***************************************************************************)
(* One order, before expiry and without an error.                          *)
(***************************************************************************)
\* The client places only when it has no order anywhere.
LEMMA OneOrderClient ==
  ASSUME TypeOK, Running, OneOrder, Client, final' = 0
  PROVE  OneOrder'
<1>0. /\ requests \in Seq(Requests) /\ trade_stream \in Seq(Messages)
      /\ loop = "chasing" /\ filled_qty \in 0..Target /\ filled_qty < Target
  BY DEF TypeOK, Running, Client, OnQuote, NothingToDo, OnOrderStatus, OnOrderRejected,
         OnExpiry, OnFinalStatus, WaitEnds, Receive
<1>1. ASSUME NEW price \in Prices, OnQuote(price)
      PROVE  OneOrder'
  <2>1. venue' = venue /\ trade_stream' = trade_stream
    BY <1>1 DEF OnQuote
  <2>2. CASE requests' = requests /\ order_placed' = order_placed
    BY <2>1, <2>2 DEF OneOrder, IsPlace, IsRejection
  <2>3. CASE ~order_placed /\ requests' = Append(requests, Place(price)) /\ order_placed'
    <3>1. /\ \A i \in DOMAIN requests : requests[i].op = "amend"
          /\ \A i \in DOMAIN trade_stream : ~IsRejection(i)
          /\ venue = <<>>
      BY <2>3 DEF OneOrder, IsPlace
    <3>2. /\ DOMAIN requests' = DOMAIN requests \union {Len(requests) + 1}
          /\ \A i \in DOMAIN requests : requests'[i] = requests[i]
          /\ requests'[Len(requests) + 1].op = "place"
      BY <1>0, <2>3, MessageTypes, AddedToQueue DEF Place
    <3> QED  BY <2>1, <2>3, <3>1, <3>2 DEF OneOrder, IsPlace, IsRejection
  <2>4. CASE requests' = Append(requests, Amend(price, Target - filled_qty))
             /\ order_placed' = order_placed
    <3>1. Amend(price, Target - filled_qty) \in Requests
      BY <1>0, MessageTypes
    <3>2. /\ DOMAIN requests' = DOMAIN requests \union {Len(requests) + 1}
          /\ \A i \in DOMAIN requests : requests'[i] = requests[i]
          /\ requests'[Len(requests) + 1].op = "amend"
      BY <1>0, <2>4, <3>1, AddedToQueue DEF Amend
    <3> QED  BY <2>1, <2>4, <3>2 DEF OneOrder, IsPlace, IsRejection
  <2> QED  BY <1>1, <2>2, <2>3, <2>4 DEF OnQuote, MustPlace, Send, SendFails
<1>2. CASE NothingToDo
  BY <1>2 DEF NothingToDo, OneOrder, IsPlace, IsRejection
<1>3. ASSUME NEW msg, Receive(msg)
      PROVE  /\ 1 \in DOMAIN trade_stream /\ trade_stream[1].msg = msg
             /\ \A i \in DOMAIN trade_stream' : /\ i + 1 \in DOMAIN trade_stream /\ i + 1 # 1
                                                /\ trade_stream'[i] = trade_stream[i + 1]
             /\ \A i, j \in DOMAIN trade_stream' : i + 1 = j + 1 => i = j
             /\ UNCHANGED <<requests, venue>>
  BY <1>0, <1>3, TakenFromQueue DEF Receive
<1>4. CASE OnOrderStatus
  <2>1. Receive("status") /\ order_placed' = order_placed
    BY <1>4 DEF OnOrderStatus
  <2> QED  BY <1>3, <2>1 DEF OneOrder, IsPlace, IsRejection
<1>5. CASE OnOrderRejected
  <2>1. Receive("rejected") /\ ~order_placed'
    BY <1>3, <1>5 DEF OnOrderRejected, OneOrder
  <2>2. IsRejection(1) /\ 1 \in DOMAIN trade_stream
    BY <1>3, <2>1 DEF IsRejection
  <2>3. \A i \in DOMAIN trade_stream' : trade_stream'[i].msg \notin {"rejected", "error"}
    BY <1>3, <2>1, <2>2 DEF OneOrder, IsRejection
  <2>4. venue' = <<>> /\ requests' = requests /\ \A i \in DOMAIN requests : requests[i].op = "amend"
    BY <1>3, <2>1, <2>2 DEF OneOrder, IsPlace
  <2> QED  BY <2>1, <2>3, <2>4 DEF OneOrder, IsPlace, IsRejection
<1>6. ~OnExpiry /\ ~OnFinalStatus /\ ~WaitEnds
  BY <1>0 DEF OnExpiry, OnFinalStatus, WaitEnds
<1> QED  BY <1>1, <1>2, <1>4, <1>5, <1>6 DEF Client
\* Changing an element of a queue leaves as many.
LEMMA SameLength ==
  ASSUME NEW S, NEW s \in Seq(S), NEW n \in DOMAIN s, NEW e,
         NEW t, t = [s EXCEPT ![n] = e]
  PROVE  s # <<>> /\ t # <<>> /\ Len(t) = Len(s)
<1>1. Len(s) \in Nat /\ DOMAIN s = 1..Len(s)
  BY LenProperties
<1>2. t \in [1..Len(s) -> S \union {e}]
  <2>1. \A k \in DOMAIN s : s[k] \in S
    BY ElementOfSeq, <1>1
  <2> QED  BY <1>1, <2>1
<1>3. t \in Seq(S \union {e})
  BY <1>1, <1>2, SeqDef
<1>4. Len(t) = Len(s)
  BY <1>1, <1>2, <1>3, LenProperties
<1> QED  BY <1>1, <1>4, EmptySeq

\* The venue has an order only in exchange for the request to place it, and
\* rejects none that it has.
LEMMA OneOrderVenue ==
  ASSUME TypeOK, OpenUnfilled, OneOrder, Venue, "error" \notin mishaps'
  PROVE  OneOrder'
<1>0. /\ requests \in Seq(Requests) /\ trade_stream \in Seq(Messages) /\ venue \in Seq(Orders)
      /\ \A n \in DOMAIN venue : venue[n] \in Orders
  BY OrderTypes DEF TypeOK
<1>1. ASSUME NEW op, Handle(op)
      PROVE  /\ 1 \in DOMAIN requests /\ requests[1].op = op /\ op \in {"place", "amend"}
             /\ \A i \in DOMAIN requests' : /\ i + 1 \in DOMAIN requests /\ i + 1 # 1
                                            /\ requests'[i] = requests[i + 1]
             /\ \A i, j \in DOMAIN requests' : i + 1 = j + 1 => i = j
             /\ order_placed' = order_placed
  <2>1. /\ requests # <<>> /\ Head(requests).op = op /\ requests' = Tail(requests)
        /\ order_placed' = order_placed
    BY <1>1 DEF Handle, clientVars
  <2>2. /\ 1 \in DOMAIN requests /\ requests[1].op = op
        /\ \A i \in DOMAIN requests' : /\ i \in Nat /\ i # 0 /\ i + 1 \in DOMAIN requests
                                       /\ requests'[i] = requests[i + 1]
    BY <1>0, <2>1, TakenFromQueue
  <2>3. requests[1].op \in {"place", "amend"}
    BY <2>2 DEF OneOrder
  <2> QED  BY <2>1, <2>2, <2>3
<1>2. ASSUME NEW m \in Messages, Report(m)
      PROVE  /\ DOMAIN trade_stream' = DOMAIN trade_stream \union {Len(trade_stream) + 1}
             /\ \A i \in DOMAIN trade_stream : trade_stream'[i] = trade_stream[i]
             /\ trade_stream'[Len(trade_stream) + 1] = m
  BY <1>0, <1>2, AddedToQueue DEF Report
<1>3. ASSUME NEW filled \in 0..Target, Report(Status(filled))
      PROVE  /\ DOMAIN trade_stream' = DOMAIN trade_stream \union {Len(trade_stream) + 1}
             /\ \A i \in DOMAIN trade_stream : trade_stream'[i] = trade_stream[i]
             /\ trade_stream'[Len(trade_stream) + 1].msg = "status"
  <2> DEFINE m == Status(filled)
  <2>1. m \in Messages /\ m.msg = "status" /\ Report(m)
    BY <1>3, MessageTypes DEF Status
  <2> HIDE DEF m
  <2> QED  BY <1>2, <2>1
<1>4. ASSUME Handle("place")
      PROVE  /\ order_placed' /\ venue = <<>>
             /\ \A i \in DOMAIN requests' : requests'[i].op = "amend"
             /\ \A i \in DOMAIN trade_stream : trade_stream[i].msg \notin {"rejected", "error"}
  BY <1>1, <1>4 DEF OneOrder, IsPlace, IsRejection
<1>5. CASE AcceptOrder
  <2>1. Handle("place") /\ Report(Status(0)) /\ 0 \in 0..Target
    BY <1>5 DEF AcceptOrder
  <2> DEFINE o == [kind |-> "limit", price |-> Head(requests).price,
                   qty |-> Head(requests).qty, filled |-> 0, status |-> "open"]
  <2>2. o \in Orders /\ venue' = Append(venue, o)
    BY <1>5, HandleType DEF AcceptOrder, Orders
  <2>3. venue' # <<>> /\ Len(venue') = 1
    <3>1. Len(venue) = 0
      BY <1>4, <2>1, EmptySeq
    <3> QED  BY <1>0, <2>2, <3>1, AddedToQueue, AppendProperties
  <2> QED  BY <1>3, <1>4, <2>1, <2>3 DEF OneOrder, IsPlace, IsRejection
<1>6. CASE RejectOrder
  <2>1. /\ Handle("place") /\ venue' = venue
        /\ Report(OrderRejected) /\ OrderRejected \in Messages /\ OrderRejected.msg = "rejected"
    BY <1>6, MessageTypes DEF RejectOrder, OrderRejected
  <2>2. \A i \in DOMAIN trade_stream' :
          trade_stream'[i].msg # "error" /\ (IsRejection(i)' => i = Len(trade_stream) + 1)
    BY <1>2, <1>4, <2>1 DEF IsRejection
  <2> QED  BY <1>4, <2>1, <2>2 DEF OneOrder, IsPlace, IsRejection
<1>8. CASE AmendOpen
  <2>1. Handle("amend")
    BY <1>8 DEF AmendOpen
  <2>2. PICK n \in OpenOrders :
          /\ venue' = [venue EXCEPT ![n] = [@ EXCEPT !.price = Head(requests).price,
                                                    !.qty = Head(requests).qty]]
          /\ Report(Status(venue[n].filled))
    BY <1>8 DEF AmendOpen
  <2>3. n \in DOMAIN venue /\ venue[n].filled \in 0..Target
    BY <1>0, OrderTypes DEF OpenOrders
  <2>4. venue # <<>> /\ venue' # <<>> /\ Len(venue') = Len(venue)
    BY <1>0, <2>2, <2>3, SameLength
  <2>5. order_placed' /\ Len(venue') = 1
    BY <1>1, <2>1, <2>4 DEF OneOrder
  <2>6. \A i \in DOMAIN requests' : requests'[i].op = "amend"
    BY <1>1, <2>1, <2>4 DEF OneOrder, IsPlace
  <2>7. \A i \in DOMAIN trade_stream : trade_stream[i].msg \notin {"rejected", "error"}
    BY <2>4 DEF OneOrder, IsRejection
  <2>8. \A i \in DOMAIN trade_stream' : trade_stream'[i].msg \notin {"rejected", "error"}
    BY <1>3, <2>2, <2>3, <2>7
  <2> QED  BY <2>4, <2>5, <2>6, <2>8 DEF OneOrder, IsPlace, IsRejection
<1>9. CASE RefuseAmend
  <2>1. Handle("amend") /\ venue' = venue /\ trade_stream' = trade_stream
    BY <1>9 DEF RefuseAmend
  <2> QED  BY <1>1, <2>1 DEF OneOrder, IsPlace, IsRejection
<1>10. ~CancelOpen /\ ~ExecuteMarket /\ ~SendError
  BY <1>1 DEF CancelOpen, ExecuteMarket, SendError
<1>11. CASE FillOpen
  <2>1. PICK n \in OpenOrders : \E filled \in (venue[n].filled + 1)..venue[n].qty :
          /\ venue' = [venue EXCEPT ![n] =
                         [@ EXCEPT !.filled = filled,
                                   !.status = IF filled = venue[n].qty THEN "closed" ELSE "open"]]
          /\ Report(Status(filled))
    BY <1>11 DEF FillOpen
  <2>2. PICK filled \in (venue[n].filled + 1)..venue[n].qty :
          /\ venue' = [venue EXCEPT ![n] =
                         [@ EXCEPT !.filled = filled,
                                   !.status = IF filled = venue[n].qty THEN "closed" ELSE "open"]]
          /\ Report(Status(filled))
    BY <2>1
  <2>3. n \in DOMAIN venue /\ filled \in 0..Target
    <3>1. n \in DOMAIN venue /\ venue[n].filled \in 0..Target /\ venue[n].qty \in 1..Target
      BY <1>0, OrderTypes DEF OpenOrders
    <3> QED  BY <3>1
  <2>4. venue # <<>> /\ venue' # <<>> /\ Len(venue') = Len(venue)
    BY <1>0, <2>2, <2>3, SameLength
  <2>5. /\ order_placed' /\ Len(venue') = 1 /\ requests' = requests
        /\ \A i \in DOMAIN requests : requests[i].op = "amend"
    BY <1>11, <2>4 DEF OneOrder, IsPlace, FillOpen, clientVars
  <2>6. \A i \in DOMAIN trade_stream' : trade_stream'[i].msg \notin {"rejected", "error"}
    BY <1>3, <2>2, <2>3, <2>4 DEF OneOrder, IsRejection
  <2> QED  BY <2>4, <2>5, <2>6 DEF OneOrder, IsPlace, IsRejection
<1>12. CASE LoseAnswer
  <2>1. /\ \A i \in DOMAIN trade_stream' : /\ i \in Nat /\ i + 1 \in DOMAIN trade_stream
                                           /\ trade_stream'[i] = trade_stream[i + 1]
        /\ UNCHANGED <<order_placed, requests, venue>>
    BY <1>0, <1>12, TakenFromQueue DEF LoseAnswer, clientVars
  <2>2. \A i, j \in DOMAIN trade_stream' : i + 1 = j + 1 => i = j
    BY <2>1
  <2> QED  BY <2>1, <2>2 DEF OneOrder, IsPlace, IsRejection
<1> QED  BY <1>5, <1>6, <1>8, <1>9, <1>10, <1>11, <1>12 DEF Venue
-----------------------------------------------------------------------------
(***************************************************************************)
(* The invariant and what follows from it.                                 *)
(***************************************************************************)
\* The strengthening is an invariant.
LEMMA WsChaseInvariant == Spec => []WsChaseInv
<1>1. Init => WsChaseInv
  <2> SUFFICES ASSUME Init PROVE WsChaseInv
    OBVIOUS
  <2> USE DEF Init
  <2>1. Place(last_amend_price) \in Requests /\ Place(last_amend_price).op = "place"
    BY MessageTypes DEF Place
  <2>2. /\ requests \in Seq(Requests) /\ DOMAIN requests = {1} /\ requests[1].op = "place"
        /\ trade_stream \in Seq(Messages) /\ venue \in Seq(Orders)
        /\ DOMAIN trade_stream = {} /\ DOMAIN venue = {}
    BY <2>1
  <2>3. TypeOK
    BY <2>2 DEF TypeOK
  <2> QED  BY <2>2, <2>3
           DEF WsChaseInv, ReportsBacked, Backed, Running, OpenUnfilled, OneOrderSoFar,
               OneOrder, IsPlace, IsRejection
<1>2. WsChaseInv /\ [Next]_vars => WsChaseInv'
  <2> SUFFICES ASSUME WsChaseInv, [Next]_vars PROVE WsChaseInv'
    OBVIOUS
  <2> USE DEF WsChaseInv
  <2>1. CASE Client
    <3>1. TypeOK' /\ ReportsBacked' /\ OpenUnfilled' /\ Running'
      BY <2>1, ClientTypeOK, ClientKeepsBacked, ClientKeepsRunning
    <3>2. mishaps' = mishaps /\ (final' = final \/ final = 0)
      BY <2>1 DEF Running, Client, OnQuote, NothingToDo, OnOrderStatus, OnOrderRejected,
                  OnExpiry, OnFinalStatus, WaitEnds, Receive
    <3>3. OneOrderSoFar'
      BY <2>1, <3>2, OneOrderClient DEF OneOrderSoFar
    <3> QED  BY <3>1, <3>3
  <2>2. CASE Venue
    <3>1. TypeOK' /\ ReportsBacked' /\ OpenUnfilled'
      BY <2>2, VenueKeeps
    <3>2. UNCHANGED <<clientVars, final>> /\ mishaps \subseteq mishaps'
      BY <2>2 DEF Venue, AcceptOrder, RejectOrder, AmendOpen, RefuseAmend, CancelOpen,
                  ExecuteMarket, FillOpen, LoseAnswer, SendError, Handle
    <3>3. Running'
      BY <3>2 DEF Running, clientVars
    <3>4. OneOrderSoFar'
      BY <2>2, <3>2, OneOrderVenue DEF OneOrderSoFar
    <3> QED  BY <3>1, <3>3, <3>4
  <2>3. CASE UNCHANGED vars
    BY <2>3 DEF vars, clientVars, TypeOK, ReportsBacked, Backed, Running, OpenUnfilled, Open,
                OneOrderSoFar, OneOrder, IsPlace, IsRejection
  <2> QED  BY <2>1, <2>2, <2>3 DEF Next
<1> QED  BY <1>1, <1>2, PTL DEF Spec

\* The first n numbers are finitely many: n.
LEMMA FirstNumbers ==
  ASSUME NEW n \in Nat
  PROVE  IsFiniteSet(1..n) /\ Cardinality(1..n) = n
<1>1. 1 \in Int /\ n \in Int
  OBVIOUS
<1>2. /\ IsFiniteSet(1..n)
      /\ Cardinality(1..n) = IF 1 > n THEN 0 ELSE n - 1 + 1
  BY <1>1, FS_Interval, Zenon
<1> QED  BY <1>2

\* No order has more executed than all have together, and a single one has all.
LEMMA ExecutedOfOrders ==
  ASSUME TypeOK
  PROVE  /\ Executed \in Nat
         /\ \A n \in DOMAIN venue : venue[n].filled <= Executed
         /\ venue = <<>> => Executed = 0
         /\ Len(venue) = 1 => 1 \in DOMAIN venue /\ Executed = venue[1].filled
<1>0. /\ Len(venue) \in Nat /\ DOMAIN venue = 1..Len(venue)
      /\ \A n \in DOMAIN venue : venue[n].filled \in 0..Target
  BY OrderTypes, LenProperties DEF TypeOK
<1>1. IsFiniteSet(Units)
  <2>1. IsFiniteSet((1..Len(venue)) \X (1..Target))
    <3>1. IsFiniteSet(1..Len(venue)) /\ IsFiniteSet(1..Target)
      BY <1>0, FirstNumbers
    <3> QED  BY <3>1, FS_Product
  <2>2. Units \subseteq (1..Len(venue)) \X (1..Target)
    BY <1>0 DEF Units
  <2> QED  BY <2>1, <2>2, FS_Subset
<1>2. ASSUME NEW n \in DOMAIN venue
      PROVE  /\ Cardinality({n} \X (1..venue[n].filled)) = venue[n].filled
             /\ {n} \X (1..venue[n].filled) \subseteq Units
  <2>1. /\ IsFiniteSet({n}) /\ Cardinality({n}) = 1
        /\ IsFiniteSet(1..venue[n].filled) /\ Cardinality(1..venue[n].filled) = venue[n].filled
    <3>1. venue[n].filled \in Nat
      BY <1>0
    <3> QED  BY <3>1, FS_Singleton, FirstNumbers
  <2>2. Cardinality({n} \X (1..venue[n].filled)) = 1 * venue[n].filled
    BY <2>1, FS_Product
  <2> QED  BY <1>0, <2>2 DEF Units
<1>3. Executed \in Nat
  BY <1>1, FS_CardinalityType DEF Executed
<1>4. \A n \in DOMAIN venue : venue[n].filled <= Executed
  <2> TAKE n \in DOMAIN venue
  <2> DEFINE own == {n} \X (1..venue[n].filled)
  <2>1. own \in SUBSET Units /\ Cardinality(own) = venue[n].filled
    BY <1>2
  <2> HIDE DEF own
  <2>2. Cardinality(own) <= Cardinality(Units)
    BY <1>1, <2>1, FS_Subset
  <2> QED  BY <2>1, <2>2 DEF Executed
<1>5. venue = <<>> => Executed = 0
  <2>1. venue = <<>> => Units = {}
    BY DEF Units
  <2> QED  BY <2>1, FS_EmptySet DEF Executed
<1>6. Len(venue) = 1 => 1 \in DOMAIN venue /\ Executed = venue[1].filled
  <2> SUFFICES ASSUME Len(venue) = 1 PROVE 1 \in DOMAIN venue /\ Executed = venue[1].filled
    OBVIOUS
  <2>1. DOMAIN venue = {1}
    BY <1>0
  <2>2. Units = {1} \X (1..venue[1].filled)
    BY <2>1 DEF Units
  <2> QED  BY <1>2, <2>1, <2>2 DEF Executed
<1> QED  BY <1>3, <1>4, <1>5, <1>6

\* Whatever reports are lost, and whichever of its orders they are about, the
\* client never claims more than was executed.
THEOREM NeverOverstatesTheorem == Spec => []NeverOverstates
<1>1. WsChaseInv => NeverOverstates
  <2> SUFFICES ASSUME WsChaseInv PROVE filled_qty <= Executed
    BY DEF WsChaseInv, NeverOverstates
  <2>1. TypeOK /\ Backed(filled_qty, venue) /\ filled_qty \in Nat
    BY DEF WsChaseInv, ReportsBacked, TypeOK
  <2>2. CASE filled_qty = 0
    BY <2>1, <2>2, ExecutedOfOrders
  <2>3. CASE filled_qty # 0
    <3>1. PICK n \in DOMAIN venue : filled_qty <= venue[n].filled
      BY <2>1, <2>3 DEF Backed
    <3>2. venue[n].filled <= Executed /\ Executed \in Nat /\ venue[n].filled \in Nat
      BY <2>1, ExecutedOfOrders, OrderTypes
    <3> QED  BY <2>1, <3>1, <3>2
  <2> QED  BY <2>2, <2>3
<1> QED  BY <1>1, WsChaseInvariant, PTL

\* Rejections make the client place again, but never while it has an order, so
\* that before expiry, and without an error, at most the target is executed.
THEOREM NoOverfill == Spec => []NoOverfillBeforeExpiry
<1>1. WsChaseInv => NoOverfillBeforeExpiry
  <2> SUFFICES ASSUME TypeOK, OneOrder PROVE Executed <= Target
    BY DEF WsChaseInv, OneOrderSoFar, NoOverfillBeforeExpiry
  <2>1. venue # <<>> => Len(venue) = 1
    BY DEF OneOrder
  <2>2. \A n \in DOMAIN venue : venue[n].filled <= Target
    BY OrderTypes
  <2> QED  BY <2>1, <2>2, ExecutedOfOrders
<1> QED  BY <1>1, WsChaseInvariant, PTL

\* A client that stopped because all was filled has executed its target but for the
\* tolerance, no more, and cannot execute more than the tolerance.
THEOREM FilledMeansDoneTheorem == Spec => []FilledMeansDone
<1>1. WsChaseInv /\ NeverOverstates /\ NoOverfillBeforeExpiry => FilledMeansDone
  <2> SUFFICES ASSUME WsChaseInv, NeverOverstates, NoOverfillBeforeExpiry, final = 0,
                      FullyFilled(filled_qty)
               PROVE  /\ Executed + Tolerance >= Target
                      /\ "error" \notin mishaps =>
                           /\ Executed <= Target
                           /\ \A n \in OpenOrders : venue[n].qty <= venue[n].filled + Tolerance
    BY DEF FilledMeansDone
  <2>1. TypeOK /\ filled_qty <= Executed /\ filled_qty \in Nat /\ Executed \in Nat
    BY ExecutedOfOrders DEF NeverOverstates, TypeOK
  <2>2. filled_qty + Tolerance >= Target
    BY DEF FullyFilled
  <2>3. Executed + Tolerance >= Target
    BY <2>1, <2>2
  <2>4. ASSUME "error" \notin mishaps, NEW n \in OpenOrders
        PROVE  venue[n].qty <= venue[n].filled + Tolerance
    <3>1. OneOrder /\ n \in DOMAIN venue
      BY <2>4 DEF WsChaseInv, OneOrderSoFar, OpenOrders
    <3>2. Len(venue) = 1 /\ DOMAIN venue = 1..Len(venue)
      BY <2>1, <3>1, LenProperties DEF OneOrder, TypeOK
    <3>3. n = 1 /\ Executed = venue[1].filled
      BY <2>1, <3>1, <3>2, ExecutedOfOrders
    <3>4. venue[n].qty \in 1..Target
      BY <2>1, <3>1, OrderTypes
    <3> QED  BY <2>1, <2>3, <3>3, <3>4
  <2> QED  BY <2>3, <2>4 DEF NoOverfillBeforeExpiry
<1> QED  BY <1>1, WsChaseInvariant, NeverOverstatesTheorem, NoOverfill, PTL
=============================================================================
