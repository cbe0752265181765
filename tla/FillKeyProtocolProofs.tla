----------------------- MODULE FillKeyProtocolProofs -----------------------
(***************************************************************************)
(* Proofs about FillKeyProtocol, for any set of positions, any channel     *)
(* capacities and any number of fills and protocol updates: its types and  *)
(* keys, that nobody is stuck behind a key, that it implements the         *)
(* contract between hub and exchange runtime (ExchangeRuntime) and, as     *)
(* long as its positions only acquire, the delivery of fills               *)
(* (FillDelivery).                                                         *)
(***************************************************************************)
EXTENDS FillKeyProtocol, SequenceTheorems, TLAPS

(***************************************************************************)
(* Facts about sequences in the form the steps need them.                  *)
(***************************************************************************)
\* The first element of a channel that is not empty.
LEMMA HeadInSeq ==
  ASSUME NEW S, NEW s \in Seq(S), s # <<>>
  PROVE  /\ Head(s) \in S
         /\ Head(s) = s[1]
         /\ Len(s) \in Nat \ {0}
BY EmptySeq, HeadTailProperties

\* What receiving from a channel leaves in it.
LEMMA TailOfSeq ==
  ASSUME NEW S, NEW s \in Seq(S), s # <<>>
  PROVE  /\ Tail(s) \in Seq(S)
         /\ Len(Tail(s)) = Len(s) - 1
         /\ \A i \in 1..Len(Tail(s)) : Tail(s)[i] = s[i + 1]
BY HeadTailProperties

\* What sending into a channel makes of it.
LEMMA AppendToSeq ==
  ASSUME NEW S, NEW s \in Seq(S), NEW e \in S
  PROVE  /\ Append(s, e) \in Seq(S)
         /\ Len(Append(s, e)) = Len(s) + 1
         /\ \A i \in 1..Len(s) : Append(s, e)[i] = s[i]
         /\ Append(s, e)[Len(s) + 1] = e
BY AppendProperties

USE DEF Stages, None, HubRunning, HubEnded

-----------------------------------------------------------------------------
(***************************************************************************)
(* Type correctness.                                                       *)
(***************************************************************************)
\* The types hold when hub, runtime and positions start.
LEMMA InitTypeOK == Init => TypeOK
<1> SUFFICES ASSUME Init PROVE TypeOK
  OBVIOUS
<1> USE DEF Init, HubInit
<1>1. /\ rx \in Seq(Requests) /\ Len(rx) <= RequestCap
      /\ fills_rx \in Seq(Fills) /\ Len(fills_rx) <= FillCap
  BY EmptySeq, CapAssumption
<1>2. /\ fills_chan \in [Positions -> Seq(Fills)]
      /\ \A p \in Positions : Len(fills_chan[p]) <= PositionFillCap
  BY EmptySeq, CapAssumption
<1>3. /\ plk \in [Positions -> PositionLocalKnowledge]
      /\ elk \in Nat
  BY DEF PositionLocalKnowledge
<1>4. orders_tx \in Batches /\ accepted \in Batches
  BY DEF Batches
<1>5. issued \in Seq(Positions)
  BY EmptySeq
<1>6. outgoing \in [Positions -> Requests \union {NoRequest}]
  OBVIOUS
<1>7. /\ listening \in [Positions -> Stages \union {None}]
      /\ last_fill_key \in [Positions -> Nat]
      /\ updates \in [Positions -> Nat]
  OBVIOUS
<1>8. /\ unseen \in BOOLEAN /\ receiver \in BOOLEAN
      /\ hub \in HubRunning \union HubEnded
      /\ inHand \in IF hub = "delivering" THEN Fills ELSE {NoFill}
      /\ runtime \in {"select", "borrow"}
      /\ placed \in SUBSET Positions
  OBVIOUS
<1>9. QED
  BY <1>1, <1>2, <1>3, <1>4, <1>5, <1>6, <1>7, <1>8 DEF TypeOK

\* A request a position computes is well formed.
LEMMA AskType ==
  ASSUME TypeOK, NEW p \in Positions, listening[p] # None, NEW key \in Nat, Ask(p, key)
  PROVE  /\ outgoing' \in [Positions -> Requests \union {NoRequest}]
         /\ \E q \in Requests : /\ q.key = key /\ q.position = p
                                /\ \A o \in q.orders : o.basis = key
                                /\ outgoing' = [outgoing EXCEPT ![p] = q]
<1>1. PICK kinds \in SUBSET OrderKinds :
        outgoing' = [outgoing EXCEPT ![p] =
          [key |-> key, position |-> p, callback |-> listening[p],
           orders |-> {[kind |-> k, basis |-> key] : k \in kinds}]]
  BY DEF Ask
<1> DEFINE q == [key |-> key, position |-> p, callback |-> listening[p],
                 orders |-> {[kind |-> k, basis |-> key] : k \in kinds}]
<1>2. \A k \in kinds : [kind |-> k, basis |-> key] \in Orders
  BY DEF Orders
<1>3. q.orders \in SUBSET Orders
  BY <1>2
<1>4. q \in Requests
  BY <1>3 DEF Requests, TypeOK
<1>5. \A o \in q.orders : o.basis = key
  OBVIOUS
<1>6. QED
  BY <1>1, <1>4, <1>5 DEF TypeOK

\* The table after a request, and the batch made from it, are well formed.
LEMMA RequestedType ==
  ASSUME TypeOK, NEW r \in Requests
  PROVE  /\ Known(r) \in [Positions -> PositionLocalKnowledge]
         /\ Requested(r) \in [Positions -> PositionLocalKnowledge]
         /\ RequestedByAll(Requested(r)) \in SUBSET [position : Positions, order : Orders]
<1> DEFINE P == PositionLocalKnowledge
<1>1. /\ r.position \in Positions /\ r.callback \in Stages \union {None}
      /\ r.orders \in SUBSET Orders /\ plk \in [Positions -> P]
  BY DEF Requests, TypeOK
<1> HIDE DEF P
<1>2. Known(r) \in [Positions -> P]
  <2>1. \A e \in P, c \in Stages \union {None} : [e EXCEPT !.callback = c] \in P
    BY DEF P, PositionLocalKnowledge
  <2>2. QED
    BY <1>1, <2>1 DEF Known
<1>4. Requested(r) \in [Positions -> P]
  <2>1. \A e \in P, s \in SUBSET Orders : [e EXCEPT !.requested = s] \in P
    BY DEF P, PositionLocalKnowledge
  <2>2. QED
    BY <1>1, <1>2, <2>1 DEF Requested
<1>3. \A t \in [Positions -> P] :
        RequestedByAll(t) \in SUBSET [position : Positions, order : Orders]
  BY DEF RequestedByAll, P, PositionLocalKnowledge
<1>5. QED
  BY <1>2, <1>3, <1>4 DEF P

\* Every step of hub, runtime and positions keeps the types and capacities.
LEMMA NextTypeOK == TypeOK /\ [Next]_vars => TypeOK'
<1> SUFFICES ASSUME TypeOK, [Next]_vars PROVE TypeOK'
  OBVIOUS
<1> USE DEF TypeOK
<1>1. CASE HubStep /\ IgnoreRequest
  <2>1. Head(rx) \in Requests /\ rx' \in Seq(Requests) /\ Len(rx') <= RequestCap
    BY <1>1, HeadInSeq, TailOfSeq, CapAssumption DEF IgnoreRequest, CurrentRequest, TakeRequest
  <2>2. QED
    BY <1>1, <2>1, RequestedType DEF HubStep, IgnoreRequest, CurrentRequest, TakeRequest
<1>2. CASE HubStep /\ ApplyRequest
  <2>1. Head(rx) \in Requests /\ rx' \in Seq(Requests) /\ Len(rx') <= RequestCap
    BY <1>2, HeadInSeq, TailOfSeq, CapAssumption DEF ApplyRequest, CurrentRequest, BatchKey, TakeRequest
  <2>2. plk' \in [Positions -> PositionLocalKnowledge]
    BY <1>2, <2>1, RequestedType DEF ApplyRequest, CurrentRequest, BatchKey
  <2>3. hub' \in (HubRunning \union HubEnded) \ {"delivering"} /\ inHand' = NoFill
    BY <1>2 DEF ApplyRequest, CurrentRequest, BatchKey, TakeRequest, EndOfRequest
  <2>4. orders_tx' \in Batches /\ unseen' \in BOOLEAN
    <3> DEFINE batch == RequestedByAll(Requested(Head(rx)))
               msg == [key |-> elk, orders |-> batch, by |-> Head(rx).position]
    <3>1. batch \in SUBSET [position : Positions, order : Orders]
      BY <2>1, RequestedType
    <3>2. msg \in Batches
      BY <2>1, <3>1 DEF Requests, Batches
    <3>3. \/ orders_tx' = msg /\ unseen' = TRUE
          \/ UNCHANGED <<orders_tx, unseen>>
      BY <1>2 DEF ApplyRequest, CurrentRequest, BatchKey
    <3>4. QED
      BY <3>2, <3>3
  <2>5. QED
    BY <1>2, <2>1, <2>2, <2>3, <2>4 DEF HubStep, ApplyRequest, CurrentRequest, BatchKey, TakeRequest
<1>3. CASE HubStep /\ ReceiveFill
  <2>1. Head(fills_rx) \in Fills /\ fills_rx' \in Seq(Fills) /\ Len(fills_rx') <= FillCap
    BY <1>3, HeadInSeq, TailOfSeq, CapAssumption DEF ReceiveFill, KeyTaken
  <2>2. /\ elk' \in Nat
        /\ hub' \in HubRunning \union HubEnded
        /\ inHand' \in IF hub' = "delivering" THEN Fills ELSE {NoFill}
    BY <1>3, <2>1 DEF ReceiveFill, KeyTaken, Fills
  <2>3. plk' \in [Positions -> PositionLocalKnowledge]
    <3>1. \A e \in PositionLocalKnowledge, k \in Nat :
            [e EXCEPT !.key = k] \in PositionLocalKnowledge
      BY DEF PositionLocalKnowledge
    <3>2. Head(fills_rx).key \in Nat
      BY <2>1 DEF Fills
    <3>3. QED
      BY <1>3, <2>1, <3>1, <3>2 DEF ReceiveFill, KeyTaken
  <2>4. QED
    BY <1>3, <2>1, <2>2, <2>3 DEF HubStep, ReceiveFill, KeyTaken
<1>4. CASE HubStep /\ DeliverFill
  <2>1. inHand \in Fills /\ inHand.position \in Positions
    BY <1>4 DEF DeliverFill, Delivered, Fills
  <2>2. /\ fills_chan' \in [Positions -> Seq(Fills)]
        /\ \A p \in Positions : Len(fills_chan'[p]) <= PositionFillCap
    <3> DEFINE q == inHand.position
    <3>1. /\ Append(fills_chan[q], inHand) \in Seq(Fills)
          /\ Len(Append(fills_chan[q], inHand)) = Len(fills_chan[q]) + 1
      BY <2>1, AppendToSeq
    <3>2. Len(fills_chan[q]) \in Nat /\ Len(fills_chan[q]) < PositionFillCap
      BY <1>4, <2>1, LenProperties DEF DeliverFill, Delivered
    <3>3. fills_chan' = [fills_chan EXCEPT ![q] = Append(fills_chan[q], inHand)]
      BY <1>4 DEF DeliverFill, Delivered
    <3>4. QED
      BY <2>1, <3>1, <3>2, <3>3, CapAssumption
  <2>3. QED
    BY <1>4, <2>2 DEF HubStep, DeliverFill, Delivered
<1>5. CASE HubStep /\ FailDelivery
  BY <1>5 DEF HubStep, FailDelivery
<1>6. CASE SeeChange
  BY <1>6 DEF SeeChange, hubVars, positionVars
<1>7. CASE HandleHubOrdersUpdate
  <2>1. \A b \in orders_tx.orders : b.position \in Positions
    BY DEF Batches
  <2>2. placed' \in SUBSET Positions /\ accepted' \in Batches
    <3>1. CASE CurrentBatch(orders_tx)
      <4>1. /\ accepted' = orders_tx
            /\ placed' = placed \union {b.position : b \in orders_tx.orders}
        BY <1>7, <3>1, Zenon DEF HandleHubOrdersUpdate
      <4>2. {b.position : b \in orders_tx.orders} \subseteq Positions
        BY <2>1
      <4>3. QED
        BY <4>1, <4>2
    <3>2. CASE ~CurrentBatch(orders_tx)
      BY <1>7, <3>2 DEF HandleHubOrdersUpdate
    <3>3. QED
      BY <3>1, <3>2
  <2>3. QED
    BY <1>7, <2>2 DEF HandleHubOrdersUpdate, CurrentBatch, hubVars, channelVars, positionVars
<1>8. ASSUME NEW p \in Positions, ReportFill(p) PROVE TypeOK'
  <2>1. issued' \in Seq(Positions)
    BY <1>8, AppendToSeq DEF ReportFill
  <2>2. [key |-> Len(issued) + 1, position |-> p] \in Fills
    BY LenProperties DEF Fills
  <2>3. fills_rx' \in Seq(Fills) /\ Len(fills_rx') = Len(fills_rx) + 1
    BY <1>8, <2>2, AppendToSeq DEF ReportFill
  <2>4. Len(fills_rx') <= FillCap
    BY <1>8, <2>3, LenProperties, CapAssumption DEF ReportFill
  <2>5. QED
    BY <1>8, <2>1, <2>3, <2>4 DEF ReportFill, hubVars, positionVars
<1>9. CASE RuntimePanics
  BY <1>9 DEF RuntimePanics, hubVars, channelVars, positionVars
<1>10. ASSUME NEW p \in Positions, ReceiveProtocolOrders(p) PROVE TypeOK'
  <2>1. outgoing' \in [Positions -> Requests \union {NoRequest}]
    BY <1>10, AskType DEF ReceiveProtocolOrders, Selecting
  <2>2. updates' \in [Positions -> Nat]
    BY <1>10 DEF ReceiveProtocolOrders
  <2>3. QED
    BY <1>10, <2>1, <2>2 DEF ReceiveProtocolOrders, hubVars, channelVars, runtimeVars
<1>11. ASSUME NEW p \in Positions, TakeFill(p),
              ReceiveProtocolFills(p) \/ CompleteStage(p)
       PROVE  TypeOK'
  <2>1. fills_chan[p] \in Seq(Fills) /\ fills_chan[p] # <<>>
    BY <1>11 DEF TakeFill
  <2>2. Head(fills_chan[p]).key \in Nat
    <3>1. Head(fills_chan[p]) \in Fills
      BY <2>1, HeadInSeq
    <3>2. QED
      BY <3>1 DEF Fills
  <2>3. last_fill_key' \in [Positions -> Nat]
    BY <1>11, <2>2 DEF TakeFill
  <2>4. /\ fills_chan' \in [Positions -> Seq(Fills)]
        /\ \A q \in Positions : Len(fills_chan'[q]) <= PositionFillCap
    <3>1. /\ Tail(fills_chan[p]) \in Seq(Fills)
          /\ Len(Tail(fills_chan[p])) <= PositionFillCap
      BY <2>1, TailOfSeq, LenProperties, CapAssumption
    <3>2. <<>> \in Seq(Fills) /\ Len(<<>>) <= PositionFillCap
      BY EmptySeq, CapAssumption
    <3>3. \/ fills_chan' = [fills_chan EXCEPT ![p] = Tail(fills_chan[p])]
          \/ fills_chan' = [fills_chan EXCEPT ![p] = <<>>]
      BY <1>11 DEF ReceiveProtocolFills, CompleteStage
    <3>4. CASE fills_chan' = [fills_chan EXCEPT ![p] = Tail(fills_chan[p])]
      BY <3>1, <3>4
    <3>5. CASE fills_chan' = [fills_chan EXCEPT ![p] = <<>>]
      BY <3>2, <3>5
    <3>6. QED
      BY <3>3, <3>4, <3>5
  <2>5. outgoing' \in [Positions -> Requests \union {NoRequest}]
    BY <1>11, <2>2, AskType DEF ReceiveProtocolFills, CompleteStage, TakeFill, Selecting
  <2>6. listening' \in [Positions -> Stages \union {None}]
    BY <1>11 DEF ReceiveProtocolFills, CompleteStage
  <2>7. QED
    BY <1>11, <2>3, <2>4, <2>5, <2>6 DEF TakeFill, hubVars, runtimeVars
<1>12. ASSUME NEW p \in Positions, SendOrdersToHub(p) PROVE TypeOK'
  <2>1. outgoing[p] \in Requests
    BY <1>12 DEF SendOrdersToHub, RoomForRequest
  <2>2. rx' \in Seq(Requests) /\ Len(rx') = Len(rx) + 1
    BY <1>12, <2>1, AppendToSeq DEF SendOrdersToHub, RoomForRequest
  <2>3. Len(rx') <= RequestCap
    BY <1>12, <2>2, LenProperties, CapAssumption DEF SendOrdersToHub, RoomForRequest
  <2>4. QED
    BY <1>12, <2>2, <2>3 DEF SendOrdersToHub, RoomForRequest, hubVars, runtimeVars
<1>13. ASSUME NEW p \in Positions, FailToSend(p) PROVE TypeOK'
  <2>1. <<>> \in Seq(Fills) /\ Len(<<>>) <= PositionFillCap
    BY EmptySeq, CapAssumption
  <2>2. QED
    BY <1>13, <2>1 DEF FailToSend, hubVars, runtimeVars
<1>14. CASE UNCHANGED vars
  BY <1>14 DEF vars, hubVars, channelVars, positionVars, runtimeVars
<1>15. QED
  BY <1>1, <1>2, <1>3, <1>4, <1>5, <1>6, <1>7, <1>8, <1>9, <1>10, <1>11, <1>12,
     <1>13, <1>14
     DEF Next, HubStep, HubNext, HandleUpdateFromPosition, Runtime, Position,
         ReceiveProtocolFills, CompleteStage

\* Every reachable state is well typed, and no channel ever holds more
\* messages than its capacity.
THEOREM TypeCorrect == Spec => []TypeOK
<1>1. QED
  BY InitTypeOK, NextTypeOK, PTL DEF Spec

-----------------------------------------------------------------------------
(***************************************************************************)
(* The key invariant.                                                      *)
(***************************************************************************)

\* Reports that are appended do not change what was the last fill among the
\* earlier ones.
LEMMA LastFillStable ==
  ASSUME NEW S, NEW reports \in Seq(S), NEW q \in S, NEW p, NEW k \in Nat,
         NEW n \in Nat, n <= Len(reports), LastFillIn(reports, p, k, n)
  PROVE  LastFillIn(Append(reports, q), p, k, n)
BY AppendToSeq, LenProperties DEF LastFillIn

\* One report further, the last fill is the new one or the one it was.
LEMMA LastFillNext ==
  ASSUME NEW reports, NEW p, NEW k \in Nat, NEW n \in Nat,
         LastFillIn(reports, p, k, n)
  PROVE  LastFillIn(reports, p, IF reports[n + 1] = p THEN n + 1 ELSE k, n + 1)
BY DEF LastFillIn

\* The invariant on keys holds before the first request: every key is 0.
LEMMA InitKeyInv == Init => KeyInv
<1> SUFFICES ASSUME Init PROVE KeyInv
  OBVIOUS
<1> USE DEF Init, HubInit
<1>1. HubLagsByItsQueue /\ PositionKeyIsItsLastFill
  BY EmptySeq DEF HubLagsByItsQueue, PositionKeyIsItsLastFill, IsLatest, LastFillIn,
                  last_reported_fill_key
<1>2. RequestsCarryTheirKey
  BY DEF RequestsCarryTheirKey, NoRequest
<1>3. WatchUpToDate /\ AcceptedUpToDate
  BY DEF WatchUpToDate, AcceptedUpToDate, AskerUpToDate, last_reported_fill_key
<1>4. AskersKnown /\ NoUnknownPosition
  BY DEF AskersKnown, IsKnown, NoUnknownPosition
<1>5. QED
  BY <1>1, <1>2, <1>3, <1>4 DEF KeyInv

\* What a request the hub takes looks like, and what it leaves in the channel.
LEMMA TakenRequest ==
  ASSUME TypeOK, RequestsCarryTheirKey, TakeRequest
  PROVE  /\ Head(rx) \in Requests
         /\ Head(rx).position \in Positions
         /\ Head(rx).callback \in Stages
         /\ \A o \in Head(rx).orders : o.basis = Head(rx).key
         /\ \A i \in 1..Len(rx') : \A o \in rx'[i].orders : o.basis = rx'[i].key
<1>1. rx \in Seq(Requests) /\ rx # <<>> /\ rx' = Tail(rx)
  BY DEF TypeOK, TakeRequest
<1>2. Head(rx) \in Requests /\ Head(rx) = rx[1] /\ Len(rx) \in Nat \ {0}
  BY <1>1, HeadInSeq
<1>3. Len(rx') = Len(rx) - 1 /\ \A i \in 1..Len(rx') : rx'[i] = rx[i + 1]
  BY <1>1, TailOfSeq
<1>4. Head(rx).position \in Positions /\ Head(rx).callback \in Stages
  BY <1>2 DEF Requests
<1>5. \A i \in 1..Len(rx') : i + 1 \in 1..Len(rx)
  BY <1>2, <1>3
<1>6. QED
  BY <1>2, <1>3, <1>4, <1>5 DEF RequestsCarryTheirKey

\* What the tables after a request keep of the table before it.
LEMMA TableAfterRequest ==
  ASSUME TypeOK, NEW r \in Requests
  PROVE  /\ \A p \in Positions : /\ Known(r)[p].key = plk[p].key
                                 /\ Known(r)[p].requested = plk[p].requested
                                 /\ IsKnown(p) => Known(r)[p].callback # None
         /\ \A p \in Positions : /\ Requested(r)[p].key = plk[p].key
                                 /\ Requested(r)[p].callback = Known(r)[p].callback
                                 /\ Requested(r)[p].requested =
                                      IF p = r.position THEN r.orders ELSE plk[p].requested
         /\ Known(r)[r.position].callback # None
<1>1. r.position \in Positions /\ r.callback \in Stages
  BY DEF Requests
<1>2. plk \in [Positions -> PositionLocalKnowledge]
  BY DEF TypeOK
<1>3. /\ \A p \in Positions : /\ Known(r)[p].key = plk[p].key
                              /\ Known(r)[p].requested = plk[p].requested
                              /\ IsKnown(p) => Known(r)[p].callback # None
      /\ Known(r)[r.position].callback # None
  BY <1>1, <1>2 DEF Known, IsKnown, PositionLocalKnowledge
<1>4. Known(r) \in [Positions -> PositionLocalKnowledge]
  BY RequestedType
<1>5. \A p \in Positions : /\ Requested(r)[p].key = Known(r)[p].key
                           /\ Requested(r)[p].callback = Known(r)[p].callback
                           /\ Requested(r)[p].requested =
                                IF p = r.position THEN r.orders ELSE Known(r)[p].requested
  BY <1>1, <1>4 DEF Requested, PositionLocalKnowledge
<1>6. QED
  BY <1>3, <1>5

\* A request the hub ignores leaves every key as it was.
LEMMA IgnoreKeepsKeyInv ==
  ASSUME TypeOK, KeyInv, HubStep, IgnoreRequest
  PROVE  KeyInv'
<1> DEFINE r == Head(rx)
<1>1. /\ r \in Requests /\ r.position \in Positions
      /\ \A i \in 1..Len(rx') : \A o \in rx'[i].orders : o.basis = rx'[i].key
  BY TakenRequest DEF KeyInv, IgnoreRequest, CurrentRequest
<1>2. /\ plk' = Known(r)
      /\ UNCHANGED <<fills_rx, elk, issued, outgoing, orders_tx, accepted, placed, hub>>
  BY DEF IgnoreRequest, CurrentRequest, TakeRequest, HubStep
<1> HIDE DEF r
<1>3. \A p \in Positions : /\ plk'[p].key = plk[p].key
                           /\ plk'[p].requested = plk[p].requested
                           /\ IsKnown(p) => IsKnown(p)'
  BY <1>1, <1>2, TableAfterRequest DEF IsKnown
<1>4. HubLagsByItsQueue'
  BY <1>2 DEF KeyInv, HubLagsByItsQueue, last_reported_fill_key
<1>5. PositionKeyIsItsLastFill'
  BY <1>2, <1>3 DEF KeyInv, PositionKeyIsItsLastFill, IsLatest
<1>6. RequestsCarryTheirKey'
  BY <1>1, <1>2 DEF KeyInv, RequestsCarryTheirKey
<1>7. WatchUpToDate' /\ AcceptedUpToDate'
  BY <1>2 DEF KeyInv, WatchUpToDate, AcceptedUpToDate, AskerUpToDate, IsLatest,
              last_reported_fill_key
<1>8. AskersKnown'
  <2>1. \A b \in orders_tx.orders : b.position \in Positions
    BY DEF TypeOK, Batches
  <2>2. placed \in SUBSET Positions
    BY DEF TypeOK
  <2>3. QED
    BY <1>2, <1>3, <2>1, <2>2 DEF KeyInv, AskersKnown, IsKnown
<1>9. QED
  BY <1>2, <1>4, <1>5, <1>6, <1>7, <1>8 DEF KeyInv, NoUnknownPosition

\* The batch of an accepted request is up to date for the asker: its key is
\* that of the last fill the hub handled for it.
LEMMA ApplyKeepsKeyInv ==
  ASSUME TypeOK, KeyInv, HubStep, ApplyRequest
  PROVE  KeyInv'
<1> DEFINE r == Head(rx)
           batch == RequestedByAll(Requested(r))
<1>1. /\ r \in Requests /\ r.position \in Positions
      /\ \A o \in r.orders : o.basis = r.key
      /\ \A i \in 1..Len(rx') : \A o \in rx'[i].orders : o.basis = rx'[i].key
  BY TakenRequest DEF KeyInv, ApplyRequest, CurrentRequest, BatchKey
<1>2. /\ plk' = Requested(r)
      /\ plk[r.position].key = r.key
      /\ \/ UNCHANGED orders_tx
         \/ orders_tx' = [key |-> elk, orders |-> batch, by |-> r.position]
      /\ hub' # "panic_unknown_position"
      /\ UNCHANGED <<fills_rx, elk, issued, outgoing, accepted, placed>>
  BY DEF ApplyRequest, CurrentRequest, BatchKey, TakeRequest, HubStep, EndOfRequest
<1>3. batch = UNION {{[position |-> p, order |-> o] : o \in Requested(r)[p].requested}
                        : p \in Positions}
  BY DEF RequestedByAll
<1> HIDE DEF r, batch
<1>4. /\ \A p \in Positions : /\ plk'[p].key = plk[p].key
                              /\ plk'[p].requested = IF p = r.position THEN r.orders
                                                     ELSE plk[p].requested
                              /\ plk[p].callback # None => plk'[p].callback # None
      /\ plk'[r.position].callback # None
  <2>1. plk' = Requested(r)
    BY <1>2
  <2>2. QED
    BY <1>1, <2>1, TableAfterRequest DEF IsKnown
<1>5. \A b \in batch : /\ b.position \in Positions
                       /\ b.order \in plk'[b.position].requested
  BY <1>2, <1>3
<1>6. HubLagsByItsQueue'
  BY <1>2 DEF KeyInv, HubLagsByItsQueue, last_reported_fill_key
<1>7. PositionKeyIsItsLastFill'
  BY <1>2, <1>4 DEF KeyInv, PositionKeyIsItsLastFill, IsLatest
<1>8. RequestsCarryTheirKey'
  BY <1>1, <1>2 DEF KeyInv, RequestsCarryTheirKey
<1>9. AcceptedUpToDate'
  BY <1>2 DEF KeyInv, AcceptedUpToDate, AskerUpToDate, IsLatest, last_reported_fill_key
<1>10. WatchUpToDate'
  <2>1. CASE UNCHANGED orders_tx
    BY <1>2, <2>1 DEF KeyInv, WatchUpToDate, AskerUpToDate, IsLatest
  <2>2. CASE orders_tx' = [key |-> elk, orders |-> batch, by |-> r.position]
    <3>1. ASSUME NEW b \in batch, b.position = r.position
          PROVE  LastFillIn(issued, b.position, b.order.basis, elk)
      <4>1. b.order \in r.orders
        BY <1>1, <1>4, <1>5, <3>1
      <4>2. b.order.basis = plk[r.position].key
        BY <1>1, <1>2, <4>1
      <4>3. QED
        BY <1>1, <3>1, <4>2 DEF KeyInv, PositionKeyIsItsLastFill, IsLatest
    <3>2. elk \in Nat
      BY DEF TypeOK
    <3>3. QED
      BY <1>2, <2>2, <3>1, <3>2 DEF WatchUpToDate, AskerUpToDate, IsLatest
  <2>3. QED
    BY <1>2, <2>1, <2>2
<1>11. AskersKnown'
  <2>1. \A p \in Positions : ~IsKnown(p)' => plk'[p].requested = {}
    <3>1. ASSUME NEW p \in Positions, plk'[p].callback = None
          PROVE  p # r.position /\ plk[p].callback = None
      BY <1>4, <3>1
    <3>2. QED
      BY <1>4, <3>1 DEF KeyInv, AskersKnown, IsKnown
  <2>2. \A b \in orders_tx'.orders : plk'[b.position].callback # None
    <3>1. CASE UNCHANGED orders_tx
      BY <1>4, <3>1 DEF KeyInv, AskersKnown, IsKnown, TypeOK, Batches
    <3>2. CASE orders_tx' = [key |-> elk, orders |-> batch, by |-> r.position]
      BY <1>5, <2>1, <3>2 DEF IsKnown
    <3>3. QED
      BY <1>2, <3>1, <3>2
  <2>3. placed \in SUBSET Positions
    BY DEF TypeOK
  <2>4. QED
    BY <1>2, <1>4, <2>1, <2>2, <2>3 DEF KeyInv, AskersKnown, IsKnown
<1>12. QED
  BY <1>2, <1>6, <1>7, <1>8, <1>9, <1>10, <1>11 DEF KeyInv, NoUnknownPosition

\* A received fill advances the hub's key, and the key of its position, by
\* exactly one report; it always finds its position.
LEMMA ReceiveKeepsKeyInv ==
  ASSUME TypeOK, KeyInv, HubStep, ReceiveFill
  PROVE  KeyInv'
<1> DEFINE f == Head(fills_rx)
<1>1. fills_rx \in Seq(Fills) /\ fills_rx # <<>> /\ issued \in Seq(Positions) /\ elk \in Nat
  BY DEF TypeOK, ReceiveFill, KeyTaken
<1>2. f \in Fills /\ f = fills_rx[1] /\ Len(fills_rx) \in Nat \ {0}
  BY <1>1, HeadInSeq
<1>3. f.key = elk + 1 /\ f.position = issued[elk + 1] /\ elk + 1 \in 1..Len(issued)
  <2>1. 1 \in 1..Len(fills_rx)
    BY <1>2
  <2>2. fills_rx[1] = [key |-> elk + 1, position |-> issued[elk + 1]]
    BY <2>1 DEF KeyInv, HubLagsByItsQueue
  <2>3. elk + Len(fills_rx) = Len(issued)
    BY DEF KeyInv, HubLagsByItsQueue, last_reported_fill_key
  <2>4. elk + 1 \in 1..Len(issued)
    BY <1>1, <1>2, <2>3
  <2>5. QED
    BY <1>2, <2>2, <2>4
<1>4. f.position \in Positions /\ IsKnown(f.position)
  BY <1>2, <1>3 DEF Fills, KeyInv, AskersKnown
<1>5. /\ fills_rx' = Tail(fills_rx) /\ elk' = elk + 1
      /\ plk' = [plk EXCEPT ![f.position].key = elk + 1]
      /\ hub' = "delivering"
      /\ UNCHANGED <<rx, issued, outgoing, orders_tx, accepted, placed>>
  BY <1>3, <1>4 DEF ReceiveFill, KeyTaken, HubStep, IsKnown
<1>6. \A p \in Positions : /\ plk'[p].key = IF p = f.position THEN elk + 1 ELSE plk[p].key
                           /\ plk'[p].callback = plk[p].callback
                           /\ plk'[p].requested = plk[p].requested
  BY <1>4, <1>5 DEF TypeOK, PositionLocalKnowledge
<1>7. HubLagsByItsQueue'
  <2>1. /\ Len(fills_rx') = Len(fills_rx) - 1
        /\ \A i \in 1..Len(fills_rx') : fills_rx'[i] = fills_rx[i + 1]
    BY <1>1, <1>5, TailOfSeq
  <2>2. \A i \in 1..Len(fills_rx') : i + 1 \in 1..Len(fills_rx)
    BY <1>2, <2>1
  <2>3. \A i \in 1..Len(fills_rx') :
          fills_rx'[i] = [key |-> elk + (i + 1), position |-> issued[elk + (i + 1)]]
    BY <2>1, <2>2 DEF KeyInv, HubLagsByItsQueue
  <2>4. \A i \in 1..Len(fills_rx') : elk + (i + 1) = (elk + 1) + i
    BY <1>1
  <2>5. elk' + Len(fills_rx') = Len(issued)
    BY <1>1, <1>2, <1>5, <2>1 DEF KeyInv, HubLagsByItsQueue, last_reported_fill_key
  <2>6. QED
    BY <1>5, <2>3, <2>4, <2>5 DEF HubLagsByItsQueue, last_reported_fill_key
<1>8. PositionKeyIsItsLastFill'
  <2>1. ASSUME NEW p \in Positions
        PROVE  LastFillIn(issued, p, plk'[p].key, elk + 1)
    <3>1. LastFillIn(issued, p, plk[p].key, elk) /\ plk[p].key \in Nat
      BY DEF KeyInv, PositionKeyIsItsLastFill, IsLatest, TypeOK, PositionLocalKnowledge
    <3>2. LastFillIn(issued, p, IF issued[elk + 1] = p THEN elk + 1 ELSE plk[p].key, elk + 1)
      BY <1>1, <3>1, LastFillNext
    <3>3. QED
      BY <1>3, <1>6, <3>2
  <2>2. QED
    BY <1>5, <2>1 DEF PositionKeyIsItsLastFill, IsLatest
<1>9. RequestsCarryTheirKey'
  BY <1>5 DEF KeyInv, RequestsCarryTheirKey
<1>10. WatchUpToDate' /\ AcceptedUpToDate'
  <2>1. orders_tx.key \in Nat
    BY DEF TypeOK, Batches
  <2>2. QED
    BY <1>1, <1>5, <2>1 DEF KeyInv, WatchUpToDate, AcceptedUpToDate, AskerUpToDate,
                            IsLatest, last_reported_fill_key
<1>11. AskersKnown'
  <2>1. /\ \A b \in orders_tx.orders : b.position \in Positions
        /\ placed \in SUBSET Positions
    BY DEF TypeOK, Batches
  <2>2. QED
    BY <1>5, <1>6, <2>1 DEF KeyInv, AskersKnown, IsKnown
<1>12. QED
  BY <1>5, <1>7, <1>8, <1>9, <1>10, <1>11 DEF KeyInv, NoUnknownPosition

\* A report adds its fill at the end of what the hub has yet to handle, and
\* leaves what was reported before untouched.
LEMMA ReportKeepsKeyInv ==
  ASSUME TypeOK, KeyInv, NEW q \in Positions, ReportFill(q)
  PROVE  KeyInv'
<1> DEFINE f == [key |-> Len(issued) + 1, position |-> q]
<1>1. /\ issued' = Append(issued, q) /\ fills_rx' = Append(fills_rx, f)
      /\ q \in placed
      /\ UNCHANGED <<rx, plk, elk, hub, outgoing, orders_tx, accepted, placed>>
  BY DEF ReportFill, hubVars, positionVars
<1>2. /\ issued \in Seq(Positions) /\ fills_rx \in Seq(Fills) /\ elk \in Nat
      /\ Len(issued) \in Nat /\ Len(fills_rx) \in Nat
      /\ elk + Len(fills_rx) = Len(issued)
  BY LenProperties DEF TypeOK, KeyInv, HubLagsByItsQueue, last_reported_fill_key
<1>3. /\ Len(issued') = Len(issued) + 1
      /\ \A i \in 1..Len(issued) : issued'[i] = issued[i]
      /\ issued'[Len(issued) + 1] = q
  BY <1>1, <1>2, AppendToSeq
<1>4. /\ Len(fills_rx') = Len(fills_rx) + 1
      /\ \A i \in 1..Len(fills_rx) : fills_rx'[i] = fills_rx[i]
      /\ fills_rx'[Len(fills_rx) + 1] = f
  <2>1. f \in Fills
    BY <1>2 DEF Fills
  <2>2. QED
    BY <1>1, <1>2, <2>1, AppendToSeq
<1>5. \A p, k, n : n \in 0..Len(issued) /\ k \in Nat /\ LastFillIn(issued, p, k, n)
                     => LastFillIn(issued', p, k, n)
  BY <1>1, <1>2, LastFillStable
<1>6. HubLagsByItsQueue'
  <2>1. ASSUME NEW i \in 1..Len(fills_rx')
        PROVE  fills_rx'[i] = [key |-> elk + i, position |-> issued'[elk + i]]
    <3>1. CASE i \in 1..Len(fills_rx)
      <4>1. elk + i \in 1..Len(issued)
        BY <1>2, <3>1
      <4>2. QED
        BY <1>3, <1>4, <3>1, <4>1 DEF KeyInv, HubLagsByItsQueue
    <3>2. CASE i = Len(fills_rx) + 1
      <4>1. elk + i = Len(issued) + 1
        BY <1>2, <3>2
      <4>2. QED
        BY <1>3, <1>4, <3>2, <4>1
    <3>3. i \in 1..Len(fills_rx) \/ i = Len(fills_rx) + 1
      BY <1>2, <1>4
    <3>4. QED
      BY <3>1, <3>2, <3>3
  <2>2. elk + Len(fills_rx') = Len(issued')
    <3>1. Len(fills_rx') = Len(fills_rx) + 1 /\ Len(issued') = Len(issued) + 1
      BY <1>3, <1>4
    <3>2. QED
      BY <1>2, <3>1
  <2>3. QED
    BY <1>1, <2>1, <2>2 DEF HubLagsByItsQueue, last_reported_fill_key
<1>7. PositionKeyIsItsLastFill'
  <2>1. \A p \in Positions : plk[p].key \in Nat /\ LastFillIn(issued, p, plk[p].key, elk)
    BY DEF TypeOK, PositionLocalKnowledge, KeyInv, PositionKeyIsItsLastFill, IsLatest
  <2>2. QED
    BY <1>1, <1>2, <1>5, <2>1 DEF PositionKeyIsItsLastFill, IsLatest
<1>8. RequestsCarryTheirKey'
  BY <1>1 DEF KeyInv, RequestsCarryTheirKey
<1>9. ASSUME NEW batch \in Batches, batch.key <= Len(issued), AskerUpToDate(batch),
             NEW b \in batch.orders, b.position = batch.by
      PROVE  LastFillIn(issued', b.position, b.order.basis, batch.key)
  <2>1. LastFillIn(issued, b.position, b.order.basis, batch.key)
    BY <1>9 DEF AskerUpToDate, IsLatest
  <2>2. b.order.basis \in Nat /\ batch.key \in 0..Len(issued)
    BY <1>2, <1>9 DEF Batches, Orders
  <2>3. QED
    BY <1>5, <2>1, <2>2
<1>10. WatchUpToDate'
  <2>1. orders_tx \in Batches /\ orders_tx.key <= elk /\ AskerUpToDate(orders_tx)
    BY DEF TypeOK, KeyInv, WatchUpToDate
  <2>2. orders_tx.key <= Len(issued)
    BY <1>2, <2>1 DEF Batches
  <2>3. QED
    BY <1>1, <1>9, <2>1, <2>2 DEF WatchUpToDate, AskerUpToDate, IsLatest
<1>11. AcceptedUpToDate'
  <2>1. accepted \in Batches /\ accepted.key <= Len(issued) /\ AskerUpToDate(accepted)
    BY DEF TypeOK, KeyInv, AcceptedUpToDate, last_reported_fill_key
  <2>2. accepted.key <= Len(issued')
    BY <1>2, <1>3, <2>1 DEF Batches
  <2>3. QED
    BY <1>1, <1>9, <2>1, <2>2
       DEF AcceptedUpToDate, AskerUpToDate, IsLatest, last_reported_fill_key
<1>12. AskersKnown'
  <2>1. \A i \in 1..Len(issued') : issued'[i] \in placed
    BY <1>1, <1>2, <1>3 DEF KeyInv, AskersKnown
  <2>2. QED
    BY <1>1, <2>1 DEF KeyInv, AskersKnown, IsKnown
<1>13. QED
  BY <1>1, <1>6, <1>7, <1>8, <1>10, <1>11, <1>12 DEF KeyInv, NoUnknownPosition

\* The invariant on keys is inductive.
LEMMA NextKeyInv == TypeOK /\ KeyInv /\ [Next]_vars => KeyInv'
<1> SUFFICES ASSUME TypeOK, KeyInv, [Next]_vars PROVE KeyInv'
  OBVIOUS
<1> DEFINE AllButHub ==
      UNCHANGED <<rx, fills_rx, elk, plk, issued, outgoing, orders_tx, accepted, placed>>
<1>1. ASSUME AllButHub, hub' # "panic_unknown_position" PROVE KeyInv'
  BY <1>1 DEF KeyInv, HubLagsByItsQueue, PositionKeyIsItsLastFill, RequestsCarryTheirKey,
              WatchUpToDate, AcceptedUpToDate, AskerUpToDate, AskersKnown, IsKnown,
              NoUnknownPosition, IsLatest, last_reported_fill_key
\* Steps of a position move requests only.
<1>2. ASSUME UNCHANGED <<fills_rx, elk, plk, issued, orders_tx, accepted, placed, hub>>,
             RequestsCarryTheirKey'
      PROVE  KeyInv'
  BY <1>2 DEF KeyInv, HubLagsByItsQueue, PositionKeyIsItsLastFill,
              WatchUpToDate, AcceptedUpToDate, AskerUpToDate, AskersKnown, IsKnown,
              NoUnknownPosition, IsLatest, last_reported_fill_key
<1>3. CASE HubStep /\ (DeliverFill \/ FailDelivery)
  BY <1>1, <1>3 DEF HubStep, DeliverFill, Delivered, FailDelivery
<1>4. CASE SeeChange \/ RuntimePanics
  BY <1>1, <1>4 DEF SeeChange, RuntimePanics, hubVars, channelVars, positionVars,
                    KeyInv, NoUnknownPosition
<1>5. CASE HandleHubOrdersUpdate
  <2>1. /\ UNCHANGED <<rx, fills_rx, elk, plk, issued, outgoing, orders_tx, hub>>
        /\ \/ UNCHANGED <<accepted, placed>>
           \/ /\ orders_tx.key = Len(issued)
              /\ accepted' = orders_tx
              /\ placed' = placed \union {b.position : b \in orders_tx.orders}
    BY <1>5 DEF HandleHubOrdersUpdate, CurrentBatch, hubVars, channelVars, positionVars,
                last_reported_fill_key
  <2>2. AcceptedUpToDate'
    <3>1. Len(issued) \in Nat
      BY LenProperties DEF TypeOK
    <3>2. CASE UNCHANGED accepted
      BY <2>1, <3>2 DEF KeyInv, AcceptedUpToDate, AskerUpToDate, IsLatest,
                        last_reported_fill_key
    <3>3. CASE orders_tx.key = Len(issued) /\ accepted' = orders_tx
      BY <2>1, <3>1, <3>3 DEF KeyInv, WatchUpToDate, AcceptedUpToDate, AskerUpToDate,
                              IsLatest, last_reported_fill_key
    <3>4. QED
      BY <2>1, <3>2, <3>3
  <2>3. AskersKnown'
    BY <2>1 DEF KeyInv, AskersKnown, IsKnown
  <2>4. QED
    BY <2>1, <2>2, <2>3 DEF KeyInv, HubLagsByItsQueue, PositionKeyIsItsLastFill,
              RequestsCarryTheirKey, WatchUpToDate, AskerUpToDate,
              NoUnknownPosition, IsLatest, last_reported_fill_key
<1>6. ASSUME NEW p \in Positions, ReceiveProtocolOrders(p) PROVE KeyInv'
  <2>1. PICK q \in Requests : /\ \A o \in q.orders : o.basis = q.key
                              /\ outgoing' = [outgoing EXCEPT ![p] = q]
    BY <1>6, AskType DEF ReceiveProtocolOrders, Selecting, TypeOK
  <2>2. RequestsCarryTheirKey'
    <3>1. rx' = rx
      BY <1>6 DEF ReceiveProtocolOrders, channelVars
    <3>2. outgoing \in [Positions -> Requests \union {NoRequest}]
      BY DEF TypeOK
    <3>3. RequestsCarryTheirKey
      BY DEF KeyInv
    <3>4. \A r \in Positions : \A o \in outgoing'[r].orders : o.basis = outgoing'[r].key
      BY <2>1, <3>2, <3>3 DEF RequestsCarryTheirKey
    <3>5. QED
      BY <3>1, <3>3, <3>4 DEF RequestsCarryTheirKey
  <2>3. QED
    BY <1>2, <1>6, <2>2 DEF ReceiveProtocolOrders, hubVars, channelVars, runtimeVars
<1>7. ASSUME NEW p \in Positions, ReceiveProtocolFills(p) PROVE KeyInv'
  <2>1. fills_chan[p] \in Seq(Fills) /\ fills_chan[p] # <<>>
    BY <1>7 DEF ReceiveProtocolFills, TakeFill, TypeOK
  <2>2. Head(fills_chan[p]) \in Fills
    BY <2>1, HeadInSeq
  <2>3. Head(fills_chan[p]).key \in Nat
    BY <2>2 DEF Fills
  <2>4. PICK q \in Requests : /\ \A o \in q.orders : o.basis = q.key
                              /\ outgoing' = [outgoing EXCEPT ![p] = q]
    BY <1>7, <2>3, AskType DEF ReceiveProtocolFills, TakeFill, Selecting
  <2>5. RequestsCarryTheirKey'
    <3>1. rx' = rx
      BY <1>7 DEF ReceiveProtocolFills, TakeFill
    <3>2. outgoing \in [Positions -> Requests \union {NoRequest}]
      BY DEF TypeOK
    <3>3. RequestsCarryTheirKey
      BY DEF KeyInv
    <3>4. \A r \in Positions : \A o \in outgoing'[r].orders : o.basis = outgoing'[r].key
      BY <2>4, <3>2, <3>3 DEF RequestsCarryTheirKey
    <3>5. QED
      BY <3>1, <3>3, <3>4 DEF RequestsCarryTheirKey
  <2>6. QED
    BY <1>2, <1>7, <2>5 DEF ReceiveProtocolFills, TakeFill, hubVars, runtimeVars
<1>8. ASSUME NEW p \in Positions, CompleteStage(p) PROVE KeyInv'
  BY <1>2, <1>8 DEF CompleteStage, TakeFill, hubVars, runtimeVars, KeyInv, RequestsCarryTheirKey
<1>9. ASSUME NEW p \in Positions, SendOrdersToHub(p) PROVE KeyInv'
  <2>1. outgoing[p] \in Requests /\ rx \in Seq(Requests)
    BY <1>9 DEF SendOrdersToHub, RoomForRequest, TypeOK
  <2>2. /\ Len(rx') = Len(rx) + 1
        /\ \A i \in 1..Len(rx) : rx'[i] = rx[i]
        /\ rx'[Len(rx) + 1] = outgoing[p]
        /\ Len(rx) \in Nat
    BY <1>9, <2>1, AppendToSeq, LenProperties DEF SendOrdersToHub, RoomForRequest
  <2>3. \A i \in 1..Len(rx') : i \in 1..Len(rx) \/ i = Len(rx) + 1
    BY <2>2
  <2>4. outgoing' = [outgoing EXCEPT ![p] = NoRequest]
    BY <1>9 DEF SendOrdersToHub, RoomForRequest
  <2>5. RequestsCarryTheirKey'
    <3>1. RequestsCarryTheirKey /\ outgoing \in [Positions -> Requests \union {NoRequest}]
      BY DEF KeyInv, TypeOK
    <3>2. \A i \in 1..Len(rx') : \A o \in rx'[i].orders : o.basis = rx'[i].key
      <4> TAKE i \in 1..Len(rx')
      <4>1. CASE i \in 1..Len(rx)
        BY <2>2, <3>1, <4>1 DEF RequestsCarryTheirKey
      <4>2. CASE i = Len(rx) + 1
        BY <2>2, <3>1, <4>2 DEF RequestsCarryTheirKey
      <4>3. QED
        BY <2>3, <4>1, <4>2
    <3>3. \A r \in Positions : \A o \in outgoing'[r].orders : o.basis = outgoing'[r].key
      BY <2>4, <3>1 DEF RequestsCarryTheirKey, NoRequest
    <3>4. QED
      BY <3>2, <3>3 DEF RequestsCarryTheirKey
  <2>6. QED
    BY <1>2, <1>9, <2>5 DEF SendOrdersToHub, RoomForRequest, hubVars, runtimeVars
<1>10. ASSUME NEW p \in Positions, FailToSend(p) PROVE KeyInv'
  <2>1. RequestsCarryTheirKey'
    BY <1>10 DEF FailToSend, KeyInv, RequestsCarryTheirKey, NoRequest, TypeOK
  <2>2. QED
    BY <1>2, <1>10, <2>1 DEF FailToSend, hubVars, runtimeVars
<1>11. CASE UNCHANGED vars
  BY <1>1, <1>11 DEF vars, hubVars, channelVars, positionVars, runtimeVars, KeyInv,
                     NoUnknownPosition
<1>12. QED
  BY <1>3, <1>4, <1>5, <1>6, <1>7, <1>8, <1>9, <1>10, <1>11, IgnoreKeepsKeyInv,
     ApplyKeepsKeyInv, ReceiveKeepsKeyInv, ReportKeepsKeyInv
     DEF Next, HubStep, HubNext, HandleUpdateFromPosition, Runtime, Position

\* The inductive invariant of the fill keys holds in every reachable state.
THEOREM KeysCorrect == Spec => []KeyInv
<1>1. QED
  BY InitTypeOK, NextTypeOK, InitKeyInv, NextKeyInv, PTL DEF Spec

\* The purpose of the fill key: whenever the runtime acts on a batch, the
\* position that asked for it had seen every fill reported for it.
THEOREM AskerUpToDateTheorem == Spec => []AcceptedAskerUpToDate
<1>1. KeyInv => AcceptedAskerUpToDate
  BY DEF KeyInv, AcceptedUpToDate, AcceptedAskerUpToDate
<1>2. QED
  BY <1>1, KeysCorrect, PTL

\* The hub's expect(..) on positions_local_knowledge never fires.
THEOREM FillsGoToKnownPositions == Spec => []NoUnknownPosition
<1>1. KeyInv => NoUnknownPosition
  BY DEF KeyInv
<1>2. QED
  BY <1>1, KeysCorrect, PTL

-----------------------------------------------------------------------------
(***************************************************************************)
(* No position is left behind.  While it acquires, the last key on its way *)
(* to a position - in the hub's hand, else at the end of its channel, else *)
(* taken by it - is the key the hub demands from it.                       *)
(***************************************************************************)
Acquiring(p) == listening[p] = "acquisition"

LastKeyFor(p) ==
  IF inHand.position = p THEN inHand.key
  ELSE IF fills_chan[p] # <<>> THEN fills_chan[p][Len(fills_chan[p])].key
  ELSE last_fill_key[p]

HubKeyIsOnItsWay == \A p \in Positions : Acquiring(p) => plk[p].key = LastKeyFor(p)

\* The hub sends to the channel of the stage a position is in: nobody who still
\* acquires has ever made a request from its followup.
FirstChannel ==
  \A p \in Positions : Acquiring(p) =>
    /\ plk[p].callback \in {None, "acquisition"}
    /\ outgoing[p].callback \in {None, "acquisition"}
    /\ \A i \in 1..Len(rx) : rx[i].position = p => rx[i].callback = "acquisition"

\* A request a position is about to send is its own.
OwnRequests == \A p \in Positions : outgoing[p].position \in {None, p}

InHandIsKnown == \A p \in Positions : inHand.position = p => IsKnown(p)

OnItsWay == HubKeyIsOnItsWay /\ FirstChannel /\ InHandIsKnown /\ OwnRequests

\* The last element after one is appended.
LEMMA LastOfAppend ==
  ASSUME NEW S, NEW s \in Seq(S), NEW e \in S
  PROVE  Append(s, e) # <<>> /\ Append(s, e)[Len(Append(s, e))] = e
<1>1. Len(Append(s, e)) = Len(s) + 1 /\ Append(s, e)[Len(s) + 1] = e /\ Len(s) \in Nat
  BY AppendToSeq, LenProperties
<1>2. Len(Append(s, e)) # 0
  BY <1>1
<1>3. QED
  BY <1>1, <1>2, EmptySeq

\* The last element stays the last while others are taken before it.
LEMMA LastOfTail ==
  ASSUME NEW S, NEW s \in Seq(S), s # <<>>
  PROVE  s[Len(s)] = IF Tail(s) # <<>> THEN Tail(s)[Len(Tail(s))] ELSE Head(s)
<1> DEFINE t == Tail(s)
<1>1. /\ Head(s) = s[1] /\ Len(s) \in Nat \ {0}
      /\ t \in Seq(S) /\ Len(t) = Len(s) - 1
      /\ \A i \in 1..Len(t) : t[i] = s[i + 1]
  BY HeadInSeq, TailOfSeq
<1> HIDE DEF t
<1>2. CASE t = <<>>
  <2>1. Len(t) = 0
    BY <1>2, EmptySeq
  <2>2. Len(s) = 1
    BY <1>1, <2>1
  <2>3. QED
    BY <1>1, <1>2, <2>2 DEF t
<1>3. CASE t # <<>>
  <2>1. Len(t) \in Nat \ {0}
    BY <1>1, <1>3, EmptySeq
  <2>2. Len(t) \in 1..Len(t) /\ Len(t) + 1 = Len(s)
    BY <1>1, <2>1
  <2>3. t[Len(t)] = s[Len(s)]
    BY <1>1, <2>2
  <2>4. QED
    BY <1>3, <2>3 DEF t
<1>4. QED
  BY <1>2, <1>3

\* Nobody is behind before the first fill.
LEMMA InitOnItsWay == Init => OnItsWay
BY ProtocolAssumption
   DEF Init, HubInit, OnItsWay, HubKeyIsOnItsWay, FirstChannel, InHandIsKnown, OwnRequests, LastKeyFor,
       NoRequest, NoFill

\* A request the hub takes changes neither keys nor what is on its way, and its
\* callback is the one of the first channel.
LEMMA RequestKeepsOnItsWay ==
  ASSUME TypeOK, OnItsWay, HubStep, HandleUpdateFromPosition
  PROVE  OnItsWay'
<1> DEFINE r == Head(rx)
<1>1. rx \in Seq(Requests) /\ rx # <<>> /\ rx' = Tail(rx)
  BY DEF TypeOK, HandleUpdateFromPosition, IgnoreRequest, ApplyRequest, TakeRequest
<1>2. r \in Requests /\ r = rx[1] /\ Len(rx) \in Nat \ {0}
  BY <1>1, HeadInSeq
<1>3. Len(rx') = Len(rx) - 1 /\ \A i \in 1..Len(rx') : rx'[i] = rx[i + 1]
  BY <1>1, TailOfSeq
<1>4. UNCHANGED <<fills_chan, listening, inHand, last_fill_key, outgoing>>
  BY DEF HubStep, HandleUpdateFromPosition, IgnoreRequest, ApplyRequest, TakeRequest
<1>5. \A p \in Positions :
        /\ plk'[p].key = plk[p].key
        /\ \/ plk'[p].callback = plk[p].callback
           \/ p = r.position /\ plk[p].callback = None /\ plk'[p].callback = r.callback
  <2>1. r.position \in Positions /\ r.callback \in Stages
    BY <1>2 DEF Requests
  <2>2. plk' = Known(r) \/ plk' = Requested(r)
    BY DEF HandleUpdateFromPosition, IgnoreRequest, ApplyRequest
  <2>3. plk \in [Positions -> PositionLocalKnowledge]
    BY DEF TypeOK
  <2>4. \A p \in Positions :
          /\ Known(r)[p].key = plk[p].key
          /\ \/ Known(r)[p].callback = plk[p].callback
             \/ p = r.position /\ plk[p].callback = None /\ Known(r)[p].callback = r.callback
    BY <2>1, <2>3 DEF Known, PositionLocalKnowledge
  <2>5. \A p \in Positions : /\ Requested(r)[p].key = Known(r)[p].key
                             /\ Requested(r)[p].callback = Known(r)[p].callback
    <3>1. Known(r) \in [Positions -> PositionLocalKnowledge]
      BY <1>2, RequestedType
    <3>2. QED
      BY <2>1, <3>1 DEF Requested, PositionLocalKnowledge
  <2>6. QED
    BY <2>2, <2>4, <2>5
<1>6. \A p \in Positions : Acquiring(p) /\ r.position = p => r.callback = "acquisition"
  <2>1. 1 \in 1..Len(rx)
    BY <1>2
  <2>2. QED
    BY <1>2, <2>1 DEF OnItsWay, FirstChannel
<1> HIDE DEF r
<1>7. HubKeyIsOnItsWay'
  BY <1>4, <1>5 DEF OnItsWay, HubKeyIsOnItsWay, LastKeyFor, Acquiring
<1>8. FirstChannel'
  <2>1. \A i \in 1..Len(rx') : i + 1 \in 1..Len(rx)
    BY <1>2, <1>3
  <2>2. QED
    BY <1>3, <1>4, <1>5, <1>6, <2>1 DEF OnItsWay, FirstChannel, Acquiring
<1>9. InHandIsKnown' /\ OwnRequests'
  <2>1. r.callback # None
    BY <1>2 DEF Requests
  <2>2. QED
    BY <1>4, <1>5, <2>1 DEF OnItsWay, InHandIsKnown, OwnRequests, IsKnown
<1>10. QED
  BY <1>7, <1>8, <1>9 DEF OnItsWay

\* A fill the hub takes moves the key it demands, and is in its hand.
LEMMA ReceiveKeepsOnItsWay ==
  ASSUME TypeOK, OnItsWay, HubStep, ReceiveFill
  PROVE  OnItsWay'
<1> DEFINE f == Head(fills_rx)
<1>1. f \in Fills
  <2>1. fills_rx \in Seq(Fills) /\ fills_rx # <<>>
    BY DEF TypeOK, ReceiveFill
  <2>2. QED
    BY <2>1, HeadInSeq
<1>2. /\ UNCHANGED <<rx, fills_chan, listening, last_fill_key, outgoing>>
      /\ inHand = NoFill
  BY DEF HubStep, ReceiveFill, TypeOK
<1>3. plk \in [Positions -> PositionLocalKnowledge] /\ f.position \in Positions /\ f.key \in Nat
  BY <1>1 DEF TypeOK, Fills
<1>4. CASE IsKnown(f.position)
  <2>1. plk' = [plk EXCEPT ![f.position].key = f.key] /\ inHand' = f
    BY <1>4 DEF ReceiveFill, KeyTaken, IsKnown
  <2>2. \A p \in Positions : /\ plk'[p].key = IF p = f.position THEN f.key ELSE plk[p].key
                             /\ plk'[p].callback = plk[p].callback
    BY <1>3, <2>1 DEF PositionLocalKnowledge
  <2> HIDE DEF f
  <2>3. HubKeyIsOnItsWay'
    BY <1>2, <1>3, <2>1, <2>2, ProtocolAssumption
       DEF OnItsWay, HubKeyIsOnItsWay, LastKeyFor, Acquiring, NoFill
  <2>4. FirstChannel' /\ InHandIsKnown' /\ OwnRequests'
    BY <1>2, <1>3, <1>4, <2>1, <2>2 DEF OnItsWay, FirstChannel, InHandIsKnown, OwnRequests, IsKnown, Acquiring
  <2>5. QED
    BY <2>3, <2>4 DEF OnItsWay
<1>5. CASE ~IsKnown(f.position)
  <2>1. UNCHANGED <<plk, inHand>>
    BY <1>2, <1>5 DEF ReceiveFill, IsKnown
  <2>2. QED
    BY <1>2, <2>1 DEF OnItsWay, HubKeyIsOnItsWay, LastKeyFor, FirstChannel, InHandIsKnown, OwnRequests,
                      IsKnown, Acquiring
<1>6. QED
  BY <1>4, <1>5

\* What was in the hub's hand is then the end of the position's channel.
LEMMA DeliverKeepsOnItsWay ==
  ASSUME TypeOK, OnItsWay, HubStep, DeliverFill
  PROVE  OnItsWay'
<1> DEFINE q == inHand.position
<1>1. inHand \in Fills /\ q \in Positions
  BY DEF DeliverFill, TypeOK, Fills
<1>2. /\ UNCHANGED <<rx, listening, last_fill_key, outgoing, plk>>
      /\ inHand' = NoFill
      /\ fills_chan' = [fills_chan EXCEPT ![q] = Append(fills_chan[q], inHand)]
      /\ fills_chan \in [Positions -> Seq(Fills)]
  BY DEF HubStep, DeliverFill, Delivered, TypeOK
<1>3. /\ fills_chan'[q] # <<>>
      /\ fills_chan'[q][Len(fills_chan'[q])] = inHand
  <2>1. fills_chan'[q] = Append(fills_chan[q], inHand) /\ fills_chan[q] \in Seq(Fills)
    BY <1>1, <1>2
  <2>2. QED
    BY <1>1, <2>1, LastOfAppend
<1>4. \A p \in Positions : p # q => fills_chan'[p] = fills_chan[p]
  BY <1>1, <1>2
<1>5. HubKeyIsOnItsWay'
  <2> SUFFICES ASSUME NEW p \in Positions, listening[p] = "acquisition"
               PROVE  plk[p].key = IF fills_chan'[p] # <<>>
                                   THEN fills_chan'[p][Len(fills_chan'[p])].key
                                   ELSE last_fill_key[p]
    BY <1>2, ProtocolAssumption DEF HubKeyIsOnItsWay, LastKeyFor, Acquiring, NoFill
  <2>1. CASE p = q
    BY <1>3, <2>1 DEF OnItsWay, HubKeyIsOnItsWay, LastKeyFor, Acquiring
  <2>2. CASE p # q
    BY <1>4, <2>2 DEF OnItsWay, HubKeyIsOnItsWay, LastKeyFor, Acquiring
  <2>3. QED
    BY <2>1, <2>2
<1>6. FirstChannel' /\ InHandIsKnown' /\ OwnRequests'
  BY <1>2, ProtocolAssumption DEF OnItsWay, FirstChannel, InHandIsKnown, OwnRequests, NoFill, Acquiring
<1>7. QED
  BY <1>5, <1>6 DEF OnItsWay

\* A delivery fails only towards a position that has stopped acquiring.
LEMMA FailsAfterAcquisition ==
  ASSUME TypeOK, OnItsWay, FailDelivery
  PROVE  inHand.position \in Positions /\ ~Acquiring(inHand.position)
<1>1. inHand.position \in Positions
  BY DEF FailDelivery, TypeOK, Fills
<1>2. QED
  BY <1>1 DEF FailDelivery, Dropped, OnItsWay, FirstChannel, InHandIsKnown, OwnRequests, IsKnown, Acquiring

\* The position takes the keys in the order they came.
LEMMA TakeKeepsOnItsWay ==
  ASSUME TypeOK, OnItsWay, NEW q \in Positions, ReceiveProtocolFills(q)
  PROVE  OnItsWay'
<1> DEFINE s == fills_chan[q]
<1>1. /\ UNCHANGED <<rx, listening, inHand, plk>>
      /\ s \in Seq(Fills) /\ s # <<>> /\ listening[q] # None
      /\ fills_chan' = [fills_chan EXCEPT ![q] = Tail(s)]
      /\ last_fill_key' = [last_fill_key EXCEPT ![q] = Head(s).key]
      /\ Ask(q, Head(s).key)
  BY DEF ReceiveProtocolFills, TakeFill, Selecting, TypeOK, hubVars, runtimeVars
<1>3. s[Len(s)].key = IF Tail(s) # <<>> THEN Tail(s)[Len(Tail(s))].key ELSE Head(s).key
  BY <1>1, LastOfTail
<1>4. /\ fills_chan'[q] = Tail(s) /\ last_fill_key'[q] = Head(s).key
      /\ \A p \in Positions : p # q => /\ fills_chan'[p] = fills_chan[p]
                                       /\ last_fill_key'[p] = last_fill_key[p]
  BY <1>1 DEF TypeOK
<1>5. \A p \in Positions : /\ outgoing'[p].callback \in {outgoing[p].callback, listening[p]}
                           /\ outgoing'[p].position \in {outgoing[p].position, p}
  BY <1>1 DEF Ask, TypeOK
<1> HIDE DEF s
<1>6. HubKeyIsOnItsWay'
  <2> SUFFICES ASSUME NEW p \in Positions, listening[p] = "acquisition"
               PROVE  plk[p].key = LastKeyFor(p)'
    BY <1>1 DEF HubKeyIsOnItsWay, Acquiring
  <2>0. plk[p].key = LastKeyFor(p)
    BY DEF OnItsWay, HubKeyIsOnItsWay, Acquiring
  <2>1. CASE p = q
    BY <1>1, <1>3, <1>4, <2>0, <2>1 DEF LastKeyFor, s
  <2>2. CASE p # q
    BY <1>1, <1>4, <2>0, <2>2 DEF LastKeyFor
  <2>3. QED
    BY <2>1, <2>2
<1>7. FirstChannel' /\ InHandIsKnown' /\ OwnRequests'
  BY <1>1, <1>5 DEF OnItsWay, FirstChannel, InHandIsKnown, OwnRequests, IsKnown, Acquiring
<1>8. QED
  BY <1>6, <1>7 DEF OnItsWay

\* What is on its way keeps ending at the key the hub demands.
LEMMA NextOnItsWay == TypeOK /\ OnItsWay /\ [Next]_vars => OnItsWay'
<1> SUFFICES ASSUME TypeOK, OnItsWay, [Next]_vars PROVE OnItsWay'
  OBVIOUS
<1>1. ASSUME UNCHANGED <<rx, fills_chan, listening, plk, inHand, last_fill_key, outgoing>>
      PROVE  OnItsWay'
  BY <1>1 DEF OnItsWay, HubKeyIsOnItsWay, LastKeyFor, FirstChannel, InHandIsKnown, OwnRequests, IsKnown, Acquiring
\* A position that stops acquiring is of no concern any more.
<1>2. ASSUME NEW q \in Positions, ~Acquiring(q)', UNCHANGED <<rx, plk, inHand, outgoing>>,
             \A p \in Positions : p # q => /\ listening'[p] = listening[p]
                                           /\ fills_chan'[p] = fills_chan[p]
                                           /\ last_fill_key'[p] = last_fill_key[p]
      PROVE  OnItsWay'
  BY <1>2 DEF OnItsWay, HubKeyIsOnItsWay, LastKeyFor, FirstChannel, InHandIsKnown, OwnRequests, IsKnown, Acquiring
<1>3. CASE HubStep /\ FailDelivery
  <2>1. /\ UNCHANGED <<rx, fills_chan, listening, plk, last_fill_key, outgoing>>
        /\ inHand' = NoFill
    BY <1>3 DEF HubStep, FailDelivery
  <2>2. \A p \in Positions : Acquiring(p) => inHand.position # p
    BY <1>3, FailsAfterAcquisition
  <2>3. HubKeyIsOnItsWay'
    BY <2>1, <2>2, ProtocolAssumption DEF OnItsWay, HubKeyIsOnItsWay, LastKeyFor, NoFill, Acquiring
  <2>4. FirstChannel' /\ InHandIsKnown' /\ OwnRequests'
    BY <2>1, ProtocolAssumption DEF OnItsWay, FirstChannel, InHandIsKnown, OwnRequests, NoFill, Acquiring
  <2>5. QED
    BY <2>3, <2>4 DEF OnItsWay
<1>4. CASE Runtime
  BY <1>1, <1>4 DEF Runtime, SeeChange, HandleHubOrdersUpdate, ReportFill, RuntimePanics,
                    hubVars, channelVars, positionVars
<1>5. ASSUME NEW q \in Positions, ReceiveProtocolOrders(q) PROVE OnItsWay'
  <2>1. /\ UNCHANGED <<rx, fills_chan, listening, plk, inHand, last_fill_key>>
        /\ Ask(q, last_fill_key[q])
    BY <1>5 DEF ReceiveProtocolOrders, hubVars, channelVars
  <2>2. \A p \in Positions : /\ outgoing'[p].callback \in {outgoing[p].callback, listening[p]}
                             /\ outgoing'[p].position \in {outgoing[p].position, p}
    BY <2>1 DEF Ask, TypeOK
  <2>3. QED
    BY <2>1, <2>2 DEF OnItsWay, HubKeyIsOnItsWay, LastKeyFor, FirstChannel, InHandIsKnown, OwnRequests,
                      IsKnown, Acquiring
<1>6. ASSUME NEW q \in Positions, CompleteStage(q) PROVE OnItsWay'
  BY <1>2, <1>6 DEF CompleteStage, TakeFill, TypeOK, Acquiring, hubVars, runtimeVars
<1>7. ASSUME NEW q \in Positions, SendOrdersToHub(q) PROVE OnItsWay'
  <2>1. outgoing[q] \in Requests /\ outgoing[q].position \in Positions
    BY <1>7 DEF SendOrdersToHub, TypeOK, Requests
  <2>2. UNCHANGED <<fills_chan, listening, plk, inHand, last_fill_key>>
    BY <1>7 DEF SendOrdersToHub, hubVars
  <2>3. /\ Len(rx') = Len(rx) + 1 /\ Len(rx) \in Nat
        /\ \A i \in 1..Len(rx) : rx'[i] = rx[i]
        /\ rx'[Len(rx) + 1] = outgoing[q]
    BY <1>7, <2>1, AppendToSeq, LenProperties DEF SendOrdersToHub, TypeOK
  <2>4. outgoing' = [outgoing EXCEPT ![q] = NoRequest]
    BY <1>7 DEF SendOrdersToHub
  <2>5. FirstChannel'
    <3> SUFFICES ASSUME NEW p \in Positions, listening[p] = "acquisition"
                 PROVE  /\ outgoing'[p].callback \in {None, "acquisition"}
                        /\ \A i \in 1..Len(rx') : rx'[i].position = p =>
                                                    rx'[i].callback = "acquisition"
      BY <2>2 DEF FirstChannel, OnItsWay, Acquiring
    <3>1. outgoing'[p].callback \in {None, "acquisition"}
      BY <2>4 DEF OnItsWay, FirstChannel, NoRequest, TypeOK, Acquiring
    <3>2. ASSUME NEW i \in 1..Len(rx'), rx'[i].position = p
          PROVE  rx'[i].callback = "acquisition"
      <4>1. CASE i \in 1..Len(rx)
        BY <2>3, <3>2, <4>1 DEF OnItsWay, FirstChannel, Acquiring
      <4>2. CASE i = Len(rx) + 1
        <5>1. outgoing[q].position = p /\ outgoing[q].callback \in Stages
          BY <2>1, <2>3, <3>2, <4>2 DEF Requests
        <5>2. p = q
          BY <2>1, <5>1, ProtocolAssumption DEF OnItsWay, OwnRequests
        <5>3. QED
          BY <2>3, <4>2, <5>1, <5>2 DEF OnItsWay, FirstChannel, Acquiring
      <4>3. QED
        BY <2>3, <4>1, <4>2
    <3>3. QED
      BY <3>1, <3>2
  <2>6. OwnRequests'
    BY <2>4 DEF OnItsWay, OwnRequests, NoRequest, TypeOK
  <2>7. QED
    BY <2>2, <2>5, <2>6 DEF OnItsWay, HubKeyIsOnItsWay, LastKeyFor, InHandIsKnown, IsKnown, Acquiring
<1>8. ASSUME NEW q \in Positions, FailToSend(q) PROVE OnItsWay'
  <2>1. OnItsWay
    OBVIOUS
  <2>2. QED
    BY <1>8 DEF OnItsWay, HubKeyIsOnItsWay, LastKeyFor, FirstChannel, InHandIsKnown, OwnRequests, IsKnown,
                FailToSend, TypeOK, Acquiring, NoRequest, hubVars, runtimeVars
<1>9. CASE UNCHANGED vars
  BY <1>1, <1>9 DEF vars, hubVars, channelVars, positionVars
<1>10. QED
  BY <1>3, <1>4, <1>5, <1>6, <1>7, <1>8, <1>9, RequestKeepsOnItsWay, ReceiveKeepsOnItsWay,
     DeliverKeepsOnItsWay, TakeKeepsOnItsWay
     DEF Next, HubStep, HubNext, Position

\* While it acquires, a position that is behind the key the hub demands from it
\* has the fill that brings the new key still to come, also if it will go on
\* to a followup.
THEOREM AcquirersNeverStuck ==
  Spec => [](\A p \in Positions :
               Acquiring(p) /\ last_fill_key[p] # plk[p].key =>
                 fills_chan[p] # <<>> \/ inHand.position = p)
<1>1. OnItsWay => \A p \in Positions :
                    Acquiring(p) /\ last_fill_key[p] # plk[p].key =>
                      fills_chan[p] # <<>> \/ inHand.position = p
  BY DEF OnItsWay, HubKeyIsOnItsWay, LastKeyFor
<1>2. QED
  BY <1>1, InitTypeOK, NextTypeOK, InitOnItsWay, NextOnItsWay, PTL DEF Spec

\* A position without a followup acquires until it stops for good.
StopsAfterAcquisition ==
  LastStage = "acquisition" => \A p \in Positions : listening[p] \in {"acquisition", None}

\* No step starts a followup then.
LEMMA NextStopsAfterAcquisition ==
  TypeOK /\ StopsAfterAcquisition /\ [Next]_vars => StopsAfterAcquisition'
<1> SUFFICES ASSUME TypeOK, StopsAfterAcquisition, [Next]_vars
             PROVE  StopsAfterAcquisition'
  OBVIOUS
<1>1. ASSUME UNCHANGED listening PROVE StopsAfterAcquisition'
  BY <1>1 DEF StopsAfterAcquisition
<1>2. CASE HubStep
  BY <1>1, <1>2 DEF HubStep, HubNext, HandleUpdateFromPosition, IgnoreRequest, ApplyRequest,
                    TakeRequest, ReceiveFill, DeliverFill, FailDelivery
<1>3. CASE Runtime
  BY <1>1, <1>3 DEF Runtime, SeeChange, HandleHubOrdersUpdate, ReportFill, RuntimePanics,
                    positionVars
<1>4. ASSUME NEW p \in Positions, CompleteStage(p) \/ FailToSend(p)
      PROVE  StopsAfterAcquisition'
  BY <1>4 DEF CompleteStage, TakeFill, Selecting, FailToSend, StopsAfterAcquisition, TypeOK
<1>5. ASSUME NEW p \in Positions,
             ReceiveProtocolOrders(p) \/ ReceiveProtocolFills(p) \/ SendOrdersToHub(p)
      PROVE  StopsAfterAcquisition'
  BY <1>1, <1>5 DEF ReceiveProtocolOrders, ReceiveProtocolFills, SendOrdersToHub
<1>6. CASE UNCHANGED vars
  BY <1>1, <1>6 DEF vars, positionVars
<1>7. QED
  BY <1>2, <1>3, <1>4, <1>5, <1>6 DEF Next, Position

\* No position that only acquires is ever left behind for good.
THEOREM NeverStuckTheorem ==
  Spec => [](LastStage = "acquisition" => NeverStuckBehind)
<1>1. Init => StopsAfterAcquisition
  BY DEF Init, StopsAfterAcquisition
<1>2. OnItsWay /\ StopsAfterAcquisition => (LastStage = "acquisition" => NeverStuckBehind)
  BY DEF OnItsWay, HubKeyIsOnItsWay, LastKeyFor, Acquiring, StopsAfterAcquisition,
         NeverStuckBehind
<1>3. QED
  BY <1>1, <1>2, InitTypeOK, NextTypeOK, InitOnItsWay, NextOnItsWay,
     NextStopsAfterAcquisition, PTL DEF Spec

-----------------------------------------------------------------------------
(***************************************************************************)
(* What ends the hub.                                                      *)
(***************************************************************************)
\* The hub ends because a position has finished its acquisition, because a
\* protocol asks for a kind of order the hub cannot express, or because the
\* runtime is gone; and the runtime goes by a panic only.
HubEndsForAReason ==
  /\ hub = "err_callback" => \E p \in Positions : ~Acquiring(p)
  /\ hub = "panic_order_type" => ~(OrderKinds \subseteq Supported)
  /\ hub = "err_watch" => ~receiver
  /\ ~receiver => RuntimeMayPanic

\* No step ends the hub for another reason.
LEMMA NextEndsForAReason ==
  TypeOK /\ KeyInv /\ OnItsWay /\ HubEndsForAReason /\ [Next]_vars => HubEndsForAReason'
<1> SUFFICES ASSUME TypeOK, OnItsWay, HubEndsForAReason, [Next]_vars
             PROVE  HubEndsForAReason'
  OBVIOUS
<1>1. ASSUME UNCHANGED <<hub, receiver>>,
             \A p \in Positions : ~Acquiring(p) => ~Acquiring(p)'
      PROVE  HubEndsForAReason'
  BY <1>1 DEF HubEndsForAReason
<1>2. CASE HubStep /\ IgnoreRequest
  BY <1>1, <1>2 DEF HubStep, IgnoreRequest, TakeRequest, Acquiring
<1>3. CASE HubStep /\ ApplyRequest
  <2> DEFINE batch == RequestedByAll(Requested(Head(rx)))
  <2>1. batch \in SUBSET [position : Positions, order : Orders]
    <3>1. rx \in Seq(Requests) /\ rx # <<>>
      BY <1>3 DEF TypeOK, ApplyRequest, TakeRequest
    <3>2. Head(rx) \in Requests
      BY <3>1, HeadInSeq
    <3>3. QED
      BY <3>2, RequestedType
  <2>2. hub' = EndOfRequest(batch) /\ UNCHANGED <<receiver, listening>>
    BY <1>3 DEF ApplyRequest, TakeRequest
  <2> HIDE DEF batch
  <2>3. hub' = "panic_order_type" => ~(OrderKinds \subseteq Supported)
    BY <2>1, <2>2 DEF EndOfRequest, Orders
  <2>4. hub' \in {"panic_order_type", "err_watch", "select"} /\ (hub' = "err_watch" => ~receiver)
    BY <2>2 DEF EndOfRequest
  <2>5. QED
    BY <2>2, <2>3, <2>4 DEF HubEndsForAReason
<1>4. CASE HubStep /\ (ReceiveFill \/ DeliverFill)
  BY <1>4 DEF HubStep, ReceiveFill, DeliverFill, HubEndsForAReason
<1>5. CASE HubStep /\ FailDelivery
  <2>1. inHand.position \in Positions /\ ~Acquiring(inHand.position)
    BY <1>5, FailsAfterAcquisition
  <2>2. hub' = "err_callback" /\ UNCHANGED <<receiver, listening>>
    BY <1>5 DEF FailDelivery
  <2>3. QED
    BY <2>1, <2>2 DEF HubEndsForAReason, Acquiring
<1>6. CASE SeeChange \/ HandleHubOrdersUpdate \/ \E p \in Positions : ReportFill(p)
  BY <1>1, <1>6 DEF SeeChange, HandleHubOrdersUpdate, ReportFill, hubVars, positionVars, Acquiring
<1>7. CASE RuntimePanics
  BY <1>7 DEF RuntimePanics, HubEndsForAReason, hubVars, positionVars, Acquiring
<1>8. ASSUME NEW q \in Positions, Position(q) PROVE HubEndsForAReason'
  <2>1. UNCHANGED <<hub, receiver>>
    BY <1>8 DEF Position, ReceiveProtocolOrders, ReceiveProtocolFills, CompleteStage, TakeFill,
                SendOrdersToHub, FailToSend, hubVars, runtimeVars
  <2>2. \A p \in Positions : ~Acquiring(p) => ~Acquiring(p)'
    BY <1>8 DEF Position, ReceiveProtocolOrders, ReceiveProtocolFills, CompleteStage, TakeFill,
                SendOrdersToHub, FailToSend, Acquiring, TypeOK
  <2>3. QED
    BY <1>1, <2>1, <2>2
<1>9. CASE UNCHANGED vars
  BY <1>1, <1>9 DEF vars, hubVars, runtimeVars, positionVars, Acquiring
<1>10. QED
  BY <1>2, <1>3, <1>4, <1>5, <1>6, <1>7, <1>8, <1>9
     DEF Next, HubStep, HubNext, HandleUpdateFromPosition, Runtime

\* The hub never ends without one of the reasons it is built to end for.
THEOREM HubEndsForAReasonTheorem == Spec => []HubEndsForAReason
<1>1. Init => HubEndsForAReason
  BY DEF Init, HubInit, HubEndsForAReason
<1>2. QED
  BY <1>1, InitTypeOK, NextTypeOK, InitKeyInv, NextKeyInv, InitOnItsWay, NextOnItsWay,
     NextEndsForAReason, PTL DEF Spec

\* positions.rs: "hub outlives positions", for a position that has the hub for
\* itself, does not follow up and asks for nothing the hub cannot express.
\* A followup takes the promise away (run FillKeyFollowup).
THEOREM HubOutlivesASinglePosition ==
  Spec => [](/\ \E p : Positions = {p}
             /\ LastStage = "acquisition"
             /\ OrderKinds \subseteq Supported
             /\ ~RuntimeMayPanic
             => HubOutlivesPositions)
<1>1. TypeOK /\ KeyInv /\ HubEndsForAReason /\ StopsAfterAcquisition =>
        (/\ \E p : Positions = {p}
         /\ LastStage = "acquisition"
         /\ OrderKinds \subseteq Supported
         /\ ~RuntimeMayPanic
         => HubOutlivesPositions)
  BY DEF TypeOK, KeyInv, NoUnknownPosition, HubEndsForAReason, StopsAfterAcquisition, Acquiring,
         HubOutlivesPositions, HubAlive
<1>2. Init => StopsAfterAcquisition
  BY DEF Init, StopsAfterAcquisition
<1>3. QED
  BY <1>1, <1>2, TypeCorrect, KeysCorrect, HubEndsForAReasonTheorem,
     NextStopsAfterAcquisition, PTL DEF Spec
-----------------------------------------------------------------------------
(***************************************************************************)
(* The mapped queue: a fill waiting for the hub is a report on its owner.  *)
(***************************************************************************)
Report(f) == [key |-> f.key, owner |-> f.position]
Reports(s) == [n \in DOMAIN s |-> Report(s[n])]

\* A queue of fills and the queue of reports it stands for have the same
\* length and the same elements, in the same order.
LEMMA ReportsOfFills ==
  ASSUME NEW s \in Seq(Fills)
  PROVE  /\ Reports(s) \in Seq([key : Nat, owner : Positions])
         /\ Len(Reports(s)) = Len(s)
         /\ \A i \in 1..Len(s) : Reports(s)[i] = Report(s[i])
<1>1. Len(s) \in Nat /\ DOMAIN s = 1..Len(s) /\ \A i \in 1..Len(s) : s[i] \in Fills
  BY LenProperties, ElementOfSeq
<1>2. Reports(s) \in [1..Len(s) -> [key : Nat, owner : Positions]]
  BY <1>1 DEF Reports, Report, Fills
<1>3. Reports(s) \in Seq([key : Nat, owner : Positions])
  <2> DEFINE R == [key : Nat, owner : Positions]
             q == Reports(s)
  <2> HIDE DEF R, q
  <2>1. \E n \in Nat : q \in [1..n -> R]
    BY <1>1, <1>2 DEF q, R
  <2>2. q \in Seq(R)
    BY <2>1, SeqDef
  <2>3. QED
    BY <2>2 DEF q, R
<1>4. Len(Reports(s)) = Len(s)
  BY <1>1, <1>2, <1>3, LenProperties
<1>5. QED
  BY <1>1, <1>3, <1>4 DEF Reports

\* Sending a fill to the hub appends its report.
LEMMA ReportsOfAppend ==
  ASSUME NEW s \in Seq(Fills), NEW f \in Fills
  PROVE  Reports(Append(s, f)) = Append(Reports(s), Report(f))
<1> DEFINE R == [key : Nat, owner : Positions]
           a == Append(s, f)
           b == Append(Reports(s), Report(f))
<1>1. a \in Seq(Fills) /\ Len(a) = Len(s) + 1 /\ a[Len(s) + 1] = f
      /\ \A i \in 1..Len(s) : a[i] = s[i]
  BY AppendToSeq
<1>2. /\ Reports(s) \in Seq(R) /\ Len(Reports(s)) = Len(s)
      /\ \A i \in 1..Len(s) : Reports(s)[i] = Report(s[i])
  BY ReportsOfFills
<1>3. Report(f) \in R
  BY DEF Report, Fills
<1> HIDE DEF R
<1>4. /\ b \in Seq(R) /\ Len(b) = Len(s) + 1
      /\ b[Len(s) + 1] = Report(f)
      /\ \A i \in 1..Len(s) : b[i] = Report(s[i])
  BY <1>2, <1>3, AppendToSeq
<1>5. /\ Reports(a) \in Seq(R) /\ Len(Reports(a)) = Len(a)
      /\ \A i \in 1..Len(a) : Reports(a)[i] = Report(a[i])
  BY <1>1, ReportsOfFills DEF R
<1> HIDE DEF a, b
<1>6. Len(s) \in Nat
  BY LenProperties
<1>7. \A i \in 1..Len(a) : Reports(a)[i] = b[i]
  <2> TAKE i \in 1..Len(a)
  <2>1. i \in 1..Len(s) \/ i = Len(s) + 1
    BY <1>1, <1>6
  <2>2. QED
    BY <1>1, <1>4, <1>5, <2>1
<1>8. QED
  BY <1>1, <1>4, <1>5, <1>7, SeqEqual DEF a, b

\* Taking a fill from the hub's channel takes its report.
LEMMA ReportsOfTail ==
  ASSUME NEW s \in Seq(Fills), s # <<>>
  PROVE  /\ Reports(s) # <<>>
         /\ Head(Reports(s)).key = Head(s).key
         /\ Reports(Tail(s)) = Tail(Reports(s))
<1> DEFINE R == [key : Nat, owner : Positions]
           a == Tail(s)
           b == Tail(Reports(s))
<1>1. /\ Head(s) \in Fills /\ Head(s) = s[1] /\ Len(s) \in Nat \ {0}
      /\ a \in Seq(Fills) /\ Len(a) = Len(s) - 1
      /\ \A i \in 1..Len(a) : a[i] = s[i + 1]
  BY HeadInSeq, TailOfSeq
<1>2. /\ Reports(s) \in Seq(R) /\ Len(Reports(s)) = Len(s)
      /\ \A i \in 1..Len(s) : Reports(s)[i] = Report(s[i])
  BY ReportsOfFills
<1>3. /\ Reports(a) \in Seq(R) /\ Len(Reports(a)) = Len(a)
      /\ \A i \in 1..Len(a) : Reports(a)[i] = Report(a[i])
  BY <1>1, ReportsOfFills
<1> HIDE DEF R
<1>4. Reports(s) # <<>>
  BY <1>1, <1>2, EmptySeq
<1>5. Head(Reports(s)) = Report(Head(s))
  BY <1>1, <1>2, <1>4, HeadInSeq
<1>6. /\ b \in Seq(R) /\ Len(b) = Len(s) - 1
      /\ \A i \in 1..Len(b) : b[i] = Reports(s)[i + 1]
  BY <1>2, <1>4, TailOfSeq
<1> HIDE DEF a, b
<1>7. \A i \in 1..Len(a) : Reports(a)[i] = b[i]
  <2> TAKE i \in 1..Len(a)
  <2>1. i \in 1..Len(b) /\ i + 1 \in 1..Len(s)
    BY <1>1, <1>6
  <2>2. QED
    BY <1>1, <1>2, <1>3, <1>6, <2>1
<1>8. Reports(a) = b
  BY <1>1, <1>3, <1>6, <1>7, SeqEqual
<1>9. QED
  BY <1>4, <1>5, <1>8 DEF a, b, Report

-----------------------------------------------------------------------------
(***************************************************************************)
(* Step by step: what each action does to the contract's variables.        *)
(***************************************************************************)
\* Hub, runtime and positions start where the contract starts.
LEMMA InitContract == Init => Contract!Init
<1> SUFFICES ASSUME Init PROVE Contract!Init
  OBVIOUS
<1>1. Len(issued) = 0 /\ elk = 0 /\ placed = {}
  BY EmptySeq DEF Init, HubInit
<1>2. [n \in DOMAIN fills_rx |->
         [key |-> fills_rx[n].key, owner |-> fills_rx[n].position]] = <<>>
  BY EmptySeq DEF Init, HubInit
<1>3. [key |-> orders_tx.key, owners |-> {b.position : b \in orders_tx.orders}]
        = [key |-> 0, owners |-> {}]
  BY DEF Init, HubInit
<1>4. QED
  BY <1>1, <1>2, <1>3 DEF Contract!Init

\* A reported fill is a report of the contract.
LEMMA ReportFillImplementsReport ==
  ASSUME TypeOK, NEW p \in Positions, ReportFill(p)
  PROVE  Contract!Report(p)
<1>1. /\ issued \in Seq(Positions) /\ fills_rx \in Seq(Fills) /\ Len(issued) \in Nat
      /\ issued' = Append(issued, p)
      /\ p \in placed
      /\ fills_rx' = Append(fills_rx, [key |-> Len(issued) + 1, position |-> p])
      /\ UNCHANGED <<elk, orders_tx, placed>>
  BY LenProperties DEF TypeOK, ReportFill, hubVars
<1>2. Len(issued)' = Len(issued) + 1
  BY <1>1, AppendToSeq
<1>3. Reports(fills_rx)' = Append(Reports(fills_rx), [key |-> Len(issued)', owner |-> p])
  <2> DEFINE f == [key |-> Len(issued) + 1, position |-> p]
  <2>1. f \in Fills /\ Report(f) = [key |-> Len(issued)', owner |-> p]
    BY <1>1, <1>2 DEF Fills, Report
  <2>2. Reports(fills_rx') = Append(Reports(fills_rx), Report(f))
    BY <1>1, <2>1, ReportsOfAppend
  <2>3. QED
    BY <2>1, <2>2 DEF Reports
<1>4. QED
  BY <1>1, <1>2, <1>3 DEF Contract!Report, Reports, Report

\* A current batch is accepted, a stale one leaves the contract where it is.
LEMMA HandleImplementsAccept ==
  ASSUME HandleHubOrdersUpdate
  PROVE  Contract!Accept \/ UNCHANGED Contract!contractVars
<1>1. UNCHANGED <<issued, fills_rx, elk, orders_tx>>
  BY DEF HandleHubOrdersUpdate, hubVars, channelVars
<1>2. CASE CurrentBatch(orders_tx)
  <2>1. placed' = placed \union {b.position : b \in orders_tx.orders}
    BY <1>2, Zenon DEF HandleHubOrdersUpdate
  <2>2. orders_tx.key = Len(issued)
    BY <1>2 DEF CurrentBatch, last_reported_fill_key
  <2>3. QED
    BY <1>1, <2>1, <2>2 DEF Contract!Accept
<1>3. CASE ~CurrentBatch(orders_tx)
  BY <1>1, <1>3 DEF HandleHubOrdersUpdate, Contract!contractVars
<1>4. QED
  BY <1>2, <1>3

\* The hub takes a report in every case, also in the one in which it panics.
LEMMA ReceiveImplementsTakeReport ==
  ASSUME TypeOK, HubStep, ReceiveFill
  PROVE  Contract!TakeReport
<1>1. /\ fills_rx \in Seq(Fills) /\ fills_rx # <<>>
      /\ fills_rx' = Tail(fills_rx)
      /\ elk' = Head(fills_rx).key
      /\ UNCHANGED <<issued, orders_tx, placed>>
  BY DEF TypeOK, HubStep, ReceiveFill
<1>2. /\ Reports(fills_rx) # <<>>
      /\ elk' = Head(Reports(fills_rx)).key
      /\ Reports(fills_rx') = Tail(Reports(fills_rx))
  BY <1>1, ReportsOfTail
<1>3. QED
  BY <1>1, <1>2 DEF Contract!TakeReport, Reports, Report

\* A current request sends a batch under the last report the hub took, unless
\* the hub ends; then it has sent nothing.
LEMMA ApplyImplementsSendBatch ==
  ASSUME TypeOK, HubStep, ApplyRequest
  PROVE  Contract!SendBatch \/ UNCHANGED Contract!contractVars
<1> DEFINE r == Head(rx)
           batch == RequestedByAll(Requested(r))
<1>1. UNCHANGED <<issued, fills_rx, elk, placed>>
  BY DEF HubStep, ApplyRequest, TakeRequest
<1>2. \/ orders_tx' = [key |-> elk, orders |-> batch, by |-> r.position]
      \/ UNCHANGED orders_tx
  BY DEF ApplyRequest, BatchKey
<1>3. CASE orders_tx' = [key |-> elk, orders |-> batch, by |-> r.position]
  <2>1. rx \in Seq(Requests) /\ rx # <<>>
    BY DEF TypeOK, ApplyRequest, TakeRequest
  <2>2. r \in Requests
    BY <2>1, HeadInSeq
  <2>3. batch \in SUBSET [position : Positions, order : Orders]
    BY <2>2, RequestedType
  <2> HIDE DEF batch, r
  <2>4. {b.position : b \in batch} \in SUBSET Positions
    BY <2>3
  <2>5. [key |-> orders_tx'.key, owners |-> {b.position : b \in orders_tx'.orders}]
          = [key |-> elk, owners |-> {b.position : b \in batch}]
    BY <1>3
  <2>6. QED
    BY <1>1, <2>4, <2>5 DEF Contract!SendBatch
<1>4. CASE UNCHANGED orders_tx
  BY <1>1, <1>4 DEF Contract!contractVars
<1>5. QED
  BY <1>2, <1>3, <1>4

\* Every step is a step of the contract or leaves it where it is.
LEMMA NextContract ==
  TypeOK /\ [Next]_vars => [Contract!Next]_Contract!contractVars
<1> SUFFICES ASSUME TypeOK, [Next]_vars
             PROVE  Contract!Next \/ UNCHANGED Contract!contractVars
  OBVIOUS
<1>1. ASSUME UNCHANGED <<issued, fills_rx, elk, orders_tx, placed>>
      PROVE  UNCHANGED Contract!contractVars
  BY <1>1 DEF Contract!contractVars
<1>2. CASE HubStep /\ IgnoreRequest
  BY <1>1, <1>2 DEF HubStep, IgnoreRequest, TakeRequest
<1>3. CASE HubStep /\ (DeliverFill \/ FailDelivery)
  BY <1>1, <1>3 DEF HubStep, DeliverFill, FailDelivery
<1>4. CASE SeeChange \/ RuntimePanics
  BY <1>1, <1>4 DEF SeeChange, RuntimePanics, hubVars, channelVars
<1>5. ASSUME NEW p \in Positions, Position(p) PROVE UNCHANGED Contract!contractVars
  BY <1>1, <1>5 DEF Position, ReceiveProtocolOrders, ReceiveProtocolFills, CompleteStage,
       TakeFill, SendOrdersToHub, FailToSend, hubVars, channelVars, runtimeVars
<1>6. CASE UNCHANGED vars
  BY <1>1, <1>6 DEF vars, hubVars, channelVars, runtimeVars
<1>7. QED
  BY <1>2, <1>3, <1>4, <1>5, <1>6, ReportFillImplementsReport, HandleImplementsAccept,
     ReceiveImplementsTakeReport, ApplyImplementsSendBatch
     DEF Next, HubStep, HubNext, HandleUpdateFromPosition, Runtime, Contract!Next

\* Hub, positions and runtime keep the contract of module ExchangeRuntime: the
\* runtime reports on owners it placed orders for and accepts a batch only under
\* the number of its last report; the hub takes the reports in order and sends
\* every batch under the number of the last one it took.
THEOREM ContractKept == Spec => KeepsContract
<1>1. Spec => Contract!Spec
  BY TypeCorrect, InitContract, NextContract, PTL DEF Spec, Contract!Spec
<1>2. QED
  BY <1>1 DEF KeepsContract

-----------------------------------------------------------------------------
(***************************************************************************)
(* Fills on their way to a position stay in the order of the reports.      *)
(***************************************************************************)
ChannelsInOrder ==
  \A p \in Positions :
    /\ \A i \in 1..Len(fills_chan[p]) :
         fills_chan[p][i].position = p /\ fills_chan[p][i].key <= elk
    /\ \A i, j \in 1..Len(fills_chan[p]) :
         i < j => fills_chan[p][i].key < fills_chan[p][j].key

HandComesNext ==
  hub = "delivering" =>
    /\ inHand.key <= elk
    /\ \A i \in 1..Len(fills_chan[inHand.position]) :
         fills_chan[inHand.position][i].key < inHand.key

InOrder == ChannelsInOrder /\ HandComesNext

\* Nothing is on its way at the start.
LEMMA InitInOrder == Init => InOrder
BY EmptySeq DEF Init, HubInit, InOrder, ChannelsInOrder, HandComesNext

\* A received fill comes after everything received before.
LEMMA ReceiveKeepsInOrder ==
  ASSUME TypeOK, KeyInv, InOrder, HubStep, ReceiveFill
  PROVE  InOrder'
<1> DEFINE f == Head(fills_rx)
<1>1. fills_rx \in Seq(Fills) /\ fills_rx # <<>> /\ elk \in Nat
  BY DEF TypeOK, ReceiveFill
<1>2. f \in Fills /\ f = fills_rx[1] /\ Len(fills_rx) \in Nat \ {0}
  BY <1>1, HeadInSeq
<1>3. f.key = elk + 1
  <2>1. 1 \in 1..Len(fills_rx)
    BY <1>2
  <2>2. fills_rx[1] = [key |-> elk + 1, position |-> issued[elk + 1]]
    BY <2>1 DEF KeyInv, HubLagsByItsQueue
  <2>3. QED
    BY <1>2, <2>2
<1>4. /\ elk' = elk + 1 /\ fills_chan' = fills_chan
      /\ inHand' = f \/ hub' # "delivering"
      /\ f.position \in Positions
  BY <1>2, <1>3 DEF ReceiveFill, Fills
<1> HIDE DEF f
<1>5. \A p \in Positions : \A i \in 1..Len(fills_chan[p]) :
        fills_chan[p][i].key \in Nat /\ fills_chan[p][i].key <= elk
  <2> TAKE p \in Positions
  <2> TAKE i \in 1..Len(fills_chan[p])
  <2>1. fills_chan[p] \in Seq(Fills)
    BY DEF TypeOK
  <2>2. fills_chan[p][i] \in Fills
    BY <2>1, ElementOfSeq
  <2>3. QED
    BY <2>2 DEF Fills, InOrder, ChannelsInOrder
<1>6. ChannelsInOrder'
  BY <1>1, <1>4, <1>5 DEF InOrder, ChannelsInOrder
<1>7. HandComesNext'
  BY <1>1, <1>3, <1>4, <1>5 DEF HandComesNext
<1>8. QED
  BY <1>6, <1>7 DEF InOrder

\* A delivered fill comes after everything in the channel.
LEMMA DeliverKeepsInOrder ==
  ASSUME TypeOK, InOrder, HubStep, DeliverFill
  PROVE  InOrder'
<1> DEFINE q == inHand.position
           s == fills_chan[q]
<1>1. inHand \in Fills /\ q \in Positions /\ s \in Seq(Fills) /\ elk \in Nat
  BY DEF DeliverFill, TypeOK, Fills
<1>2. /\ fills_chan' = [fills_chan EXCEPT ![q] = Append(s, inHand)]
      /\ hub' = "select" /\ elk' = elk
  BY DEF DeliverFill, Delivered
<1>3. /\ Len(Append(s, inHand)) = Len(s) + 1 /\ Len(s) \in Nat
      /\ \A i \in 1..Len(s) : Append(s, inHand)[i] = s[i]
      /\ Append(s, inHand)[Len(s) + 1] = inHand
  BY <1>1, AppendToSeq, LenProperties
<1>4. /\ inHand.key <= elk /\ \A i \in 1..Len(s) : s[i].key < inHand.key
      /\ \A i \in 1..Len(s) : s[i].position = q /\ s[i].key <= elk
      /\ \A i, j \in 1..Len(s) : i < j => s[i].key < s[j].key
  BY <1>1 DEF InOrder, HandComesNext, ChannelsInOrder, DeliverFill
<1>5. /\ fills_chan'[q] = Append(s, inHand)
      /\ \A p \in Positions : p # q => fills_chan'[p] = fills_chan[p]
  BY <1>1, <1>2 DEF TypeOK
<1> DEFINE t == Append(s, inHand)
<1>6. /\ \A i \in 1..Len(t) : t[i].position = q /\ t[i].key <= elk
      /\ \A i, j \in 1..Len(t) : i < j => t[i].key < t[j].key
  <2> HIDE DEF s, t
  <2>1. Len(t) = Len(s) + 1 /\ Len(s) \in Nat
    BY <1>3 DEF t
  <2>2. \A i \in 1..Len(t) : IF i \in 1..Len(s) THEN t[i] = s[i]
                                                 ELSE i = Len(s) + 1 /\ t[i] = inHand
    BY <1>3, <2>1 DEF t
  <2>3. \A i \in 1..Len(t) : t[i].position = q /\ t[i].key <= elk
    BY <1>4, <2>2
  <2>4. \A i, j \in 1..Len(t) : i < j => t[i].key < t[j].key
    BY <1>4, <2>1, <2>2
  <2>5. QED
    BY <2>3, <2>4
<1> HIDE DEF q, s, t
<1>7. ChannelsInOrder'
  <2> SUFFICES ASSUME NEW p \in Positions
               PROVE  /\ \A i \in 1..Len(fills_chan'[p]) :
                           fills_chan'[p][i].position = p /\ fills_chan'[p][i].key <= elk
                      /\ \A i, j \in 1..Len(fills_chan'[p]) :
                           i < j => fills_chan'[p][i].key < fills_chan'[p][j].key
    BY <1>2 DEF ChannelsInOrder
  <2>1. CASE p = q
    BY <1>5, <1>6, <2>1 DEF t
  <2>2. CASE p # q
    BY <1>5, <2>2 DEF InOrder, ChannelsInOrder
  <2>3. QED
    BY <2>1, <2>2
<1>8. HandComesNext'
  BY <1>2 DEF HandComesNext
<1>9. QED
  BY <1>7, <1>8 DEF InOrder

\* The order is kept: positions take from the front, or drop the channel.
LEMMA NextInOrder == TypeOK /\ KeyInv /\ InOrder /\ [Next]_vars => InOrder'
<1> SUFFICES ASSUME TypeOK, KeyInv, InOrder, [Next]_vars PROVE InOrder'
  OBVIOUS
<1>1. ASSUME UNCHANGED <<fills_chan, elk>>, hub' # "delivering" \/ UNCHANGED <<hub, inHand>>
      PROVE  InOrder'
  BY <1>1 DEF InOrder, ChannelsInOrder, HandComesNext
<1>2. CASE HubStep /\ (HandleUpdateFromPosition \/ FailDelivery)
  BY <1>1, <1>2 DEF HubStep, HandleUpdateFromPosition, IgnoreRequest, ApplyRequest, TakeRequest,
                    FailDelivery, EndOfRequest
<1>3. CASE Runtime
  BY <1>1, <1>3 DEF Runtime, SeeChange, HandleHubOrdersUpdate, ReportFill, RuntimePanics,
                    hubVars, channelVars
\* Taking from the front, or everything, keeps the rest in order.
<1>4. ASSUME NEW q \in Positions, UNCHANGED <<elk, hub, inHand>>,
             NEW s \in Seq(Fills), fills_chan' = [fills_chan EXCEPT ![q] = s],
             NEW k \in Nat, \A i \in 1..Len(s) : /\ i + k \in 1..Len(fills_chan[q])
                                                 /\ s[i] = fills_chan[q][i + k]
      PROVE  InOrder'
  <2>1. /\ fills_chan'[q] = s
        /\ \A p \in Positions : p # q => fills_chan'[p] = fills_chan[p]
    BY <1>4 DEF TypeOK
  <2>2. /\ \A i \in 1..Len(s) : s[i].position = q /\ s[i].key <= elk
        /\ \A i, j \in 1..Len(s) : i < j => s[i].key < s[j].key
    <3> DEFINE c == fills_chan[q]
    <3>1. /\ \A i \in 1..Len(c) : c[i].position = q /\ c[i].key <= elk
          /\ \A i, j \in 1..Len(c) : i < j => c[i].key < c[j].key
      BY DEF InOrder, ChannelsInOrder
    <3>2. /\ \A i \in 1..Len(s) : i + k \in 1..Len(c) /\ s[i] = c[i + k]
          /\ Len(s) \in Nat
      BY <1>4, LenProperties
    <3> HIDE DEF c
    <3>3. \A i, j \in 1..Len(s) : i < j => i + k < j + k
      BY <1>4, <3>2
    <3>4. QED
      BY <3>1, <3>2, <3>3
  <2>3. ChannelsInOrder'
    <3> SUFFICES ASSUME NEW p \in Positions
                 PROVE  /\ \A i \in 1..Len(fills_chan'[p]) :
                             fills_chan'[p][i].position = p /\ fills_chan'[p][i].key <= elk
                        /\ \A i, j \in 1..Len(fills_chan'[p]) :
                             i < j => fills_chan'[p][i].key < fills_chan'[p][j].key
      BY <1>4 DEF ChannelsInOrder
    <3>1. CASE p = q
      BY <2>1, <2>2, <3>1
    <3>2. CASE p # q
      BY <2>1, <3>2 DEF InOrder, ChannelsInOrder
    <3>3. QED
      BY <3>1, <3>2
  <2>4. HandComesNext'
    <3> SUFFICES ASSUME hub = "delivering"
                 PROVE  /\ inHand.key <= elk
                        /\ \A i \in 1..Len(fills_chan'[inHand.position]) :
                             fills_chan'[inHand.position][i].key < inHand.key
      BY <1>4 DEF HandComesNext
    <3>1. inHand.position \in Positions
      BY DEF TypeOK, Fills
    <3>2. /\ inHand.key <= elk
          /\ \A i \in 1..Len(fills_chan[inHand.position]) :
               fills_chan[inHand.position][i].key < inHand.key
      BY DEF InOrder, HandComesNext
    <3>3. CASE inHand.position = q
      BY <1>4, <2>1, <3>2, <3>3
    <3>4. CASE inHand.position # q
      BY <2>1, <3>1, <3>2, <3>4
    <3>5. QED
      BY <3>3, <3>4
  <2>5. QED
    BY <2>3, <2>4 DEF InOrder
<1>5. ASSUME NEW q \in Positions, ReceiveProtocolFills(q) PROVE InOrder'
  <2> DEFINE s == fills_chan[q]
  <2>1. /\ s \in Seq(Fills) /\ s # <<>>
        /\ fills_chan' = [fills_chan EXCEPT ![q] = Tail(s)]
        /\ UNCHANGED <<elk, hub, inHand>>
    BY <1>5 DEF ReceiveProtocolFills, TakeFill, TypeOK, hubVars
  <2>2. /\ Tail(s) \in Seq(Fills) /\ Len(Tail(s)) = Len(s) - 1 /\ Len(s) \in Nat
        /\ \A i \in 1..Len(Tail(s)) : Tail(s)[i] = s[i + 1]
    BY <2>1, TailOfSeq, LenProperties
  <2>3. \A i \in 1..Len(Tail(s)) : i + 1 \in 1..Len(s)
    BY <2>2
  <2>4. QED
    BY <1>4, <2>1, <2>2, <2>3
<1>6. ASSUME NEW q \in Positions, CompleteStage(q) \/ FailToSend(q) PROVE InOrder'
  <2>1. fills_chan' = [fills_chan EXCEPT ![q] = <<>>] /\ UNCHANGED <<elk, hub, inHand>>
    BY <1>6 DEF CompleteStage, TakeFill, FailToSend, hubVars
  <2>2. /\ Len(fills_chan'[q]) = 0
        /\ \A p \in Positions : p # q => fills_chan'[p] = fills_chan[p]
    BY <2>1, EmptySeq DEF TypeOK
  <2>3. ChannelsInOrder'
    BY <2>1, <2>2 DEF InOrder, ChannelsInOrder
  <2>4. HandComesNext'
    <3>1. hub = "delivering" => inHand.position \in Positions
      BY DEF TypeOK, Fills
    <3>2. QED
      BY <2>1, <2>2, <3>1 DEF InOrder, HandComesNext
  <2>5. QED
    BY <2>3, <2>4 DEF InOrder
<1>7. ASSUME NEW q \in Positions, ReceiveProtocolOrders(q) \/ SendOrdersToHub(q) PROVE InOrder'
  BY <1>1, <1>7 DEF ReceiveProtocolOrders, SendOrdersToHub, hubVars, channelVars
<1>8. CASE UNCHANGED vars
  BY <1>1, <1>8 DEF vars, hubVars, channelVars
<1>9. QED
  BY <1>2, <1>3, <1>5, <1>6, <1>7, <1>8, ReceiveKeepsInOrder, DeliverKeepsInOrder
     DEF Next, HubStep, HubNext, Position

-----------------------------------------------------------------------------
(***************************************************************************)
(* The keys in a queue of fills.                                           *)
(***************************************************************************)
KeyOf(p, f) == IF f.position = p THEN {f.key} ELSE {}

\* The keys for p are those at the places of its fills.
LEMMA KeysForIsAt ==
  ASSUME NEW p, NEW s \in Seq(Fills)
  PROVE  /\ \A i \in 1..Len(s) : s[i].position = p => s[i].key \in KeysFor(p, s)
         /\ \A k \in KeysFor(p, s) : \E i \in 1..Len(s) : s[i].position = p /\ k = s[i].key
<1>1. DOMAIN s = 1..Len(s)
  BY LenProperties
<1>2. QED
  BY <1>1 DEF KeysFor

\* An empty queue has no keys.
LEMMA KeysForEmpty == \A p : KeysFor(p, <<>>) = {}
<1>1. <<>> \in Seq(Fills) /\ Len(<<>>) = 0
  BY EmptySeq
<1>2. DOMAIN <<>> = 1..0
  BY <1>1, LenProperties
<1>3. QED
  BY <1>2 DEF KeysFor

\* A fill that is sent adds its key.
LEMMA KeysForAppend ==
  ASSUME NEW p, NEW s \in Seq(Fills), NEW f \in Fills
  PROVE  KeysFor(p, Append(s, f)) = KeysFor(p, s) \union KeyOf(p, f)
<1> DEFINE t == Append(s, f)
<1>1. /\ t \in Seq(Fills) /\ Len(t) = Len(s) + 1 /\ Len(s) \in Nat
      /\ \A i \in 1..Len(s) : t[i] = s[i]
      /\ t[Len(s) + 1] = f
  BY AppendToSeq, LenProperties
<1>2. DOMAIN s = 1..Len(s) /\ DOMAIN t = 1..Len(t)
  BY <1>1, LenProperties
<1> HIDE DEF t
<1>3. \A i \in 1..Len(t) : i \in 1..Len(s) \/ i = Len(s) + 1
  BY <1>1
<1>4. KeysFor(p, t) \subseteq KeysFor(p, s) \union KeyOf(p, f)
  <2> SUFFICES ASSUME NEW i \in 1..Len(t), t[i].position = p
               PROVE  t[i].key \in KeysFor(p, s) \union KeyOf(p, f)
    BY <1>1, KeysForIsAt
  <2>1. CASE i \in 1..Len(s)
    BY <1>1, <2>1, KeysForIsAt
  <2>2. CASE i = Len(s) + 1
    BY <1>1, <2>2 DEF KeyOf
  <2>3. QED
    BY <1>3, <2>1, <2>2
<1>5. KeysFor(p, s) \subseteq KeysFor(p, t)
  <2> SUFFICES ASSUME NEW i \in 1..Len(s), s[i].position = p
               PROVE  s[i].key \in KeysFor(p, t)
    BY KeysForIsAt
  <2>1. i \in 1..Len(t) /\ t[i] = s[i]
    BY <1>1
  <2>2. QED
    BY <1>1, <2>1, KeysForIsAt
<1>6. KeyOf(p, f) \subseteq KeysFor(p, t)
  <2>1. Len(s) + 1 \in 1..Len(t)
    BY <1>1
  <2>2. QED
    BY <1>1, <2>1, KeysForIsAt DEF KeyOf
<1>7. QED
  BY <1>4, <1>5, <1>6 DEF t

\* A fill that is taken leaves the keys of the others.
LEMMA KeysForTail ==
  ASSUME NEW p, NEW s \in Seq(Fills), s # <<>>
  PROVE  KeysFor(p, s) = KeyOf(p, Head(s)) \union KeysFor(p, Tail(s))
<1> DEFINE t == Tail(s)
<1>1. /\ t \in Seq(Fills) /\ Len(t) = Len(s) - 1 /\ Len(s) \in Nat \ {0}
      /\ \A i \in 1..Len(t) : t[i] = s[i + 1]
      /\ Head(s) = s[1]
  BY HeadInSeq, TailOfSeq
<1> HIDE DEF t
<1>2. KeysFor(p, s) \subseteq KeyOf(p, Head(s)) \union KeysFor(p, t)
  <2> SUFFICES ASSUME NEW i \in 1..Len(s), s[i].position = p
               PROVE  s[i].key \in KeyOf(p, Head(s)) \union KeysFor(p, t)
    BY KeysForIsAt
  <2>1. CASE i = 1
    BY <1>1, <2>1 DEF KeyOf
  <2>2. CASE i # 1
    <3>1. i - 1 \in 1..Len(t) /\ t[i - 1] = s[i]
      <4>1. i - 1 \in 1..Len(t) /\ (i - 1) + 1 = i
        BY <1>1, <2>2
      <4>2. QED
        BY <1>1, <4>1
    <3>2. QED
      BY <1>1, <3>1, KeysForIsAt
  <2>3. QED
    BY <2>1, <2>2
<1>3. KeyOf(p, Head(s)) \subseteq KeysFor(p, s)
  <2>1. 1 \in 1..Len(s)
    BY <1>1
  <2>2. QED
    BY <1>1, <2>1, KeysForIsAt DEF KeyOf
<1>4. KeysFor(p, t) \subseteq KeysFor(p, s)
  <2> SUFFICES ASSUME NEW i \in 1..Len(t), t[i].position = p
               PROVE  t[i].key \in KeysFor(p, s)
    BY <1>1, KeysForIsAt
  <2>1. i + 1 \in 1..Len(s) /\ t[i] = s[i + 1]
    BY <1>1
  <2>2. QED
    BY <2>1, KeysForIsAt
<1>5. QED
  BY <1>2, <1>3, <1>4 DEF t

-----------------------------------------------------------------------------
(***************************************************************************)
(* Delivery, step by step.                                                 *)
(***************************************************************************)
Quiet ==
  /\ UNCHANGED <<issued, last_fill_key>>
  /\ \A p \in Positions : /\ (listening[p] # None)' = (listening[p] # None)
                          /\ Due(p)' = Due(p)

\* A step that changes none of what a position is due is none of the delivery.
LEMMA QuietStutters ==
  ASSUME Quiet
  PROVE  UNCHANGED Delivery!absVars
BY DEF Quiet, Delivery!absVars

\* A report is due to its position, if that one is open.
LEMMA ReportFillIsReported ==
  ASSUME TypeOK, NEW q \in Positions, ReportFill(q)
  PROVE  Delivery!Report(q)
<1> DEFINE n == Len(issued) + 1
           f == [key |-> n, position |-> q]
<1>1. /\ issued \in Seq(Positions) /\ fills_rx \in Seq(Fills) /\ Len(issued) \in Nat
      /\ issued' = Append(issued, q) /\ fills_rx' = Append(fills_rx, f)
      /\ UNCHANGED <<listening, last_fill_key, fills_chan, inHand>>
  BY LenProperties DEF TypeOK, ReportFill, hubVars, positionVars
<1>2. Len(issued)' = n /\ f \in Fills
  BY <1>1, AppendToSeq DEF Fills
<1>3. \A p \in Positions :
        Due(p)' = IF p = q /\ listening[p] # None THEN Due(p) \union {n} ELSE Due(p)
  <2> TAKE p \in Positions
  <2>1. KeysFor(p, fills_rx)' = KeysFor(p, fills_rx) \union KeyOf(p, f)
    <3>1. KeysFor(p, Append(fills_rx, f)) = KeysFor(p, fills_rx) \union KeyOf(p, f)
      BY <1>1, <1>2, KeysForAppend
    <3>2. QED
      BY <1>1, <3>1 DEF KeysFor
  <2>2. KeyOf(p, f) = IF p = q THEN {n} ELSE {}
    BY DEF KeyOf
  <2>3. KeysFor(p, fills_chan[p])' = KeysFor(p, fills_chan[p]) /\ InHandFor(p)' = InHandFor(p)
    BY <1>1 DEF KeysFor, InHandFor
  <2>4. QED
    BY <1>1, <2>1, <2>2, <2>3 DEF Due
<1> HIDE DEF n
<1>4. [p \in Positions |-> Due(p)]' =
        IF listening[q] # None
        THEN [[p \in Positions |-> Due(p)] EXCEPT ![q] = Due(q) \union {n}]
        ELSE [p \in Positions |-> Due(p)]
  BY <1>3
<1>5. QED
  BY <1>1, <1>2, <1>4 DEF Delivery!Report, n

\* From the hub's channel into its hand: the fill is as due as before.
LEMMA ReceiveIsQuiet ==
  ASSUME TypeOK, KeyInv, HubStep, ReceiveFill
  PROVE  Quiet
<1> DEFINE f == Head(fills_rx)
<1>1. fills_rx \in Seq(Fills) /\ fills_rx # <<>> /\ fills_rx' = Tail(fills_rx)
  BY DEF TypeOK, ReceiveFill
<1>2. /\ UNCHANGED <<listening, fills_chan, issued, last_fill_key>>
      /\ inHand = NoFill
  BY DEF HubStep, ReceiveFill, TypeOK
<1>3. inHand' = f
  <2>1. f = fills_rx[1] /\ Len(fills_rx) \in Nat \ {0}
    BY <1>1, HeadInSeq
  <2>2. /\ 1 \in 1..Len(fills_rx)
        /\ elk + Len(fills_rx) = Len(issued) /\ elk \in Nat
    BY <2>1 DEF KeyInv, HubLagsByItsQueue, last_reported_fill_key, TypeOK
  <2>3. f.position = issued[elk + 1] /\ elk + 1 \in 1..Len(issued)
    <3>1. fills_rx[1] = [key |-> elk + 1, position |-> issued[elk + 1]]
      BY <2>2 DEF KeyInv, HubLagsByItsQueue
    <3>2. elk + 1 \in 1..Len(issued)
      BY <2>1, <2>2
    <3>3. QED
      BY <2>1, <3>1, <3>2
  <2>4. IsKnown(f.position)
    BY <2>3 DEF KeyInv, AskersKnown
  <2>5. QED
    BY <2>4 DEF ReceiveFill, IsKnown
<1> HIDE DEF f
<1>4. \A p \in Positions : Due(p)' = Due(p)
  <2> TAKE p \in Positions
  <2>1. KeysFor(p, fills_rx) = KeyOf(p, f) \union KeysFor(p, fills_rx)'
    <3>1. KeysFor(p, fills_rx) = KeyOf(p, f) \union KeysFor(p, Tail(fills_rx))
      BY <1>1, KeysForTail DEF f
    <3>2. QED
      BY <1>1, <3>1 DEF KeysFor
  <2>2. InHandFor(p) = {} /\ InHandFor(p)' = KeyOf(p, f)
    BY <1>2, <1>3, ProtocolAssumption DEF InHandFor, KeyOf, NoFill
  <2>3. KeysFor(p, fills_chan[p])' = KeysFor(p, fills_chan[p])
    BY <1>2 DEF KeysFor
  <2>4. QED
    BY <1>2, <2>1, <2>2, <2>3 DEF Due
<1>5. QED
  BY <1>2, <1>4 DEF Quiet

\* From the hub's hand into the position's channel: likewise.
LEMMA DeliverIsQuiet ==
  ASSUME TypeOK, HubStep, DeliverFill
  PROVE  Quiet
<1> DEFINE q == inHand.position
<1>1. inHand \in Fills /\ q \in Positions /\ fills_chan \in [Positions -> Seq(Fills)]
  BY DEF DeliverFill, TypeOK, Fills
<1>2. /\ UNCHANGED <<listening, fills_rx, issued, last_fill_key>>
      /\ inHand' = NoFill
      /\ fills_chan' = [fills_chan EXCEPT ![q] = Append(fills_chan[q], inHand)]
  BY DEF HubStep, DeliverFill, Delivered
<1>3. \A p \in Positions : Due(p)' = Due(p)
  <2> TAKE p \in Positions
  <2>1. KeysFor(p, fills_chan[p])' = KeysFor(p, fills_chan[p]) \union InHandFor(p)
    <3>1. CASE p = q
      <4>1. fills_chan'[p] = Append(fills_chan[p], inHand)
        BY <1>1, <1>2, <3>1
      <4>2. KeysFor(p, Append(fills_chan[p], inHand)) =
              KeysFor(p, fills_chan[p]) \union KeyOf(p, inHand)
        BY <1>1, KeysForAppend
      <4>3. KeyOf(p, inHand) = InHandFor(p)
        BY DEF KeyOf, InHandFor
      <4>4. QED
        BY <4>1, <4>2, <4>3 DEF KeysFor
    <3>2. CASE p # q
      <4>1. fills_chan'[p] = fills_chan[p] /\ InHandFor(p) = {}
        BY <1>1, <1>2, <3>2 DEF InHandFor
      <4>2. QED
        BY <4>1 DEF KeysFor
    <3>3. QED
      BY <3>1, <3>2
  <2>2. InHandFor(p)' = {}
    BY <1>2, ProtocolAssumption DEF InHandFor, NoFill
  <2>3. KeysFor(p, fills_rx)' = KeysFor(p, fills_rx)
    BY <1>2 DEF KeysFor
  <2>4. QED
    BY <1>2, <2>1, <2>2, <2>3 DEF Due
<1>4. QED
  BY <1>2, <1>3 DEF Quiet

\* A delivery fails towards a position that has given up; nothing is due to it.
LEMMA FailIsQuiet ==
  ASSUME TypeOK, OnItsWay, StopsAfterAcquisition, LastStage = "acquisition",
         HubStep, FailDelivery
  PROVE  Quiet
<1>1. inHand.position \in Positions /\ listening[inHand.position] = None
  BY FailsAfterAcquisition DEF StopsAfterAcquisition, Acquiring
<1>2. /\ UNCHANGED <<listening, fills_rx, fills_chan, issued, last_fill_key>>
      /\ inHand' = NoFill
  BY DEF HubStep, FailDelivery
<1>3. \A p \in Positions : Due(p)' = Due(p)
  <2> TAKE p \in Positions
  <2>1. CASE listening[p] = None
    BY <1>2, <2>1 DEF Due
  <2>2. CASE listening[p] # None
    <3>1. InHandFor(p) = {} /\ InHandFor(p)' = {}
      BY <1>1, <1>2, <2>2, ProtocolAssumption DEF InHandFor, NoFill
    <3>2. KeysFor(p, fills_chan[p])' = KeysFor(p, fills_chan[p])
          /\ KeysFor(p, fills_rx)' = KeysFor(p, fills_rx)
      BY <1>2 DEF KeysFor
    <3>3. QED
      BY <1>2, <3>1, <3>2 DEF Due
  <2>3. QED
    BY <2>1, <2>2
<1>4. QED
  BY <1>2, <1>3 DEF Quiet

\* A position takes the earliest fill that is due to it, whatever waits in the
\* hub's hand and channel.
LEMMA HeadIsEarliest ==
  ASSUME TypeOK, KeyInv, InOrder, NEW q \in Positions, fills_chan[q] # <<>>,
         listening[q] # None
  PROVE  LET k == Head(fills_chan[q]).key
         IN /\ k \in Due(q)
            /\ \A j \in Due(q) : k <= j
            /\ KeysFor(q, Tail(fills_chan[q])) \union InHandFor(q) \union KeysFor(q, fills_rx)
                 = Due(q) \ {k}
<1> DEFINE s == fills_chan[q]
           k == Head(s).key
           rest == KeysFor(q, Tail(s)) \union InHandFor(q) \union KeysFor(q, fills_rx)
<1>1. /\ s \in Seq(Fills) /\ s # <<>> /\ Head(s) = s[1] /\ Len(s) \in Nat \ {0}
      /\ Tail(s) \in Seq(Fills) /\ Len(Tail(s)) = Len(s) - 1
      /\ \A i \in 1..Len(Tail(s)) : Tail(s)[i] = s[i + 1]
      /\ Head(s) \in Fills
  <2>1. s \in Seq(Fills) /\ s # <<>>
    BY DEF TypeOK
  <2>2. QED
    BY <2>1, HeadInSeq, TailOfSeq
<1>2. 1 \in 1..Len(s) /\ elk \in Nat
  BY <1>1 DEF TypeOK
<1>3. Head(s).position = q /\ k \in Nat /\ k <= elk
  BY <1>1, <1>2 DEF InOrder, ChannelsInOrder, Fills
<1>4. Due(q) = {k} \union rest
  <2>1. KeysFor(q, s) = {k} \union KeysFor(q, Tail(s))
    BY <1>1, <1>3, KeysForTail DEF KeyOf
  <2>2. QED
    BY <2>1 DEF Due
<1>5. \A j \in KeysFor(q, Tail(s)) : j \in Nat /\ k < j
  <2> DEFINE t == Tail(s)
  <2>1. t \in Seq(Fills) /\ Len(t) \in Nat
    BY <1>1, LenProperties
  <2>2. \A i \in 1..Len(t) : t[i].key \in Nat /\ k < t[i].key
    <3> TAKE i \in 1..Len(t)
    <3>1. i + 1 \in 1..Len(s) /\ 1 < i + 1 /\ t[i] = s[i + 1] /\ t[i] \in Fills
      BY <1>1, ElementOfSeq
    <3>2. s[1].key < s[i + 1].key
      BY <1>2, <3>1 DEF InOrder, ChannelsInOrder
    <3>3. QED
      BY <1>1, <3>1, <3>2 DEF Fills
  <2> HIDE DEF t, k
  <2>3. \A j \in KeysFor(q, t) : j \in Nat /\ k < j
    BY <2>1, <2>2, KeysForIsAt
  <2>4. QED
    BY <2>3 DEF t
<1>6. \A j \in InHandFor(q) : j \in Nat /\ k < j
  <2>1. inHand.position = q => hub = "delivering" /\ inHand \in Fills
    BY ProtocolAssumption DEF TypeOK, NoFill
  <2>2. inHand.position = q => s[1].key < inHand.key
    BY <1>2, <2>1 DEF InOrder, HandComesNext
  <2>3. QED
    BY <1>1, <2>1, <2>2 DEF InHandFor, Fills
<1>7. \A j \in KeysFor(q, fills_rx) : j \in Nat /\ k < j
  <2>1. fills_rx \in Seq(Fills) /\ Len(fills_rx) \in Nat
    BY LenProperties DEF TypeOK
  <2>2. \A i \in 1..Len(fills_rx) : fills_rx[i].key \in Nat /\ k < fills_rx[i].key
    <3> TAKE i \in 1..Len(fills_rx)
    <3>1. fills_rx[i] = [key |-> elk + i, position |-> issued[elk + i]]
      BY DEF KeyInv, HubLagsByItsQueue
    <3>2. QED
      BY <1>2, <1>3, <2>1, <3>1
  <2> HIDE DEF k
  <2>3. QED
    BY <2>1, <2>2, KeysForIsAt
<1> HIDE DEF k
<1>8. \A j \in rest : j \in Nat /\ k < j
  BY <1>5, <1>6, <1>7
<1> HIDE DEF rest
<1>9. k \notin rest
  BY <1>3, <1>8
<1>10. k \in Due(q) /\ rest = Due(q) \ {k}
  BY <1>4, <1>9
<1>11. \A j \in Due(q) : k <= j
  BY <1>3, <1>4, <1>8
<1>12. QED
  BY <1>10, <1>11 DEF k, rest

\* Taking a fill and asking anew is a Take.
LEMMA ReceiveFillsIsTake ==
  ASSUME TypeOK, KeyInv, InOrder, NEW q \in Positions, ReceiveProtocolFills(q)
  PROVE  Delivery!Take(q)
<1> DEFINE k == Head(fills_chan[q]).key
<1>1. /\ fills_chan[q] # <<>> /\ listening[q] # None
      /\ fills_chan' = [fills_chan EXCEPT ![q] = Tail(fills_chan[q])]
      /\ last_fill_key' = [last_fill_key EXCEPT ![q] = k]
      /\ UNCHANGED <<listening, issued, inHand, fills_rx>>
  BY DEF ReceiveProtocolFills, TakeFill, Selecting, hubVars, runtimeVars
<1>2. /\ k \in Due(q) /\ \A j \in Due(q) : k <= j
      /\ KeysFor(q, Tail(fills_chan[q])) \union InHandFor(q) \union KeysFor(q, fills_rx)
           = Due(q) \ {k}
  BY <1>1, HeadIsEarliest
<1> HIDE DEF k
<1>3. \A p \in Positions : Due(p)' = IF p = q THEN Due(q) \ {k} ELSE Due(p)
  <2> TAKE p \in Positions
  <2>1. KeysFor(p, fills_rx)' = KeysFor(p, fills_rx) /\ InHandFor(p)' = InHandFor(p)
    BY <1>1 DEF KeysFor, InHandFor
  <2>2. fills_chan'[p] = IF p = q THEN Tail(fills_chan[q]) ELSE fills_chan[p]
    BY <1>1 DEF TypeOK
  <2>3. KeysFor(p, fills_chan[p])' = IF p = q THEN KeysFor(q, Tail(fills_chan[q]))
                                              ELSE KeysFor(p, fills_chan[p])
    BY <2>2 DEF KeysFor
  <2>4. QED
    BY <1>1, <1>2, <2>1, <2>3 DEF Due
<1>4. [p \in Positions |-> Due(p)]' =
        [[p \in Positions |-> Due(p)] EXCEPT ![q] = Due(q) \ {k}]
  BY <1>3
<1>5. QED
  BY <1>1, <1>2, <1>4 DEF Delivery!Take, Delivery!Takes

\* The fill that completes the acquisition is taken too; the rest is given up.
LEMMA CompleteIsTakeAndClose ==
  ASSUME TypeOK, KeyInv, InOrder, LastStage = "acquisition", StopsAfterAcquisition,
         NEW q \in Positions, CompleteStage(q)
  PROVE  Delivery!TakeAndClose(q)
<1> DEFINE k == Head(fills_chan[q]).key
<1>1. /\ fills_chan[q] # <<>> /\ listening[q] # None
      /\ fills_chan' = [fills_chan EXCEPT ![q] = <<>>]
      /\ last_fill_key' = [last_fill_key EXCEPT ![q] = k]
      /\ listening' = [listening EXCEPT ![q] = None]
      /\ UNCHANGED <<issued, inHand, fills_rx>>
  BY DEF CompleteStage, TakeFill, Selecting, StopsAfterAcquisition, hubVars, runtimeVars
<1>2. k \in Due(q) /\ \A j \in Due(q) : k <= j
  BY <1>1, HeadIsEarliest
<1> HIDE DEF k
<1>3. \A p \in Positions : Due(p)' = IF p = q THEN {} ELSE Due(p)
  <2> TAKE p \in Positions
  <2>1. KeysFor(p, fills_rx)' = KeysFor(p, fills_rx) /\ InHandFor(p)' = InHandFor(p)
    BY <1>1 DEF KeysFor, InHandFor
  <2>2. p # q => fills_chan'[p] = fills_chan[p] /\ listening'[p] = listening[p]
    BY <1>1 DEF TypeOK
  <2>3. p = q => listening'[p] = None
    BY <1>1 DEF TypeOK
  <2>4. p # q => KeysFor(p, fills_chan[p])' = KeysFor(p, fills_chan[p])
    BY <2>2 DEF KeysFor
  <2>5. QED
    BY <2>1, <2>2, <2>3, <2>4 DEF Due
<1>4. /\ [p \in Positions |-> Due(p)]' = [[p \in Positions |-> Due(p)] EXCEPT ![q] = {}]
      /\ [p \in Positions |-> listening[p] # None]' =
           [[p \in Positions |-> listening[p] # None] EXCEPT ![q] = FALSE]
  <2>1. [p \in Positions |-> Due(p)]' = [[p \in Positions |-> Due(p)] EXCEPT ![q] = {}]
    BY <1>3
  <2>2. \A p \in Positions : listening'[p] = IF p = q THEN None ELSE listening[p]
    BY <1>1 DEF TypeOK
  <2>3. [p \in Positions |-> listening'[p] # None] =
           [[p \in Positions |-> listening[p] # None] EXCEPT ![q] = FALSE]
    BY <2>2
  <2>4. QED
    BY <2>1, <2>3
<1>5. QED
  BY <1>1, <1>2, <1>4 DEF Delivery!TakeAndClose, Delivery!Takes

\* A position that finds the hub gone abandons what was due to it.
LEMMA FailToSendIsAbandon ==
  ASSUME TypeOK, NEW q \in Positions, FailToSend(q)
  PROVE  Delivery!Abandon(q)
<1>1. /\ fills_chan' = [fills_chan EXCEPT ![q] = <<>>]
      /\ listening' = [listening EXCEPT ![q] = None]
      /\ UNCHANGED <<issued, inHand, fills_rx, last_fill_key>>
  BY DEF FailToSend, hubVars, runtimeVars
<1>2. \A p \in Positions : Due(p)' = IF p = q THEN {} ELSE Due(p)
  <2> TAKE p \in Positions
  <2>1. KeysFor(p, fills_rx)' = KeysFor(p, fills_rx) /\ InHandFor(p)' = InHandFor(p)
    BY <1>1 DEF KeysFor, InHandFor
  <2>2. p # q => fills_chan'[p] = fills_chan[p] /\ listening'[p] = listening[p]
    BY <1>1 DEF TypeOK
  <2>3. p = q => listening'[p] = None
    BY <1>1 DEF TypeOK
  <2>4. p # q => KeysFor(p, fills_chan[p])' = KeysFor(p, fills_chan[p])
    BY <2>2 DEF KeysFor
  <2>5. QED
    BY <2>1, <2>2, <2>3, <2>4 DEF Due
<1>3. [p \in Positions |-> Due(p)]' = [[p \in Positions |-> Due(p)] EXCEPT ![q] = {}]
  BY <1>2
<1>4. [p \in Positions |-> listening[p] # None]' =
           [[p \in Positions |-> listening[p] # None] EXCEPT ![q] = FALSE]
  <2>1. \A p \in Positions : listening'[p] = IF p = q THEN None ELSE listening[p]
    BY <1>1 DEF TypeOK
  <2>2. [p \in Positions |-> listening'[p] # None] =
           [[p \in Positions |-> listening[p] # None] EXCEPT ![q] = FALSE]
    BY <2>1
  <2>3. QED
    BY <2>2
<1>5. QED
  BY <1>1, <1>3, <1>4 DEF Delivery!Abandon

\* The protocol starts where the delivery starts.
LEMMA InitDelivery == Init => Delivery!Init
<1> SUFFICES ASSUME Init PROVE Delivery!Init
  OBVIOUS
<1>1. Len(issued) = 0
  BY EmptySeq DEF Init
<1>2. \A p \in Positions : Due(p) = {}
  <2> TAKE p \in Positions
  <2>1. fills_chan[p] = <<>> /\ fills_rx = <<>>
    BY DEF Init, HubInit
  <2>2. InHandFor(p) = {}
    BY ProtocolAssumption DEF Init, HubInit, InHandFor, NoFill
  <2>3. KeysFor(p, fills_chan[p]) = {} /\ KeysFor(p, fills_rx) = {}
    BY <2>1, KeysForEmpty
  <2>4. QED
    BY <2>2, <2>3 DEF Due
<1>3. [p \in Positions |-> listening[p] # None] = [p \in Positions |-> TRUE]
  BY DEF Init
<1>4. last_fill_key = [p \in Positions |-> 0]
  BY DEF Init
<1>5. QED
  BY <1>1, <1>2, <1>3, <1>4 DEF Delivery!Init

\* Every step is a step of the delivery or leaves it where it is.
LEMMA NextDelivery ==
  /\ TypeOK /\ KeyInv /\ InOrder /\ OnItsWay /\ StopsAfterAcquisition
  /\ LastStage = "acquisition"
  /\ [Next]_vars
  => [Delivery!Next]_Delivery!absVars
<1> SUFFICES ASSUME TypeOK, KeyInv, InOrder, OnItsWay, StopsAfterAcquisition,
                    LastStage = "acquisition", [Next]_vars
             PROVE  Delivery!Next \/ UNCHANGED Delivery!absVars
  OBVIOUS
<1>1. ASSUME UNCHANGED <<issued, last_fill_key, listening, fills_chan, inHand, fills_rx>>
      PROVE  UNCHANGED Delivery!absVars
  <2>1. Quiet
    BY <1>1 DEF Quiet, Due, KeysFor, InHandFor
  <2>2. QED
    BY <2>1, QuietStutters
<1>2. CASE HubStep /\ HandleUpdateFromPosition
  BY <1>1, <1>2 DEF HubStep, HandleUpdateFromPosition, IgnoreRequest, ApplyRequest, TakeRequest
<1>3. CASE HubStep /\ (ReceiveFill \/ DeliverFill \/ FailDelivery)
  <2>1. Quiet
    BY <1>3, ReceiveIsQuiet, DeliverIsQuiet, FailIsQuiet
  <2>2. QED
    BY <2>1, QuietStutters
<1>4. CASE SeeChange \/ HandleHubOrdersUpdate \/ RuntimePanics
  BY <1>1, <1>4 DEF SeeChange, HandleHubOrdersUpdate, RuntimePanics, hubVars, channelVars,
                    positionVars
<1>5. ASSUME NEW q \in Positions, ReceiveProtocolOrders(q) \/ SendOrdersToHub(q)
      PROVE  UNCHANGED Delivery!absVars
  BY <1>1, <1>5 DEF ReceiveProtocolOrders, SendOrdersToHub, hubVars, channelVars, runtimeVars
<1>6. CASE UNCHANGED vars
  BY <1>1, <1>6 DEF vars, hubVars, channelVars, positionVars, runtimeVars
<1>7. ASSUME NEW q \in Positions, ReportFill(q) \/ ReceiveProtocolFills(q)
                                    \/ CompleteStage(q) \/ FailToSend(q)
      PROVE  Delivery!Next
  BY <1>7, ReportFillIsReported, ReceiveFillsIsTake, CompleteIsTakeAndClose, FailToSendIsAbandon
     DEF Delivery!Next
<1>8. QED
  BY <1>2, <1>3, <1>4, <1>5, <1>6, <1>7 DEF Next, HubStep, HubNext, Runtime, Position

\* Across any number of positions that only acquire, no fill is lost, repeated,
\* reordered or handed to the wrong position, however hub, runtime and
\* positions interleave and whichever of them ends.
THEOREM FillsDelivered == LastStage = "acquisition" => (Spec => DeliversFills)
<1> SUFFICES ASSUME LastStage = "acquisition" PROVE Spec => DeliversFills
  OBVIOUS
<1>1. Init => StopsAfterAcquisition
  BY DEF Init, StopsAfterAcquisition
<1>2. TypeOK /\ KeyInv /\ InOrder /\ OnItsWay /\ StopsAfterAcquisition /\ [Next]_vars
        => [Delivery!Next]_Delivery!absVars
  BY NextDelivery
<1>3. Spec => Delivery!Spec
  BY <1>1, <1>2, InitTypeOK, NextTypeOK, InitKeyInv, NextKeyInv, InitInOrder, NextInOrder,
     InitOnItsWay, NextOnItsWay, NextStopsAfterAcquisition, InitDelivery,
     PTL DEF Spec, Delivery!Spec
<1>4. QED
  BY <1>3 DEF DeliversFills
=============================================================================
