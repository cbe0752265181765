-------------------------- MODULE FillKeyProtocol --------------------------
(***************************************************************************)
(* The fill-key protocol (docs/ARCHITECTURE.md, "last_fill_key") between   *)
(* the positions, the hub and the exchange runtime.  The hub is the        *)
(* detailed one of module Hub.  A position is reduced to what it sends and *)
(* when (positions.rs, do_acquisition and do_followup): WHAT it asks for   *)
(* is any subset of OrderKinds.  The exchange runtime is reduced to what   *)
(* it reports and which batch it acts on (exchange_apis/binance/mod.rs,    *)
(* handle_temp_fills_stack and handle_hub_orders_update); its work on the  *)
(* venue is module BinanceRuntime.                                         *)
(*                                                                         *)
(* Every order remembers the key its position knew when it computed it     *)
(* ("basis"); the code has the key on the request only.                    *)
(***************************************************************************)
EXTENDS Hub

CONSTANTS
  OrderKinds,      \* kinds of order the positions' protocols ask for
  LastStage,       \* "acquisition", or "followup" when positions go on to it
  MaxFills,        \* bound: fills the runtime reports
  MaxUpdates,      \* bound: spontaneous protocol updates per position
  RuntimeMayPanic  \* the runtime's task may die of a poisoned lock

ASSUME ProtocolAssumption ==
  /\ None \notin Positions
  /\ LastStage \in Stages
  /\ MaxFills \in Nat
  /\ MaxUpdates \in Nat
  /\ RuntimeMayPanic \in BOOLEAN

VARIABLES
  last_fill_key,  \* [position -> last_fill_key]
  outgoing,       \* [position -> the request whose hub_tx.send(..) it awaits]
  updates,        \* [position -> spontaneous protocol updates so far]
  issued,         \* history: the positions of the fills reported so far;
                  \* its length is the runtime's last_reported_fill_key
  runtime,        \* control state of the runtime's main loop
  accepted,       \* the batch the runtime acted on last
  placed          \* history: the positions that ever had orders in such a batch

positionVars == <<listening, last_fill_key, outgoing, updates>>
runtimeVars == <<issued, runtime, accepted, placed, receiver>>
vars == <<hubVars, channelVars, positionVars, runtimeVars>>

last_reported_fill_key == Len(issued)

NoRequest == [key |-> 0, position |-> None, callback |-> None, orders |-> {}]

Init ==
  /\ HubInit
  /\ fills_chan = [p \in Positions |-> <<>>]
  /\ listening = [p \in Positions |-> "acquisition"]
  /\ last_fill_key = [p \in Positions |-> 0]
  /\ outgoing = [p \in Positions |-> NoRequest]
  /\ updates = [p \in Positions |-> 0]
  /\ issued = <<>>
  /\ runtime = "select"
  /\ accepted = orders_tx
  /\ placed = {}

-----------------------------------------------------------------------------
(***************************************************************************)
(* Positions.                                                              *)
(***************************************************************************)
Selecting(p) == listening[p] # None /\ outgoing[p] = NoRequest

\* recalculate_protocol_orders, then send_orders_to_hub starts to send.
Ask(p, key) ==
  \E kinds \in SUBSET OrderKinds :
    outgoing' = [outgoing EXCEPT ![p] =
      [key |-> key, position |-> p, callback |-> listening[p],
       orders |-> {[kind |-> k, basis |-> key] : k \in kinds}]]

ReceiveProtocolOrders(p) ==
  /\ Selecting(p)
  /\ updates[p] < MaxUpdates
  /\ updates' = [updates EXCEPT ![p] = @ + 1]
  /\ Ask(p, last_fill_key[p])
  /\ UNCHANGED <<hubVars, channelVars, runtimeVars, listening, last_fill_key>>

TakeFill(p) ==
  /\ Selecting(p)
  /\ fills_chan[p] # <<>>
  /\ last_fill_key' = [last_fill_key EXCEPT ![p] = Head(fills_chan[p]).key]
  /\ UNCHANGED <<hubVars, runtimeVars, rx, fills_rx, orders_tx, unseen, updates>>

\* The fill leaves something to execute: the position asks anew.
ReceiveProtocolFills(p) ==
  /\ TakeFill(p)
  /\ fills_chan' = [fills_chan EXCEPT ![p] = Tail(@)]
  /\ Ask(p, Head(fills_chan[p]).key)
  /\ UNCHANGED listening

\* The fill completes the stage: the loop breaks without a request and the
\* receiver is dropped with whatever is still queued in it.  command_new goes
\* on to the followup, which starts from the acquisition's last key.
CompleteStage(p) ==
  /\ TakeFill(p)
  /\ fills_chan' = [fills_chan EXCEPT ![p] = <<>>]
  /\ listening' = [listening EXCEPT ![p] =
       IF @ = LastStage THEN None ELSE "followup"]
  /\ UNCHANGED outgoing

Unbounded == TRUE  \* MUTANT of RoomForRequest: the channel has no limit

RoomForRequest == Len(rx) < RequestCap

SendOrdersToHub(p) ==
  /\ outgoing[p] # NoRequest
  /\ HubAlive
  /\ RoomForRequest
  /\ rx' = Append(rx, outgoing[p])
  /\ outgoing' = [outgoing EXCEPT ![p] = NoRequest]
  /\ UNCHANGED <<hubVars, runtimeVars, listening, last_fill_key, updates,
                 fills_rx, fills_chan, orders_tx, unseen>>

\* hub_tx.send(..) fails once the hub is gone, and the stage returns the error.
FailToSend(p) ==
  /\ outgoing[p] # NoRequest
  /\ ~HubAlive
  /\ outgoing' = [outgoing EXCEPT ![p] = NoRequest]
  /\ listening' = [listening EXCEPT ![p] = None]
  /\ fills_chan' = [fills_chan EXCEPT ![p] = <<>>]
  /\ UNCHANGED <<hubVars, runtimeVars, last_fill_key, updates,
                 rx, fills_rx, orders_tx, unseen>>

Position(p) ==
  \/ ReceiveProtocolOrders(p)
  \/ ReceiveProtocolFills(p)
  \/ CompleteStage(p)
  \/ SendOrdersToHub(p)
  \/ FailToSend(p)

-----------------------------------------------------------------------------
(***************************************************************************)
(* The exchange runtime.  Its task lives in the hub's JoinSet and is       *)
(* aborted when the hub's task ends.                                       *)
(***************************************************************************)
RuntimeAlive == receiver /\ HubAlive

\* hub_rx.changed() resolves.  borrow() comes later and reads whatever the
\* watch holds by then.
SeeChange ==
  /\ RuntimeAlive
  /\ runtime = "select"
  /\ unseen
  /\ unseen' = FALSE
  /\ runtime' = "borrow"
  /\ UNCHANGED <<hubVars, positionVars, rx, fills_rx, fills_chan, orders_tx,
                 issued, accepted, placed, receiver>>

AnyBatchIsCurrent(batch) == TRUE  \* MUTANT of CurrentBatch: no key check

CurrentBatch(batch) == batch.key = last_reported_fill_key

\* handle_hub_orders_update: a batch under another key than the last one
\* reported is dropped; a current one replaces what is deployed.
HandleHubOrdersUpdate ==
  /\ RuntimeAlive
  /\ runtime = "borrow"
  /\ runtime' = "select"
  /\ IF CurrentBatch(orders_tx)
     THEN /\ accepted' = orders_tx
          /\ placed' = placed \union {b.position : b \in orders_tx.orders}
     ELSE UNCHANGED <<accepted, placed>>
  /\ UNCHANGED <<hubVars, channelVars, positionVars, issued, receiver>>

\* handle_temp_fills_stack: a fresh key, the report, then last_reported.  The
\* poller works on a copy of the deployed orders, so an order may be reported
\* long after it was replaced.
ReportFill(p) ==
  /\ RuntimeAlive
  /\ runtime = "select"
  /\ Len(issued) < MaxFills
  /\ p \in placed
  /\ Len(fills_rx) < FillCap
  /\ issued' = Append(issued, p)
  /\ fills_rx' = Append(fills_rx, [key |-> Len(issued) + 1, position |-> p])
  /\ UNCHANGED <<hubVars, positionVars, rx, fills_chan, orders_tx, unseen,
                 runtime, accepted, placed, receiver>>

\* currently_deployed.read().unwrap() on the lock the poller has poisoned.
RuntimePanics ==
  /\ RuntimeMayPanic
  /\ RuntimeAlive
  /\ receiver' = FALSE
  /\ UNCHANGED <<hubVars, channelVars, positionVars, issued, runtime, accepted, placed>>

HubStep ==
  /\ HubNext
  /\ UNCHANGED <<last_fill_key, outgoing, updates, issued, runtime, accepted, placed>>

Runtime ==
  \/ SeeChange
  \/ HandleHubOrdersUpdate
  \/ \E p \in Positions : ReportFill(p)
  \/ RuntimePanics

Next == HubStep \/ Runtime \/ \E p \in Positions : Position(p)

Spec == Init /\ [][Next]_vars

\* Every task of the pipeline runs on its own and tokio's select! picks among
\* its ready branches at random, so none of these steps is put off for ever.
\* Nothing makes the market fill an order or a protocol change its mind.
Fairness ==
  /\ WF_vars(HubStep /\ HandleUpdateFromPosition)
  /\ WF_vars(HubStep /\ ReceiveFill)
  /\ WF_vars(HubStep /\ (DeliverFill \/ FailDelivery))
  /\ WF_vars(SeeChange)
  /\ WF_vars(HandleHubOrdersUpdate)
  /\ \A p \in Positions :
       /\ WF_vars(ReceiveProtocolFills(p) \/ CompleteStage(p))
       /\ WF_vars(SendOrdersToHub(p) \/ FailToSend(p))

FairSpec == Spec /\ Fairness

-----------------------------------------------------------------------------
(***************************************************************************)
(* Properties.                                                             *)
(***************************************************************************)
Orders == [kind : OrderKinds, basis : Nat]
Requests == [key : Nat, position : Positions, callback : Stages, orders : SUBSET Orders]
Batches == [key : Nat, orders : SUBSET [position : Positions, order : Orders],
            by : Positions \union {None}]
Fills == [key : Nat, position : Positions]
PositionLocalKnowledge ==
  [key : Nat, callback : Stages \union {None}, requested : SUBSET Orders]

\* Every variable keeps its shape, and no channel exceeds its capacity.
TypeOK ==
  /\ rx \in Seq(Requests) /\ Len(rx) <= RequestCap
  /\ fills_rx \in Seq(Fills) /\ Len(fills_rx) <= FillCap
  /\ fills_chan \in [Positions -> Seq(Fills)]
  /\ \A p \in Positions : Len(fills_chan[p]) <= PositionFillCap
  /\ plk \in [Positions -> PositionLocalKnowledge]
  /\ elk \in Nat
  /\ orders_tx \in Batches
  /\ unseen \in BOOLEAN
  /\ receiver \in BOOLEAN
  /\ hub \in HubRunning \union HubEnded
  /\ inHand \in IF hub = "delivering" THEN Fills ELSE {NoFill}
  /\ listening \in [Positions -> Stages \union {None}]
  /\ last_fill_key \in [Positions -> Nat]
  /\ outgoing \in [Positions -> Requests \union {NoRequest}]
  /\ updates \in [Positions -> Nat]
  /\ issued \in Seq(Positions)
  /\ runtime \in {"select", "borrow"}
  /\ accepted \in Batches
  /\ placed \in SUBSET Positions

\* k is the key of the last fill of p among the first n reported (0: none).
LastFillIn(reports, p, k, n) ==
  /\ k \in 0..n
  /\ k # 0 => reports[k] = p
  /\ \A i \in 1..n : reports[i] = p => i <= k

IsLatest(p, k, n) == LastFillIn(issued, p, k, n)

\* The hub takes fills in the order they were reported and loses none: what
\* it has not handled yet is exactly what is still in its channel, so its key
\* lags last_reported_fill_key by the length of that channel.
HubLagsByItsQueue ==
  /\ elk + Len(fills_rx) = last_reported_fill_key
  /\ \A i \in 1..Len(fills_rx) :
       fills_rx[i] = [key |-> elk + i, position |-> issued[elk + i]]

\* The key the hub demands from a position is that of the last fill it has
\* handled for this very position, not of the last fill it has handled.
PositionKeyIsItsLastFill ==
  \A p \in Positions : IsLatest(p, plk[p].key, elk)

\* The purpose of the key (docs/ARCHITECTURE.md:174): when the runtime acts on
\* a batch, the position that caused it had seen every fill reported for it
\* by then, although requests, batches and fills cross each other on the way.
AskerUpToDate(batch) ==
  \A b \in batch.orders :
    b.position = batch.by => IsLatest(b.position, b.order.basis, batch.key)

AcceptedAskerUpToDate == AskerUpToDate(accepted)

\* The same for every position whose orders are in the batch.
AcceptedAllUpToDate ==
  \A b \in accepted.orders : IsLatest(b.position, b.order.basis, accepted.key)

\* The expect(..) of the hub's fills branch never fires: whoever is reported a
\* fill has an entry in positions_local_knowledge.
NoUnknownPosition == hub # "panic_unknown_position"

\* The inductive invariant behind the four above.  Besides the two statements
\* on keys it says: an order in a request was computed under the request's
\* key; what the hub last sent out, and what the runtime last acted on, was
\* up to date for its asker at the key it carries; and whoever has orders
\* with the hub, or was ever placed or filled, is known to the hub.
RequestsCarryTheirKey ==
  /\ \A i \in 1..Len(rx) : \A o \in rx[i].orders : o.basis = rx[i].key
  /\ \A p \in Positions : \A o \in outgoing[p].orders : o.basis = outgoing[p].key

WatchUpToDate == orders_tx.key <= elk /\ AskerUpToDate(orders_tx)
AcceptedUpToDate == accepted.key <= last_reported_fill_key /\ AskerUpToDate(accepted)

IsKnown(p) == plk[p].callback # None

AskersKnown ==
  /\ \A p \in Positions : ~IsKnown(p) => plk[p].requested = {}
  /\ \A b \in orders_tx.orders : IsKnown(b.position)
  /\ \A p \in placed : IsKnown(p)
  /\ \A i \in 1..Len(issued) : issued[i] \in placed

KeyInv ==
  /\ HubLagsByItsQueue
  /\ PositionKeyIsItsLastFill
  /\ RequestsCarryTheirKey
  /\ WatchUpToDate
  /\ AcceptedUpToDate
  /\ AskersKnown
  /\ NoUnknownPosition

\* A position whose key is behind the one the hub demands has the fill that
\* brings the new key still to come; else its requests would be ignored for
\* ever ("Key mismatch, ignoring the request").
NeverStuckBehind ==
  \A p \in Positions :
    listening[p] # None /\ last_fill_key[p] # plk[p].key =>
      fills_chan[p] # <<>> \/ inHand.position = p

\* positions.rs: "hub outlives positions".
HubOutlivesPositions ==
  (\E p \in Positions : listening[p] # None) => HubAlive

\* The batch in the watch is the one the runtime works with, under the key of
\* the last report.
Settled == accepted = orders_tx /\ orders_tx.key = last_reported_fill_key

\* hub.rs:159 and positions.rs:206: the hub waits for room in the channel of a
\* position that waits for room in the hub's channel.  Neither lets go.
MutualWait ==
  \E p \in Positions :
    /\ inHand.position = p /\ Len(fills_chan[p]) = PositionFillCap /\ ~Dropped(p)
    /\ outgoing[p] # NoRequest /\ ~RoomForRequest

\* After the last fill and the last protocol update the position's final
\* request gets through hub and runtime: no key mismatch is permanent as long
\* as every fill that completes nothing is answered by a request.  Only hub and
\* position waiting for each other ends this, and nothing else does.
EventuallySettled ==
  <>[](Settled \/ (\A p \in Positions : listening[p] = None) \/ MutualWait)

-----------------------------------------------------------------------------
(***************************************************************************)
(* The protocol implements FillDelivery as long as positions only acquire  *)
(* and the hub lives: what is due to a position is what waits in its       *)
(* channel, in the hub's hand and, among the fills of others, in the hub's *)
(* channel.                                                                *)
(***************************************************************************)
KeysFor(p, fills) ==
  {fills[i].key : i \in {j \in DOMAIN fills : fills[j].position = p}}

InHandFor(p) == IF inHand.position = p THEN {inHand.key} ELSE {}

Due(p) ==
  IF listening[p] = None THEN {}
  ELSE KeysFor(p, fills_chan[p]) \union InHandFor(p) \union KeysFor(p, fills_rx)

Delivery == INSTANCE FillDelivery WITH
  reported <- Len(issued),
  open <- [p \in Positions |-> listening[p] # None],
  due <- [p \in Positions |-> Due(p)],
  taken <- last_fill_key

\* Across two positions no fill is lost, repeated, reordered or handed to the
\* wrong position.
DeliversFills == Delivery!Spec

\* And none waits for ever, unless hub and position wait for each other.
DeliversFillsEventually == <>[]MutualWait \/ Delivery!Fairness

Contract == INSTANCE ExchangeRuntime WITH
  Owners <- Positions,
  reported <- Len(issued),
  queue <- [n \in DOMAIN fills_rx |->
              [key |-> fills_rx[n].key, owner |-> fills_rx[n].position]],
  taken <- elk,
  batch <- [key |-> orders_tx.key,
            owners |-> {b.position : b \in orders_tx.orders}],
  placed <- placed

\* Hub and runtime keep the contract that module BinanceRuntime, which has the
\* runtime's work on the venue, keeps as well: what is shown here rests on no
\* more about the runtime than what it does there.
KeepsContract == Contract!Spec
=============================================================================
