-------------------------------- MODULE Hub --------------------------------
(***************************************************************************)
(* The order hub (exchange_apis/hub.rs): one task that joins the requests  *)
(* of all positions into one batch for the exchange runtime, and forwards  *)
(* every fill the runtime reports to the position whose order was filled.  *)
(*                                                                         *)
(* Requests, batches and fills carry a fill key.  In the code a key is a   *)
(* fresh Uuid v7 per reported fill, and Uuid::default() before the first;  *)
(* keys are only ever compared for equality, so the k-th reported fill has *)
(* the key k here and 0 is Uuid::default().                                *)
(*                                                                         *)
(* Orders are opaque records with a field "kind" (the variants of          *)
(* ConceptualOrderType); the batch is kept as the set of requested orders, *)
(* each tagged with its position: the hub iterates over a hash map, so the *)
(* order in which positions follow one another is arbitrary anyway.        *)
(***************************************************************************)
EXTENDS Naturals, Sequences, FiniteSets

CONSTANTS
  Positions,         \* the positions that share the hub
  RequestCap,        \* capacity of the channel positions -> hub (32)
  FillCap,           \* capacity of the channel runtime -> hub   (32)
  PositionFillCap    \* capacity of the channel hub -> position  (256)

ASSUME CapAssumption == /\ RequestCap \in Nat \ {0}
                        /\ FillCap \in Nat \ {0}
                        /\ PositionFillCap \in Nat \ {0}

VARIABLES
  rx,          \* PositionToHub messages waiting for the hub
  fills_rx,    \* ExchangeToHub messages waiting for the hub
  fills_chan,  \* [position -> ProtocolFills waiting in its open fills channel]
  listening,   \* [position -> the stage whose fills receiver is alive]
  plk,         \* positions_local_knowledge
  elk,         \* key of exchanges_local_knowledge[BinanceFutures]
  orders_tx,   \* current value of the watch channel hub -> runtime
  unseen,      \* the watch value has changed since the runtime last looked
  receiver,    \* the runtime still holds the receiving end of the watch
  hub,         \* control state of the hub task
  inHand       \* the fill whose callback.send(..) the hub awaits

hubVars == <<plk, elk, hub, inHand>>
channelVars == <<rx, fills_rx, fills_chan, orders_tx, unseen>>

\* A position acquires first and follows up afterwards; each stage creates a
\* fills channel of its own and drops it when it returns.
Stages == {"acquisition", "followup"}
None == "none"

HubRunning == {"select", "delivering"}
HubEnded == {"err_callback", "err_watch", "panic_order_type", "panic_unknown_position"}
HubAlive == hub \in HubRunning

NoFill == [key |-> 0, position |-> None]

HubInit ==
  /\ rx = <<>>
  /\ fills_rx = <<>>
  /\ plk = [p \in Positions |-> [key |-> 0, callback |-> None, requested |-> {}]]
  /\ elk = 0
  /\ orders_tx = [key |-> 0, orders |-> {}, by |-> None]
  /\ unseen = FALSE
  /\ receiver = TRUE
  /\ hub = "select"
  /\ inHand = NoFill

-----------------------------------------------------------------------------
(***************************************************************************)
(* handle_update_from_position.                                            *)
(***************************************************************************)

\* entry(position_id).or_insert(..): a position's entry, and the fills channel
\* in it, are the ones of the first request it ever made.
Known(r) ==
  IF plk[r.position].callback = None
  THEN [plk EXCEPT ![r.position].callback = r.callback]
  ELSE plk

Requested(r) == [Known(r) EXCEPT ![r.position].requested = r.orders]

\* What all positions ask for, tagged with the position, as of the table t.
RequestedByAll(t) ==
  UNION {{[position |-> p, order |-> o] : o \in t[p].requested} : p \in Positions}

TakeRequest ==
  /\ hub = "select"
  /\ rx # <<>>
  /\ rx' = Tail(rx)
  /\ UNCHANGED <<fills_rx, fills_chan, listening, elk, receiver, inHand>>

AnyRequestIsCurrent(r) == TRUE  \* MUTANT of CurrentRequest: no key check

CurrentRequest(r) == plk[r.position].key = r.key

\* The request was computed before a fill the hub has already forwarded.
IgnoreRequest ==
  /\ TakeRequest
  /\ ~CurrentRequest(Head(rx))
  /\ plk' = Known(Head(rx))
  /\ UNCHANGED <<orders_tx, unseen, hub>>

\* MUTANT of Supported: stop orders are not translated
MarketOnly == {"Market"}

\* hub_process_orders translates these two kinds and panics on any other.
Supported == {"Market", "StopMarket"}

\* The task panics on an order kind it cannot express, and returns an error
\* when nobody listens to the watch any more.
EndOfRequest(batch) ==
  IF \E b \in batch : b.order.kind \notin Supported THEN "panic_order_type"
  ELSE IF ~receiver THEN "err_watch"
  ELSE "select"

BatchKey(r) == elk

\* The request is current: it replaces the position's orders, and the orders of
\* all positions go out under the key of the last fill the hub has seen.
ApplyRequest ==
  /\ TakeRequest
  /\ LET r == Head(rx)
         batch == RequestedByAll(Requested(r))
         end == EndOfRequest(batch)
     IN /\ CurrentRequest(r)
        /\ plk' = Requested(r)
        /\ hub' = end
        /\ IF end = "select"
           THEN /\ orders_tx' = [key |-> BatchKey(r), orders |-> batch, by |-> r.position]
                /\ unseen' = TRUE
           ELSE UNCHANGED <<orders_tx, unseen>>

HandleUpdateFromPosition == IgnoreRequest \/ ApplyRequest

-----------------------------------------------------------------------------
(***************************************************************************)
(* The fills branch of the hub's loop and handle_fill: both keys move when *)
(* the fill is received; the hub then awaits room in the position's        *)
(* channel, and ends with an error when that channel has been dropped.     *)
(***************************************************************************)
\* MUTANTS of KeyTaken: the position's key stays, or every position's moves
KeyForgotten(f) == plk
KeyOfEveryone(f) == [p \in Positions |-> [plk[p] EXCEPT !.key = f.key]]

KeyTaken(f) == [plk EXCEPT ![f.position].key = f.key]

ReceiveFill ==
  /\ hub = "select"
  /\ fills_rx # <<>>
  /\ LET f == Head(fills_rx)
         known == plk[f.position].callback # None
     IN /\ fills_rx' = Tail(fills_rx)
        /\ elk' = f.key
        /\ plk' = IF known THEN KeyTaken(f) ELSE plk
        /\ inHand' = IF known THEN f ELSE NoFill
        /\ hub' = IF known THEN "delivering" ELSE "panic_unknown_position"
  /\ UNCHANGED <<rx, fills_chan, listening, orders_tx, unseen, receiver>>

Dropped(p) == plk[p].callback # listening[p]

\* MUTANT of Delivered: the fill jumps the queue
DeliveredFirst(f) == [fills_chan EXCEPT ![f.position] = <<f>> \o @]

Delivered(f) == [fills_chan EXCEPT ![f.position] = Append(@, f)]

DeliverFill ==
  /\ hub = "delivering"
  /\ ~Dropped(inHand.position)
  /\ Len(fills_chan[inHand.position]) < PositionFillCap
  /\ fills_chan' = Delivered(inHand)
  /\ inHand' = NoFill
  /\ hub' = "select"
  /\ UNCHANGED <<rx, fills_rx, listening, plk, elk, orders_tx, unseen, receiver>>

FailDelivery ==
  /\ hub = "delivering"
  /\ Dropped(inHand.position)
  /\ inHand' = NoFill
  /\ hub' = "err_callback"
  /\ UNCHANGED <<rx, fills_rx, fills_chan, listening, plk, elk, orders_tx, unseen, receiver>>

HubNext == HandleUpdateFromPosition \/ ReceiveFill \/ DeliverFill \/ FailDelivery
=============================================================================
