--------------------------- MODULE BinanceRuntime ---------------------------
(***************************************************************************)
(* The Binance runtime (exchange_apis/binance/mod.rs): a main loop that    *)
(* replaces the deployed orders by the hub's batches and reports fills to  *)
(* the hub, and a poller task that finds out about fills.  They share the  *)
(* locked list currently_deployed and a channel of polled fills.           *)
(*                                                                         *)
(* An order's name (PositionOrderId) is the same every time it is posted;  *)
(* the venue gives every post an id of its own: its place in "venue".      *)
(* Fill keys are numbered as in module Hub.  The venue and the hub are     *)
(* environment; a call to the venue takes effect and is answered at some   *)
(* point of its await, and either part of that may be lost.                *)
(***************************************************************************)
EXTENDS Naturals, Sequences, Functions

CONSTANTS
  OrderNames,               \* PositionOrderIds the hub asks for
  Qty,                      \* quantity of every order
  HubCap,                   \* capacity of the channel runtime -> hub (32)
  TempCap,                  \* capacity of temp_fills_stack (100)
  MAX_CONNECTION_FAILURES,  \* 10
  MaxBatches,               \* bound: batches the hub sends
  MaxReports,               \* bound: reports after which the poller sleeps on
  MaxFaults                 \* bound: calls to the venue that fail or lose their answer

ASSUME BinanceAssumption ==
  /\ {Qty, HubCap, TempCap, MAX_CONNECTION_FAILURES} \subseteq Nat \ {0}
  /\ {MaxBatches, MaxReports, MaxFaults} \subseteq Nat

VARIABLES
  venue,                   \* [id -> [name, filled, status]]: a sequence
  deployed,                \* currently_deployed: sequence of [id, name, filled]
  poisoned,                \* a task died while it held that lock
  temp,                    \* polled fills waiting for the main loop
  main,                    \* control state of the main loop
  inHand,                  \* the polled fill whose hub_callback.send it awaits
  target,                  \* target_orders still to be posted
  toClose,                 \* deployed orders this attempt has yet to close
  attempts,                \* attempts to close so far
  just_deployed,           \* what was posted so far
  failures,                \* MUT_CURRENT_CONNECTION_FAILURES
  faults,                  \* calls that failed so far
  last_reported_fill_key,
  poller,                  \* control state of the poller
  orders,                  \* its shuffled copy of the deployed orders
  i,                       \* where it is in that copy
  answer,                  \* the venue's last answer to it
  hub_rx,                  \* the hub's current batch
  unseen,                  \* it has changed since the main loop last looked
  fills_rx,                \* reports waiting for the hub
  hubKey,                  \* key of the last report the hub took
  batches,                 \* number of batches sent
  placed,                  \* history: the names in all accepted batches
  heard,                   \* history: [id -> the execution last polled]
  mishaps                  \* history: what went wrong, see Mishaps

mainVars == <<main, inHand, target, toClose, attempts, just_deployed, last_reported_fill_key>>
pollerVars == <<poller, orders, i, answer>>
hubVars == <<hub_rx, unseen, fills_rx, hubKey, batches>>
historyVars == <<placed, heard, mishaps>>
vars == <<venue, deployed, poisoned, temp, failures, faults, mainVars, pollerVars, hubVars, historyVars>>

\* gave_up: the close loop ended with orders it could not close.  post_lost:
\* an order was placed although its post failed.  misplaced: the poller wrote
\* an execution into another order's entry, or there was no entry.  dropped: a
\* polled fill was taken and never reported.
Mishaps == {"gave_up", "post_lost", "misplaced", "dropped"}

NoFill == [id |-> 0, name |-> "none", executed |-> 0, status |-> "NEW"]

Init ==
  /\ venue = <<>> /\ deployed = <<>> /\ poisoned = FALSE /\ temp = <<>>
  /\ main = "select" /\ inHand = NoFill /\ target = {} /\ toClose = <<>>
  /\ attempts = 0 /\ just_deployed = <<>>
  /\ failures = 0 /\ faults = 0 /\ last_reported_fill_key = 0
  /\ poller = "sleep" /\ orders = <<>> /\ i = 1 /\ answer = NoFill
  /\ hub_rx = [key |-> 0, names |-> {}] /\ unseen = FALSE
  /\ fills_rx = <<>> /\ hubKey = 0 /\ batches = 0
  /\ placed = {} /\ heard = <<>> /\ mishaps = {}

-----------------------------------------------------------------------------
(***************************************************************************)
(* Environment: the market fills open orders, bit by bit or all at once;   *)
(* the hub takes reports and sends batches under the last key it took.     *)
(***************************************************************************)
VenueFill(id) ==
  /\ venue[id].status = "NEW"
  /\ \E f \in (venue[id].filled + 1)..Qty :
       venue' = [venue EXCEPT ![id] =
                   [name |-> @.name, filled |-> f, status |-> IF f = Qty THEN "FILLED" ELSE "NEW"]]
  /\ UNCHANGED <<deployed, poisoned, temp, failures, faults, mainVars, pollerVars, hubVars, historyVars>>

HubTakesReport ==
  /\ fills_rx # <<>>
  /\ fills_rx' = Tail(fills_rx)
  /\ hubKey' = Head(fills_rx).key
  /\ UNCHANGED <<venue, deployed, poisoned, temp, failures, faults, mainVars, pollerVars,
                 hub_rx, unseen, batches, historyVars>>

HubSendsBatch ==
  /\ batches < MaxBatches
  /\ batches' = batches + 1
  /\ \E names \in SUBSET OrderNames : hub_rx' = [key |-> hubKey, names |-> names]
  /\ unseen' = TRUE
  /\ UNCHANGED <<venue, deployed, poisoned, temp, failures, faults, mainVars, pollerVars,
                 fills_rx, hubKey, historyVars>>

-----------------------------------------------------------------------------
(***************************************************************************)
(* The poller.                                                             *)
(***************************************************************************)
Shuffles(s) == {[j \in DOMAIN s |-> s[f[j]]] : f \in Bijection(DOMAIN s, DOMAIN s)}

\* On to the next order of the copy, or back to sleep after the last one.
PollNext ==
  IF i < Len(orders)
  THEN /\ poller' = "ask" /\ i' = i + 1
       /\ UNCHANGED orders
  ELSE poller' = "sleep" /\ i' = 1 /\ orders' = <<>>

\* A call to the venue fails or its answer is lost.
Fault ==
  /\ faults < MaxFaults
  /\ faults' = faults + 1

PollerWakes ==
  /\ poller = "sleep"
  /\ deployed # <<>>
  /\ last_reported_fill_key < MaxReports
  /\ poller' = "ask"
  /\ orders' \in Shuffles(deployed)
  /\ UNCHANGED <<venue, deployed, poisoned, temp, failures, faults, mainVars, i, answer,
                 hubVars, historyVars>>

\* The venue reads the order's state; what it was may be old when it arrives.
PollFuturesOrder ==
  /\ poller = "ask"
  /\ LET o == orders[i]
     IN answer' = [id |-> o.id, name |-> o.name,
                   executed |-> venue[o.id].filled, status |-> venue[o.id].status]
  /\ poller' = "answer"
  /\ UNCHANGED <<venue, deployed, poisoned, temp, failures, faults, mainVars, orders, i,
                 hubVars, historyVars>>

PollFails ==
  /\ Fault
  /\ poller = "ask"
  /\ PollNext
  /\ UNCHANGED <<venue, deployed, poisoned, temp, failures, mainVars, answer,
                 hubVars, historyVars>>

\* The entry the poller writes to: its index is that of the shuffled copy,
\* not of the list, and the list may have been replaced meanwhile.
Slot == i

\* MUTANT of HasNews: only a completed order is worth a report
HasCompleted == answer.status = "FILLED" /\ answer.executed # orders[i].filled

HasNews == answer.executed # orders[i].filled

NothingNew ==
  /\ poller = "answer"
  /\ ~HasNews
  /\ PollNext
  /\ UNCHANGED <<venue, deployed, poisoned, temp, failures, faults, mainVars, answer,
                 hubVars, historyVars>>

NotNoted == deployed  \* MUTANT of Noted: the write is forgotten

Noted == [deployed EXCEPT ![Slot] = [@ EXCEPT !.filled = answer.executed]]

NoteExecution ==
  /\ poller = "answer"
  /\ HasNews
  /\ Slot <= Len(deployed)
  /\ deployed' = Noted
  /\ poller' = "send"
  /\ heard' = [heard EXCEPT ![answer.id] = answer.executed]
  /\ mishaps' = mishaps \union IF deployed[Slot].id = answer.id THEN {} ELSE {"misplaced"}
  /\ UNCHANGED <<venue, poisoned, temp, failures, faults, mainVars, orders, i, answer,
                 hubVars, placed>>

\* Index out of bounds under the write lock.
PollerPanics ==
  /\ poller = "answer"
  /\ HasNews
  /\ Slot > Len(deployed)
  /\ poller' = "panicked"
  /\ poisoned' = TRUE
  /\ mishaps' = mishaps \union {"misplaced"}
  /\ UNCHANGED <<venue, deployed, temp, failures, faults, mainVars, orders, i, answer,
                 hubVars, placed, heard>>

PushFill ==
  /\ poller = "send"
  /\ Len(temp) < TempCap
  /\ temp' = Append(temp, answer)
  /\ PollNext
  /\ UNCHANGED <<venue, deployed, poisoned, failures, faults, mainVars, answer, hubVars, historyVars>>

-----------------------------------------------------------------------------
(***************************************************************************)
(* handle_temp_fills_stack.                                                *)
(***************************************************************************)
Die ==
  /\ main' = "panicked"
  /\ UNCHANGED <<deployed, inHand>>

\* The entries after one move up; no name is deployed twice.
WithoutName(f) ==
  IF \E n \in DOMAIN deployed : deployed[n].name = f.name
  THEN LET at == CHOOSE n \in DOMAIN deployed : deployed[n].name = f.name
       IN SubSeq(deployed, 1, at - 1) \o SubSeq(deployed, at + 1, Len(deployed))
  ELSE deployed

\* A filled order leaves the list: whatever post of it the entry stands for.
Remaining(f) ==
  IF f.status = "FILLED" THEN WithoutName(f) ELSE deployed

TakePolledFill ==
  /\ main \in {"select", "drain"}
  /\ temp # <<>>
  /\ temp' = Tail(temp)
  /\ LET f == Head(temp)
     IN IF f.status = "FILLED" /\ poisoned
        THEN Die
        ELSE /\ deployed' = Remaining(f)
             /\ inHand' = f
             /\ main' = "report"
  /\ UNCHANGED <<venue, poisoned, failures, faults, target, toClose, attempts, just_deployed,
                 last_reported_fill_key, pollerVars, hubVars, historyVars>>

\* The key moves only after the hub's channel has taken the report.
ReportFill ==
  /\ main = "report"
  /\ Len(fills_rx) < HubCap
  /\ last_reported_fill_key' = last_reported_fill_key + 1
  /\ fills_rx' = Append(fills_rx, [key |-> last_reported_fill_key', owner |-> inHand.name])
  /\ inHand' = NoFill
  /\ main' = "drain"
  /\ UNCHANGED <<venue, deployed, poisoned, temp, failures, faults, target, toClose, attempts,
                 just_deployed, pollerVars, hub_rx, unseen, hubKey, batches, historyVars>>

\* MUTANT of Drained: recv().await in the place of try_recv() never ends
WaitsForMore ==
  /\ main = "drain"
  /\ temp # <<>>
  /\ main' = "select"
  /\ UNCHANGED <<venue, deployed, poisoned, temp, failures, faults, inHand, target, toClose, attempts,
                 just_deployed, last_reported_fill_key, pollerVars, hubVars, historyVars>>

Drained ==
  /\ main = "drain"
  /\ temp = <<>>
  /\ main' = "select"
  /\ UNCHANGED <<venue, deployed, poisoned, temp, failures, faults, inHand, target, toClose, attempts,
                 just_deployed, last_reported_fill_key, pollerVars, hubVars, historyVars>>

-----------------------------------------------------------------------------
(***************************************************************************)
(* The other branch of the select and handle_hub_orders_update.            *)
(***************************************************************************)

\* hub_rx.changed().  The branch also wins when handle_temp_fills_stack waits
\* for room in the hub's channel; the report it was about to make is dropped.
SeeChange ==
  /\ \/ main = "select"
     \/ main = "report" /\ Len(fills_rx) = HubCap
  /\ unseen
  /\ unseen' = FALSE
  /\ inHand' = NoFill
  /\ mishaps' = mishaps \union IF main = "report" THEN {"dropped"} ELSE {}
  /\ main' = "borrow"
  /\ UNCHANGED <<venue, deployed, poisoned, temp, failures, faults, target, toClose, attempts,
                 just_deployed, last_reported_fill_key, pollerVars,
                 hub_rx, fills_rx, hubKey, batches, placed, heard>>

AnyBatch == TRUE  \* MUTANT of CurrentBatch: no key check

CurrentBatch == hub_rx.key = last_reported_fill_key

Borrow ==
  /\ main = "borrow"
  /\ IF CurrentBatch
     THEN /\ target' = hub_rx.names
          /\ placed' = placed \union hub_rx.names
          /\ attempts' = 0
          /\ main' = "close"
     ELSE main' = "select" /\ UNCHANGED <<target, placed, attempts>>
  /\ UNCHANGED <<venue, deployed, poisoned, temp, failures, faults, inHand, toClose, just_deployed,
                 last_reported_fill_key, pollerVars, hubVars, heard, mishaps>>

OutOfAttempts == attempts = MAX_CONNECTION_FAILURES

StartPosting == main' = "post" /\ just_deployed' = <<>>

\* One turn of the close loop: a fresh look at the list, or no turns left.
StartClosing ==
  /\ main = "close"
  /\ ~OutOfAttempts
  /\ IF poisoned
     THEN Die /\ UNCHANGED <<toClose, attempts>>
     ELSE /\ toClose' = deployed
          /\ attempts' = attempts + 1
          /\ main' = "closing"
          /\ UNCHANGED <<deployed, inHand>>
  /\ UNCHANGED <<venue, poisoned, temp, failures, faults, target, just_deployed,
                 last_reported_fill_key, pollerVars, hubVars, historyVars>>

StopClosing ==
  /\ main = "close"
  /\ OutOfAttempts
  /\ StartPosting
  /\ mishaps' = mishaps \union {"gave_up"}
  /\ UNCHANGED <<venue, deployed, poisoned, temp, failures, faults, inHand, target, toClose, attempts,
                 last_reported_fill_key, pollerVars, hubVars, placed, heard>>

AllClosed ==
  /\ main = "closing"
  /\ toClose = <<>>
  /\ StartPosting
  /\ UNCHANGED <<venue, deployed, poisoned, temp, failures, faults, inHand, target, toClose, attempts,
                 last_reported_fill_key, pollerVars, hubVars, historyVars>>

\* MUTANT of Cancel: the request is built and never awaited
NeverAwaited(id) == UNCHANGED venue

\* close_orders asks for one order at a time and gives up at the first error.
Cancel(id) == venue' = [venue EXCEPT ![id] = [@ EXCEPT !.status = "CANCELED"]]

CloseOrder ==
  /\ main = "closing"
  /\ toClose # <<>>
  /\ venue[Head(toClose).id].status = "NEW"
  /\ Cancel(Head(toClose).id)
  /\ toClose' = Tail(toClose)
  /\ UNCHANGED <<deployed, poisoned, temp, failures, faults, main, inHand, target, attempts,
                 just_deployed, last_reported_fill_key, pollerVars, hubVars, historyVars>>

\* report_connection_problem: TRUE, and back to 0, at every tenth call.
ReportConnectionProblem == failures' = (failures + 1) % MAX_CONNECTION_FAILURES

\* The venue does not know the order as open (-2011).  After its report, and
\* the five seconds the loop then sleeps, it tries again from the start,
\* unless the report said that this was one failure too many.
NothingToClose ==
  /\ main = "closing"
  /\ toClose # <<>>
  /\ venue[Head(toClose).id].status # "NEW"
  /\ ReportConnectionProblem
  /\ IF failures' = 0
     THEN StartPosting /\ mishaps' = mishaps \union {"gave_up"}
     ELSE main' = "close" /\ UNCHANGED <<just_deployed, mishaps>>
  /\ UNCHANGED <<venue, deployed, poisoned, temp, faults, inHand, target, toClose, attempts,
                 last_reported_fill_key, pollerVars, hubVars, placed, heard>>

\* Any other error: the next attempt follows at once.  The order may have been
\* cancelled all the same.
CloseFails ==
  /\ Fault
  /\ main = "closing"
  /\ toClose # <<>>
  /\ \/ UNCHANGED venue
     \/ venue[Head(toClose).id].status = "NEW" /\ Cancel(Head(toClose).id)
  /\ main' = "close"
  /\ UNCHANGED <<deployed, poisoned, temp, failures, inHand, target, toClose, attempts,
                 just_deployed, last_reported_fill_key, pollerVars, hubVars, historyVars>>

-----------------------------------------------------------------------------
Accepted(n) ==
  /\ venue' = Append(venue, [name |-> n, filled |-> 0, status |-> "NEW"])
  /\ heard' = Append(heard, 0)

Posting(n) ==
  /\ main = "post"
  /\ n \in target
  /\ target' = target \ {n}
  /\ UNCHANGED <<deployed, poisoned, temp, failures, main, inHand, toClose, attempts,
                 last_reported_fill_key, pollerVars, hubVars, placed>>

PostFuturesOrder(n) ==
  /\ Posting(n)
  /\ Accepted(n)
  /\ just_deployed' = Append(just_deployed, [id |-> Len(venue) + 1, name |-> n, filled |-> 0])
  /\ UNCHANGED <<mishaps, faults>>

\* "Error posting order": the loop goes on to the next order.
PostFails(n) ==
  /\ Fault
  /\ Posting(n)
  /\ \/ UNCHANGED <<venue, heard, mishaps>>
     \/ Accepted(n) /\ mishaps' = mishaps \union {"post_lost"}
  /\ UNCHANGED just_deployed

Swap ==
  /\ main = "post"
  /\ target = {}
  /\ IF poisoned
     THEN Die
     ELSE deployed' = just_deployed /\ main' = "select" /\ UNCHANGED inHand
  /\ UNCHANGED <<venue, poisoned, temp, failures, faults, target, toClose, attempts, just_deployed,
                 last_reported_fill_key, pollerVars, hubVars, historyVars>>

\* The task that refreshes the exchange info shares the failure counter.
InfoUpdateFails ==
  /\ Fault
  /\ ReportConnectionProblem
  /\ UNCHANGED <<venue, deployed, poisoned, temp, mainVars, pollerVars, hubVars, historyVars>>

-----------------------------------------------------------------------------
Environment ==
  \/ \E id \in DOMAIN venue : VenueFill(id)
  \/ HubTakesReport
  \/ HubSendsBatch

\* The runtime's task dies with its main loop, and the poller with it.
Poller ==
  /\ main # "panicked"
  /\ \/ PollerWakes \/ PollFuturesOrder \/ PollFails
     \/ NothingNew \/ NoteExecution \/ PollerPanics \/ PushFill

ServeFills == TakePolledFill \/ ReportFill \/ Drained

Close ==
  StartClosing \/ StopClosing \/ AllClosed \/ CloseOrder \/ NothingToClose \/ CloseFails

Post == Swap \/ \E n \in OrderNames : PostFuturesOrder(n) \/ PostFails(n)

InfoUpdater == main # "panicked" /\ InfoUpdateFails

Next ==
  Environment \/ Poller \/ ServeFills \/ SeeChange \/ Borrow \/ Close \/ Post \/ InfoUpdater

Spec == Init /\ [][Next]_vars

\* Both tasks run on their own; sleeps end, calls to the venue are answered or
\* time out, and the hub keeps receiving.  select! picks a ready branch at
\* random, so neither branch of the main loop waits for ever while ready.
\* Nothing forces the market to fill an order or the hub to send a batch.
Fairness ==
  /\ WF_vars(Poller)
  /\ WF_vars(HubTakesReport)
  /\ SF_vars(TakePolledFill)
  /\ WF_vars(ReportFill \/ Drained)
  /\ SF_vars(SeeChange)
  /\ WF_vars(Borrow \/ Close \/ Post)

FairSpec == Spec /\ Fairness

-----------------------------------------------------------------------------
(***************************************************************************)
(* Properties.                                                             *)
(***************************************************************************)
Ids == 1..Len(venue)
Statuses == {"NEW", "FILLED", "CANCELED"}
VenueOrders == [name : OrderNames, filled : 0..Qty, status : Statuses]
DeployedOrders == [id : Ids, name : OrderNames, filled : 0..Qty]
PolledFills == [id : Ids, name : OrderNames, executed : 0..Qty, status : Statuses]
Reports == [key : 1..last_reported_fill_key, owner : OrderNames]

\* Every variable keeps its shape, channels keep to their capacities, and the
\* close loop to its attempts.
TypeOK ==
  /\ venue \in Seq(VenueOrders)
  /\ {deployed, toClose, just_deployed, orders} \subseteq Seq(DeployedOrders)
  /\ temp \in Seq(PolledFills) /\ Len(temp) <= TempCap
  /\ {inHand, answer} \subseteq PolledFills \union {NoFill}
  /\ fills_rx \in Seq(Reports) /\ Len(fills_rx) <= HubCap
  /\ main \in {"select", "report", "drain", "borrow", "close", "closing", "post", "panicked"}
  /\ poller \in {"sleep", "ask", "answer", "send", "panicked"}
  /\ i \in Nat \ {0} /\ (orders # <<>> => i <= Len(orders))
  /\ target \subseteq OrderNames /\ placed \subseteq OrderNames
  /\ attempts \in 0..MAX_CONNECTION_FAILURES
  /\ failures \in 0..(MAX_CONNECTION_FAILURES - 1)
  /\ {last_reported_fill_key, batches, faults} \subseteq Nat /\ hubKey \in 0..last_reported_fill_key
  /\ hub_rx \in [key : 0..last_reported_fill_key, names : SUBSET OrderNames]
  /\ {poisoned, unseen} \subseteq BOOLEAN
  /\ heard \in Seq(0..Qty) /\ Len(heard) = Len(venue)
  /\ mishaps \subseteq Mishaps

IdsIn(s) == {s[j].id : j \in DOMAIN s}

Tracked == IdsIn(deployed) \union IF main = "post" THEN IdsIn(just_deployed) ELSE {}

\* The state keeps its shape.  No order is left open on the venue that the
\* runtime does not know of (and so never closes), and a name has at most one
\* open order at a time, unless the close loop gave up, an accepted post was
\* reported as failed, or the poller mixed up two entries.
OpenOrdersTracked ==
  /\ TypeOK
  /\ mishaps \subseteq {"dropped"} =>
       /\ \A id \in Ids : venue[id].status = "NEW" => id \in Tracked
       /\ \A a, b \in Ids :
            /\ venue[a].status = "NEW" /\ venue[b].status = "NEW"
            /\ venue[a].name = venue[b].name
            => a = b

\* The poller tells each execution of an order once, and only what is more
\* than it told before, as long as it never mixed up two entries.
NoExecutionToldTwice ==
  [][poller = "answer" /\ poller' = "send" /\ "misplaced" \notin mishaps =>
       answer.executed > heard[answer.id]]_vars

\* The main loop always gets back to its select, or dies of the poisoned lock:
\* the close loop is capped, and neither channel can block it for ever.
RuntimeKeepsServing == []<>(main \in {"select", "panicked"})

\* Whatever the deployed orders execute is told to the hub in the end.
Told(d) == heard[d.id] = venue[d.id].filled

EveryExecutionReported ==
  <>[](\/ mishaps # {}
       \/ /\ \A j \in DOMAIN deployed : Told(deployed[j])
          /\ temp = <<>> /\ inHand = NoFill)

\* mod.rs:570, on the close loop: "Always will break naturally".
CloseLoopBreaksNaturally == "gave_up" \notin mishaps

\* mod.rs:183: the poller runs "for entire lifetime of the runtime".
PollerLivesWithRuntime == main # "panicked" => poller # "panicked"

-----------------------------------------------------------------------------
(***************************************************************************)
(* Towards the hub the runtime keeps the contract of ExchangeRuntime.      *)
(***************************************************************************)
Contract == INSTANCE ExchangeRuntime WITH
  Owners <- OrderNames,
  reported <- last_reported_fill_key,
  queue <- fills_rx,
  taken <- hubKey,
  batch <- [key |-> hub_rx.key, owners |-> hub_rx.names],
  placed <- placed

\* Keys, reports and batches pass between hub and runtime as agreed, whatever
\* goes wrong on the venue.
KeepsContract == Contract!Spec
=============================================================================
