--------------------------- MODULE ExchangeRuntime ---------------------------
(***************************************************************************)
(* What hub and exchange runtime promise each other, whatever the runtime  *)
(* does on its venue.  The runtime numbers its reports, reports only on    *)
(* owners whose orders it has accepted, and accepts a batch only under the *)
(* number of its last report.  The hub takes the reports in order and      *)
(* sends every batch under the number of the last report it took.          *)
(***************************************************************************)
EXTENDS Naturals, Sequences

CONSTANT Owners  \* of orders: positions, or position and protocol slot

VARIABLES
  reported,  \* number of the last report
  queue,     \* reports the hub has yet to take
  taken,     \* number of the last report the hub took
  batch,     \* the batch the hub sent last
  placed     \* owners whose orders the runtime ever accepted

contractVars == <<reported, queue, taken, batch, placed>>

Init ==
  /\ reported = 0
  /\ queue = <<>>
  /\ taken = 0
  /\ batch = [key |-> 0, owners |-> {}]
  /\ placed = {}

Report(o) ==
  /\ o \in placed
  /\ reported' = reported + 1
  /\ queue' = Append(queue, [key |-> reported', owner |-> o])
  /\ UNCHANGED <<taken, batch, placed>>

Accept ==
  /\ batch.key = reported
  /\ placed' = placed \union batch.owners
  /\ UNCHANGED <<reported, queue, taken, batch>>

TakeReport ==
  /\ queue # <<>>
  /\ taken' = Head(queue).key
  /\ queue' = Tail(queue)
  /\ UNCHANGED <<reported, batch, placed>>

SendBatch ==
  /\ \E owners \in SUBSET Owners : batch' = [key |-> taken, owners |-> owners]
  /\ UNCHANGED <<reported, queue, taken, placed>>

Next == Accept \/ TakeReport \/ SendBatch \/ \E o \in Owners : Report(o)

Spec == Init /\ [][Next]_contractVars
=============================================================================
