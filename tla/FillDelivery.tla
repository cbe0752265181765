---------------------------- MODULE FillDelivery ----------------------------
(***************************************************************************)
(* What the path runtime -> hub -> position promises about fills, whatever *)
(* tasks and channels it is made of: fills are numbered as they are        *)
(* reported, and each open position takes those of its own orders, each    *)
(* exactly once, in the order of the reports, and sooner or later all.     *)
(* The numbers give the order, so that what is due is a set of them.       *)
(***************************************************************************)
EXTENDS Naturals

CONSTANT Positions

VARIABLES
  reported,  \* number of fills reported so far
  open,      \* [position -> it still takes fills]
  due,       \* [position -> the numbers of the fills it has yet to take]
  taken      \* [position -> the last fill it took]

absVars == <<reported, open, due, taken>>

Init ==
  /\ reported = 0
  /\ open = [p \in Positions |-> TRUE]
  /\ due = [p \in Positions |-> {}]
  /\ taken = [p \in Positions |-> 0]

Report(p) ==
  /\ reported' = reported + 1
  /\ due' = IF open[p] THEN [due EXCEPT ![p] = @ \union {reported'}] ELSE due
  /\ UNCHANGED <<open, taken>>

\* The earliest of the fills that are due to p.
Takes(p, k) ==
  /\ \A j \in due[p] : k <= j
  /\ taken' = [taken EXCEPT ![p] = k]

Take(p) ==
  \E k \in due[p] :
    /\ Takes(p, k)
    /\ due' = [due EXCEPT ![p] = @ \ {k}]
    /\ UNCHANGED <<reported, open>>

\* The last fill an acquisition takes may end it; it gives up the rest.
TakeAndClose(p) ==
  \E k \in due[p] :
    /\ Takes(p, k)
    /\ due' = [due EXCEPT ![p] = {}]
    /\ open' = [open EXCEPT ![p] = FALSE]
    /\ UNCHANGED reported

\* A position that finds the path broken gives up without taking anything.
Abandon(p) ==
  /\ open' = [open EXCEPT ![p] = FALSE]
  /\ due' = [due EXCEPT ![p] = {}]
  /\ UNCHANGED <<reported, taken>>

Next == \E p \in Positions : Report(p) \/ Take(p) \/ TakeAndClose(p) \/ Abandon(p)

Spec == Init /\ [][Next]_absVars

Fairness == \A p \in Positions : WF_absVars(Take(p) \/ TakeAndClose(p))
=============================================================================
