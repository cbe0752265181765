----------------------------- MODULE Allocation -----------------------------
(***************************************************************************)
(* How a protocol's share of a position is spread over its orders          *)
(* (ProtocolOrders::recalculate_protocol_orders_allocation, protocols/     *)
(* mod.rs).                                                                *)
(*                                                                         *)
(* A slot is Inactive (None in the code) or a record with the percentage   *)
(* "pct", in Whole-ths of the controlled notional.  Notionals are integers *)
(* in units so small that the divisions of the instances are exact; the    *)
(* code's f64 are exact on dyadic values.                                  *)
(***************************************************************************)
EXTENDS Sums, SequencesExt

CONSTANT Whole  \* 100%, as an integer number of steps

ASSUME WholeAssumption == Whole \in Nat \ {0}

Inactive == [pct |-> 0, kind |-> "none", price |-> 0]

Slot == {Inactive} \union [pct : Nat, kind : {"Market", "StopMarket"}, price : Nat]

NotPlaced == 0

Left(controlled, filled) == controlled - SumOf(filled)

\* MUTANT of ShareOfSkipped: one order too many shares
ShareOfAll(pct, n, ordinal) == pct \div (n - ordinal + 1)

\* What each of the orders after a skipped one gets of its percentage; the
\* last order has none to pass it on to.
ShareOfSkipped(pct, n, ordinal) == IF ordinal = n THEN 0 ELSE pct \div (n - ordinal)

\* One turn of filter_map: the notional left over by the turns before, the
\* percentage inherited from skipped orders, and what has been placed so far.
Turn(acc, slot, min, n) ==
  LET ordinal == Len(acc.placed) + 1
      desired == ((slot.pct + acc.extra) * acc.left) \div Whole
  IN IF slot = Inactive
     THEN [acc EXCEPT !.placed = Append(@, NotPlaced)]
     ELSE IF desired > min
     THEN [acc EXCEPT !.placed = Append(@, desired), !.left = @ - desired]
     ELSE [acc EXCEPT !.placed = Append(@, NotPlaced),
                      !.extra = @ + ShareOfSkipped(slot.pct, n, ordinal)]

\* The sequence of the notionals placed, one per slot.
Place(slots, mins, left) ==
  LET turns[t \in 0..Len(slots)] ==
        IF t = 0
        THEN [placed |-> <<>>, left |-> left, extra |-> 0]
        ELSE Turn(turns[t - 1], slots[t], mins[t], Len(slots))
  IN turns[Len(slots)].placed

\* in_play is leftovers.is_none(); leftovers is meaningful only when not in play.
RecalculateAllocation(slots, filled, mins, controlled, min_any) ==
  LET left == Left(controlled, filled)
  IN IF left < min_any
     THEN [placed |-> [o \in DOMAIN slots |-> NotPlaced], in_play |-> FALSE, leftovers |-> left]
     ELSE [placed |-> Place(slots, mins, left), in_play |-> TRUE, leftovers |-> 0]
=============================================================================
