----------------------------- MODULE Algorithms -----------------------------
(***************************************************************************)
(* The pure algorithms on every input of a bounded set: the allocation of  *)
(* a protocol's orders, the sizing command, and the times of the moves it  *)
(* depends on.  A step computes the result of the input chosen initially.  *)
(***************************************************************************)
EXTENDS Allocation, RiskSizing, FiniteSets

CONSTANTS
  Percents,     \* percentages a slot may have
  MaxSlots,     \* bound: slots of a protocol
  Notionals,    \* notionals a protocol may control
  FillSizes,    \* notionals a slot may have been filled with
  MinQties,     \* minimal quantities (one for all orders, as in info.rs)
  Amounts,      \* balances of an exchange
  Biases,       \* round_bias, in percent
  Moves,        \* prices of the history, on a logarithmic scale
  History       \* bound: length of the history

ASSUME AllocationInputs ==
  /\ Percents \subseteq Nat /\ MaxSlots \in Nat
  /\ Notionals \subseteq Int /\ FillSizes \subseteq Int /\ MinQties \subseteq Nat

\* bound on the amounts: Magnitude has the scale of every size; a bias is a PercentU
ASSUME SizingInputs ==
  /\ Amounts \subseteq Nat /\ \A a \in Amounts : a <= 100000000
  /\ Biases \subseteq Nat /\ \A b \in Biases : b <= 100

\* The logarithm of an algebraic number is no half tier.
ASSUME NoHalfTiers == \A hours \in DOMAIN LnMul : LnMul[hours] % 1000 # 500

\* There is a price at least.
ASSUME MovesInputs == Moves \subseteq Int /\ History \in Nat \ {0}

VARIABLES input, result

algorithmVars == <<input, result>>

NotComputed == [computed |-> FALSE]

-----------------------------------------------------------------------------
Slots == {Inactive} \union {[pct |-> p, kind |-> "Market", price |-> 0] : p \in Percents}

\* ProtocolOrders::new asserts that there is an order (its symbol set has one
\* element); a protocol asks for no more than all it controls.
Requestable(s) == SumOf([o \in DOMAIN s |-> s[o].pct]) \in 1..Whole

ChooseAllocation ==
  \E n \in 1..MaxSlots :
    \E s \in [1..n -> Slots], f \in [1..n -> FillSizes], m \in MinQties, c \in Notionals :
      /\ Requestable(s)
      /\ input = [kind |-> "allocation", slots |-> s, filled |-> f, min |-> m, controlled |-> c]

\* size_main pushes the layers the configuration enables, in this order.
Layer(kind, hours) == [kind |-> kind, hours |-> hours]
Manual ==
  LET phone == Layer("from_phone", 0)
      lost == Layer("lost_last_trade", 0)
  IN {<<>>, <<phone>>, <<lost>>, <<phone, lost>>}
Proximity == {<<>>} \union {<<Layer("stop_loss_proximity", hours)>> : hours \in DOMAIN LnMul}

Answers ==
  [answer : {"ok"}, total : Amounts] \union [answer : {"unauthorized", "failed"}, total : {0}]

OtherBalances == 500000  \* of the configuration

ChooseSizing ==
  \E q \in DOMAIN Tier, m \in Manual, p \in Proximity, a \in BoundedSeq(Answers, 2) \ {<<>>}, b \in Biases :
    input = [kind |-> "sizing", quality |-> q, manual |-> m, layers |-> m \o p, answers |-> a,
             other |-> OtherBalances, abs_max_risk |-> 2, sl_percent |-> 5, bias |-> b]

ChooseMoves ==
  \E prices \in [1..History -> Moves] :
    input = [kind |-> "moves", prices |-> prices, down |-> 2, up |-> 1]

AlgorithmsInit ==
  /\ ChooseAllocation \/ ChooseSizing \/ ChooseMoves
  /\ result = NotComputed

-----------------------------------------------------------------------------
Computes(kind, value) ==
  /\ input.kind = kind /\ result = NotComputed
  /\ result' = [computed |-> TRUE, value |-> value]
  /\ UNCHANGED input

Allocate ==
  Computes("allocation",
    RecalculateAllocation(input.slots, input.filled, [o \in DOMAIN input.slots |-> input.min],
                          input.controlled, input.min))

SizeTrade == Computes("sizing", Size(input))

MeasureMoves == Computes("moves", TimesForSameMove(input))

AlgorithmsNext == Allocate \/ SizeTrade \/ MeasureMoves

AlgorithmsSpec == AlgorithmsInit /\ [][AlgorithmsNext]_algorithmVars

Computed(kind) == result.computed /\ input.kind = kind
Value == result.value

-----------------------------------------------------------------------------
Placed(o) == Value.placed[o] # NotPlaced

\* An order's percentage and what the skipped orders before it pass on.
Share(o) ==
  input.slots[o].pct + SumOf([j \in 1..(o - 1) |->
    IF input.slots[j] = Inactive \/ Placed(j) THEN 0
    ELSE input.slots[j].pct \div (Len(input.slots) - j)])

\* What an order is about to claim is its share of what the orders placed
\* before it have left, and it is placed exactly when that is above the
\* minimum; so the orders never ask for more than the protocol controls and
\* has not had filled, however skipped percentages are passed on.
MatchesDefinition ==
  Computed("allocation") =>
    LET left == input.controlled - SumOf(input.filled)
    IN /\ SumOf(Value.placed) <= IF Value.in_play THEN left ELSE 0
       /\ Value.in_play =>
            \A o \in DOMAIN input.slots :
              LET claim == (Share(o) * (left - SumOf(SubSeq(Value.placed, 1, o - 1)))) \div Whole
              IN IF input.slots[o] = Inactive \/ claim <= input.min
                 THEN ~Placed(o)
                 ELSE Value.placed[o] = claim

\* protocols/mod.rs:151: no leftovers mean that the "protocol is in play"; one
\* whose orders make up all it controls then has an order.
InPlayPlacesSomething ==
  Computed("allocation") /\ Value.in_play /\ SumOf([o \in DOMAIN input.slots |-> input.slots[o].pct]) = Whole
    => \E o \in DOMAIN input.slots : Placed(o)

-----------------------------------------------------------------------------
\* Trading from the phone or after a loss lowers the tier by exactly a step
\* each, unless an end of the scale absorbs some of it, and never makes the
\* trade larger, whatever the proximity of the stop does to the tier.
LayersStepDown ==
  Computed("sizing") /\ Value.ok =>
    LET proximity == SubSeq(input.layers, Len(input.manual) + 1, Len(input.layers))
        without == Size([input EXCEPT !.layers = proximity])
        unclamped == Tier[input.quality] - Rounded(SumOf([n \in DOMAIN proximity |->
                       Adjustment(proximity[n])]))
        steps == Len(input.manual)
    IN /\ Value.tier \in without.tier..(without.tier + steps)
       /\ unclamped >= 0 /\ unclamped + steps <= TestTier => Value.tier = without.tier + steps
       /\ Value.tier # TestTier => Value.size <= without.size

\* At the stop a trade loses at most abs_max_risk of what is known to be held,
\* plus what rounding adds: the bias times half a percent of the size.  What
\* an exchange that failed to answer holds is not counted, and no size is
\* given if one refused the credentials.
LossAtStopBounded ==
  Computed("sizing") =>
    LET known == SumOf([n \in DOMAIN input.answers |-> input.answers[n].total]) + input.other
        risk == known * input.abs_max_risk
    IN /\ Value.ok <=> \A n \in DOMAIN input.answers : input.answers[n].answer # "unauthorized"
       /\ Value.ok => Value.size * input.sl_percent <= 100 * risk + (risk * input.bias) \div 200

-----------------------------------------------------------------------------
\* The times are those between successive moves back from now: they add up to
\* the time since the earliest, none is negative however the timeframes and
\* the windows of the requests overlap, and their average lies among them.
EmaOfMoves ==
  Computed("moves") /\ ~Value.panics =>
    LET Times == {Value.times[n] : n \in DOMAIN Value.times}
    IN /\ Len(Value.times) \in 1..RunTimes
       /\ SumOf(Value.times) = Len(input.prices) - Value.prev_time
       /\ \A t \in Times : t >= 0
       /\ \E t \in Times : t <= Value.ema
       /\ \E t \in Times : t >= Value.ema
=============================================================================
