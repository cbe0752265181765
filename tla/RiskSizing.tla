------------------------------ MODULE RiskSizing ------------------------------
(***************************************************************************)
(* How large a trade may be: the sizing command (risk.rs, size_main) and   *)
(* what it calls in the risk crate.                                        *)
(*                                                                         *)
(* A tier is its index, A = 0 to H = 7 and T = 8 ("min").  Tier shifts are *)
(* in thousandths of a tier, amounts in units so small that a size is 100  *)
(* of them at least.  The logarithm of StopLossProximity is a table of the *)
(* formula's values, powers of e are one of ten-thousandths.               *)
(***************************************************************************)
EXTENDS Sums, SequencesExt

CONSTANTS
  LnMul,       \* [whole hours -> ln of mul_criterion, in thousandths]
  RunTimes,    \* RUN_TIMES, 10 in the code
  MaxFetches,  \* 10 in the code
  Window,      \* klines per request, 1000 in the code
  Timeframes   \* the preset ones, in multiples of the first

ASSUME RiskSizingAssumption ==
  /\ LnMul \in [DOMAIN LnMul -> Int] /\ DOMAIN LnMul \subseteq Nat
  /\ {RunTimes, MaxFetches, Window} \subseteq Nat \ {0}
  /\ Timeframes \in Seq(Nat \ {0})

Within(x, low, high) == IF x < low THEN low ELSE IF x > high THEN high ELSE x
Distance(a, b) == IF a < b THEN b - a ELSE a - b

-----------------------------------------------------------------------------
(***************************************************************************)
(* Balances.                                                               *)
(***************************************************************************)
\* An exchange that fails otherwise is only logged, and counts for nothing.
CollectBalances(answers) ==
  IF \E n \in DOMAIN answers : answers[n].answer = "unauthorized"
  THEN [ok |-> FALSE, balances |-> <<>>]
  ELSE [ok |-> TRUE, balances |-> [n \in DOMAIN answers |->
                                     IF answers[n].answer = "ok" THEN answers[n].total ELSE 0]]

TotalBalance(balances, other) == other + SumOf(balances)

-----------------------------------------------------------------------------
(***************************************************************************)
(* Tiers and layers.                                                       *)
(***************************************************************************)
Tier == [A |-> 0, B |-> 1, C |-> 2, D |-> 3, T |-> 8]  \* of a Quality
TestTier == 8

\* f64::round: half away from zero.
Rounded(thousandths) ==
  IF thousandths >= 0 THEN (thousandths + 500) \div 1000 ELSE -((500 - thousandths) \div 1000)

WrappedTier(tier, thousandths) == (tier - Rounded(thousandths)) % 9  \* MUTANT of MovedTier

\* RiskTier + Percent: up is towards A.
MovedTier(tier, thousandths) == Within(tier - Rounded(thousandths), 0, TestTier)

\* Of a layer's kind and hours, which only the stop's proximity has.
Adjustment(layer) == IF layer.kind = "stop_loss_proximity" THEN LnMul[layer.hours] ELSE -1000

ApplyRiskLayers(quality, layers) ==
  MovedTier(Tier[quality], SumOf([n \in DOMAIN layers |-> Adjustment(layers[n])]))

PowersOfE == <<10000, 3679, 1353, 498, 183, 67, 25, 9>>

\* What a tier may lose of an amount; abs_max_risk is in percent.
RiskOf(amount, tier, abs_max_risk) ==
  IF tier = TestTier THEN 0
  ELSE (((amount * abs_max_risk) \div 100) * PowersOfE[tier + 1]) \div 10000

-----------------------------------------------------------------------------
(***************************************************************************)
(* Sizes.                                                                  *)
(***************************************************************************)
Magnitude(value) ==
  CHOOSE m \in {100, 1000, 10000, 100000, 1000000, 10000000} : m <= value /\ value < 10 * m

NearestMultiple(value, step) == ((2 * value + step) \div (2 * step)) * step

CoarseCandidates(value) ==  \* MUTANT of Candidates: the finest scale is forgotten
  LET m == Magnitude(value)
  IN {NearestMultiple(value, step) : step \in {10 * m, 5 * m, m, m \div 2, m \div 10}} \ {0}

Candidates(value) ==
  LET m == Magnitude(value)
  IN {NearestMultiple(value, step) :
        step \in {10 * m, 5 * m, m, m \div 2, m \div 10, m \div 20, m \div 100}} \ {0}

ClosestRound(value) ==
  CHOOSE c \in Candidates(value) :
    \A d \in Candidates(value) : Distance(c, value) <= Distance(d, value)

\* Moved towards the rounder number, by the bias in percent of the distance; the
\* result is in hundredths.
RoundBiased(value, bias) ==
  IF value = 0 THEN 0 ELSE 100 * value + (ClosestRound(value) - value) * bias

\* A tier, and unless it is the test tier a size (in hundredths).
Size(in) ==
  LET collected == CollectBalances(in.answers)
      tier == ApplyRiskLayers(in.quality, in.layers)
      risk == RiskOf(TotalBalance(collected.balances, in.other), tier, in.abs_max_risk)
      size == (risk * 100) \div in.sl_percent
  IN IF ~collected.ok THEN [ok |-> FALSE, tier |-> TestTier, size |-> 0]
     ELSE IF tier = TestTier THEN [ok |-> TRUE, tier |-> tier, size |-> 0]
     ELSE [ok |-> TRUE, tier |-> tier, size |-> RoundBiased(size, in.bias)]

-----------------------------------------------------------------------------
(***************************************************************************)
(* ema_prev_times_for_same_move.  Prices are on a logarithmic scale, where *)
(* price * (1 - sl) is "down" below the price and price * (1 + sl) is "up" *)
(* above it.  A kline has a place in its series, and its open time is in   *)
(* units of the first timeframe; "now" is when the last one closes.        *)
(***************************************************************************)
\* The klines of a timeframe that covers tf prices each.
Series(prices, tf) ==
  [k \in 1..((Len(prices) + tf - 1) \div tf) |->
     LET first == (k - 1) * tf + 1
         covered == {prices[n] : n \in {m \in first..(first + tf - 1) : m <= Len(prices)}}
     IN [open |-> (k - 1) * tf,
         low |-> CHOOSE p \in covered : \A q \in covered : p <= q,
         high |-> CHOOSE p \in covered : \A q \in covered : p >= q]]

Anchored(acc, price, down, up) == [acc EXCEPT !.low = price - down, !.high = price + up]

TimeSinceNow(acc, k, now) == now - k.open  \* MUTANT of TimeSince

TimeSince(acc, k, now) == acc.prev_time - k.open

CheckIfSatisfies(acc, k, in) ==
  LET moved == [acc EXCEPT !.times = Append(@, TimeSince(acc, k, Len(in.prices))),
                           !.prev_time = k.open]
  IN IF k.low < acc.low THEN Anchored(moved, acc.low, in.down, in.up)
     ELSE IF k.high > acc.high THEN Anchored(moved, acc.high, in.down, in.up)
     ELSE acc

\* The klines that opened between two times, from the newest to the oldest,
\* until there are n times.
Scan(acc, tf, from, to, n, in) ==
  LET klines == Series(in.prices, tf)
      scanned[i \in 0..Len(klines)] ==
        IF i = 0 THEN acc
        ELSE LET before == scanned[i - 1]
                 k == klines[Len(klines) - (i - 1)]
             IN IF Len(before.times) = n \/ k.open < from \/ to < k.open THEN before
                ELSE CheckIfSatisfies(before, k, in)
  IN scanned[Len(klines)]

MoreTimes(acc, tf, in) ==
  LET rounds[i \in 0..MaxFetches] ==
        IF i = 0 THEN acc
        ELSE LET since == rounds[i - 1].prev_time
             IN Scan(rounds[i - 1], tf, since - (Window - 1) * tf, since, RunTimes, in)
  IN rounds[MaxFetches]

\* The last of the times, which is the one furthest back, weighs most.
Ema(times) ==
  SumOf([i \in DOMAIN times |-> i * times[i]]) \div (((Len(times) + 1) * Len(times)) \div 2)

\* The first timeframe of whose last klines one makes the move; without any the
\* call panics.
TimesForSameMove(in) ==
  LET now == Len(in.prices)
      start == Anchored([times |-> <<>>, prev_time |-> now, low |-> 0, high |-> 0],
                        Last(in.prices), in.down, in.up)
      First(n) == LET tf == Timeframes[n]
                  IN Scan(start, tf, (Len(Series(in.prices, tf)) - Window) * tf, now, 1, in)
      found == {n \in DOMAIN Timeframes : First(n).times # <<>>}
      n == CHOOSE m \in found : \A l \in found : m <= l
  IN IF found = {} THEN [panics |-> TRUE, times |-> <<>>, ema |-> 0, prev_time |-> now]
     ELSE LET acc == MoreTimes(First(n), Timeframes[n], in)
          IN [panics |-> FALSE, times |-> acc.times, ema |-> Ema(acc.times),
              prev_time |-> acc.prev_time]
=============================================================================
