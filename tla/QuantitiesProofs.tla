-------------------------- MODULE QuantitiesProofs --------------------------
(***************************************************************************)
(* Proofs about what is counted: that a position never buys more than its  *)
(* target, whatever its protocols send and however fills, requests and     *)
(* the market interleave, and what the allocation and the sizing compute,  *)
(* for every input.  They share the facts about sums they begin with.      *)
(***************************************************************************)
EXTENDS Position, Algorithms, FiniteSetTheorems, SequenceTheorems, WellFoundedInduction, TLAPS

USE WholeAssumption

-----------------------------------------------------------------------------
(***************************************************************************)
(* Induction, by the least counterexample.                                 *)
(***************************************************************************)
\* A set of naturals that is not empty has a least element.
LEMMA LeastOf ==
  ASSUME NEW T, T \subseteq Nat, T # {}
  PROVE  \E x \in T : \A y \in T : x <= y
<1>1. PICK x \in T : \A y \in T : ~ (<<y, x>> \in OpToRel(<, Nat))
  BY NatLessThanWellFounded, WFMin
<1>2. ASSUME NEW y \in T
      PROVE  x <= y
  <2>1. <<y, x>> \in Nat \X Nat /\ <<y, x>>[1] = y /\ <<y, x>>[2] = x
    OBVIOUS
  <2>2. ~ (y < x)
    BY <1>1, <2>1 DEF OpToRel
  <2> QED  BY <2>2
<1> QED  BY <1>2

\* A set that has 0, and with a number its successor, has them all.
LEMMA Induction ==
  ASSUME NEW n \in Nat, NEW T, 0 \in T, \A i \in 1..n : i - 1 \in T => i \in T
  PROVE  \A i \in 0..n : i \in T
<1> DEFINE Missing == {i \in 0..n : i \notin T}
<1>1. SUFFICES ASSUME Missing # {}  PROVE FALSE
  OBVIOUS
<1>2. PICK m \in Missing : \A i \in Missing : m <= i
  <2>1. Missing \subseteq Nat
    OBVIOUS
  <2> HIDE DEF Missing
  <2> QED  BY <1>1, <2>1, LeastOf
<1>3. m \in 1..n /\ m - 1 \in 0..n /\ m - 1 \notin Missing
  BY <1>2
<1> QED  BY <1>2, <1>3

\* What is computed step by step, from a base and by a function for each step.
StepsThrough(g, S, n, base, step) ==
  g \in [0..n -> S] /\ g[0] = base /\ \A i \in 1..n : g[i] = step[i][g[i - 1]]

\* Every such computation has a result.
LEMMA Recursion ==
  ASSUME NEW S, NEW n \in Nat, NEW base \in S, NEW step \in [1..n -> [S -> S]]
  PROVE  \E g : StepsThrough(g, S, n, base, step)
<1> DEFINE T == {m \in 0..n : \E g : StepsThrough(g, S, m, base, step)}
<1>1. 0 \in T
  <2> DEFINE g == [i \in 0..0 |-> base]
  <2>1. StepsThrough(g, S, 0, base, step)
    BY DEF StepsThrough
  <2> QED  BY <2>1
<1>2. ASSUME NEW m \in 1..n, m - 1 \in T  PROVE m \in T
  <2>1. PICK g : StepsThrough(g, S, m - 1, base, step)
    BY <1>2
  <2> DEFINE h == [i \in 0..m |-> IF i = m THEN step[m][g[m - 1]] ELSE g[i]]
  <2>2. g[m - 1] \in S
    BY <2>1 DEF StepsThrough
  <2>3. step[m] \in [S -> S]
    OBVIOUS
  <2>4. step[m][g[m - 1]] \in S
    BY <2>2, <2>3
  <2>5. h \in [0..m -> S] /\ h[0] = base
    BY <2>1, <2>4 DEF StepsThrough
  <2>6. ASSUME NEW i \in 1..m  PROVE h[i] = step[i][h[i - 1]]
    <3>1. CASE i = m
      BY <3>1
    <3>2. CASE i # m
      <4>1. i \in 1..(m - 1) /\ h[i] = g[i] /\ h[i - 1] = g[i - 1]
        BY <3>2
      <4> QED  BY <2>1, <4>1 DEF StepsThrough
    <3> QED  BY <3>1, <3>2
  <2> HIDE DEF h
  <2>7. StepsThrough(h, S, m, base, step)
    BY <2>5, <2>6 DEF StepsThrough
  <2>8. m \in 0..n
    OBVIOUS
  <2> QED  BY <2>7, <2>8
<1>3. n \in T
  <2> HIDE DEF T
  <2>1. \A i \in 0..n : i \in T
    BY <1>1, <1>2, Induction
  <2> QED  BY <2>1
<1> QED  BY <1>3

-----------------------------------------------------------------------------
(***************************************************************************)
(* Sums.                                                                   *)
(***************************************************************************)
\* g has the partial sums of s.
Adds(g, s) ==
  /\ g \in [0..Len(s) -> Int] /\ g[0] = 0
  /\ \A i \in 1..Len(s) : g[i] = g[i - 1] + s[i]

\* Sequences have partial sums.
LEMMA PartialSums ==
  ASSUME NEW s \in Seq(Int)
  PROVE  \E g : Adds(g, s)
<1>1. Len(s) \in Nat /\ \A i \in 1..Len(s) : s[i] \in Int
  BY LenProperties, ElementOfSeq
<1> DEFINE step == [i \in 1..Len(s) |-> [x \in Int |-> x + s[i]]]
<1>2. step \in [1..Len(s) -> [Int -> Int]]
  BY <1>1
<1>3. PICK g : StepsThrough(g, Int, Len(s), 0, step)
  <2> DEFINE n == Len(s)
  <2>1. 0 \in Int /\ n \in Nat /\ step \in [1..n -> [Int -> Int]]
    BY <1>1, <1>2
  <2> HIDE DEF step, n
  <2>2. \E g : StepsThrough(g, Int, n, 0, step)
    BY <2>1, Recursion
  <2> QED  BY <2>2 DEF n
<1>4. ASSUME NEW i \in 1..Len(s)  PROVE g[i] = g[i - 1] + s[i]
  <2>1. i - 1 \in 0..Len(s) /\ g[i - 1] \in Int /\ g[i] = step[i][g[i - 1]]
    <3> HIDE DEF step
    <3> QED  BY <1>1, <1>3 DEF StepsThrough
  <2> QED  BY <1>1, <2>1
<1> QED  BY <1>3, <1>4 DEF Adds, StepsThrough

\* A sum is the last of the partial sums.
LEMMA SumIs ==
  ASSUME NEW s \in Seq(Int), NEW g, Adds(g, s)
  PROVE  SumOf(s) = g[Len(s)]
<1>1. Len(s) \in Nat
  BY LenProperties
<1> DEFINE part[n \in 0..Len(s)] == IF n = 0 THEN 0 ELSE part[n - 1] + s[n]
<1>2. SumOf(s) = part[Len(s)]
  BY DEF SumOf
<1>3. part = CHOOSE f : f = [n \in 0..Len(s) |-> IF n = 0 THEN 0 ELSE f[n - 1] + s[n]]
  OBVIOUS
<1> HIDE DEF part
<1>4. g = [n \in 0..Len(s) |-> IF n = 0 THEN 0 ELSE g[n - 1] + s[n]]
  BY <1>1 DEF Adds
<1>5. part = [n \in 0..Len(s) |-> IF n = 0 THEN 0 ELSE part[n - 1] + s[n]]
  BY <1>3, <1>4
<1> DEFINE T == {i \in 0..Len(s) : part[i] = g[i]}
<1>6. 0 \in T
  BY <1>1, <1>4, <1>5
<1>7. ASSUME NEW i \in 1..Len(s), i - 1 \in T  PROVE i \in T
  BY <1>1, <1>4, <1>5, <1>7, SMTT(60)
<1>8. Len(s) \in T
  <2> HIDE DEF T
  <2>1. \A i \in 0..Len(s) : i \in T
    BY <1>1, <1>6, <1>7, Induction
  <2> QED  BY <1>1, <2>1
<1> QED  BY <1>2, <1>8

\* What is used of a sequence of integers.
LEMMA Terms ==
  ASSUME NEW s \in Seq(Int)
  PROVE  Len(s) \in Nat /\ DOMAIN s = 1..Len(s) /\ \A i \in 1..Len(s) : s[i] \in Int
BY LenProperties, ElementOfSeq

\* What is used of partial sums.
LEMMA AddsUp ==
  ASSUME NEW s \in Seq(Int), NEW g, Adds(g, s)
  PROVE  /\ g[0] = 0 /\ \A i \in 0..Len(s) : g[i] \in Int
         /\ \A i \in 1..Len(s) :
              g[i] = g[i - 1] + s[i] /\ g[i - 1] \in Int /\ g[i] \in Int /\ s[i] \in Int
<1> DEFINE n == Len(s)
<1>1. n \in Nat /\ \A i \in 1..n : s[i] \in Int
  BY Terms
<1>2. g \in [0..n -> Int] /\ g[0] = 0 /\ \A i \in 1..n : g[i] = g[i - 1] + s[i]
  BY DEF Adds
<1> HIDE DEF n
<1>3. \A i \in 1..n : i - 1 \in 0..n /\ i \in 0..n
  BY <1>1
<1>4. \A i \in 0..n : g[i] \in Int
  BY <1>2
<1>5. \A i \in 1..n : g[i] = g[i - 1] + s[i] /\ g[i - 1] \in Int /\ g[i] \in Int /\ s[i] \in Int
  BY <1>1, <1>2, <1>3, <1>4
<1> QED  BY <1>2, <1>4, <1>5 DEF n

\* What makes partial sums, and the sum with them.
LEMMA AddsIf ==
  ASSUME NEW s \in Seq(Int), NEW n \in Nat, n = Len(s), NEW g, g \in [0..n -> Int], g[0] = 0,
         \A i \in 1..n : g[i] = g[i - 1] + s[i]
  PROVE  SumOf(s) = g[n]
<1>1. Adds(g, s)
  BY DEF Adds
<1> QED  BY <1>1, SumIs

\* A sum is an integer, and that of nothing is 0.
LEMMA SumType ==
  ASSUME NEW s \in Seq(Int)
  PROVE  SumOf(s) \in Int /\ (Len(s) = 0 => SumOf(s) = 0)
<1>1. PICK g : Adds(g, s)
  BY PartialSums
<1>2. SumOf(s) = g[Len(s)] /\ Len(s) \in 0..Len(s)
  BY <1>1, SumIs, Terms
<1> QED  BY <1>1, <1>2, AddsUp

\* One more term, at the end.
LEMMA SumGrows ==
  ASSUME NEW s \in Seq(Int), NEW t \in Seq(Int), Len(t) = Len(s) + 1,
         \A i \in 1..Len(s) : t[i] = s[i]
  PROVE  SumOf(t) = SumOf(s) + t[Len(s) + 1]
<1> DEFINE n == Len(s)
<1>1. PICK g : Adds(g, s)
  BY PartialSums
<1>2. /\ n \in Nat /\ Len(t) = n + 1 /\ t[n + 1] \in Int /\ \A i \in 1..n : t[i] = s[i]
      /\ SumOf(s) = g[n]
  BY <1>1, Terms, SumIs
<1>3. g[0] = 0 /\ (\A i \in 0..n : g[i] \in Int) /\ \A i \in 1..n : g[i] = g[i - 1] + s[i]
  BY <1>1, AddsUp
<1> HIDE DEF n
<1> DEFINE h == [i \in 0..(n + 1) |-> IF i = n + 1 THEN g[n] + t[n + 1] ELSE g[i]]
<1>4. h \in [0..(n + 1) -> Int] /\ h[0] = 0
  BY <1>2, <1>3
<1>5. \A i \in 1..(n + 1) : h[i] = h[i - 1] + t[i]
  BY <1>2, <1>3, SMTT(60)
<1>6. h[n + 1] = g[n] + t[n + 1] /\ n + 1 \in Nat
  BY <1>2
<1> HIDE DEF h
<1>7. SumOf(t) = h[n + 1]
  BY <1>2, <1>4, <1>5, <1>6, AddsIf, ZenonT(60)
<1> QED  BY <1>2, <1>6, <1>7 DEF n

\* One less, at the front.
LEMMA SumShifts ==
  ASSUME NEW s \in Seq(Int), NEW t \in Seq(Int), Len(s) = Len(t) + 1,
         \A i \in 1..Len(t) : t[i] = s[i + 1]
  PROVE  SumOf(s) = s[1] + SumOf(t)
<1> DEFINE n == Len(t)
<1>1. PICK g : Adds(g, s)
  BY PartialSums
<1>2. /\ n \in Nat /\ Len(s) = n + 1 /\ (\A i \in 1..n : t[i] = s[i + 1])
      /\ SumOf(s) = g[n + 1] /\ s[1] \in Int
  BY <1>1, Terms, SumIs
<1>3. /\ g[0] = 0 /\ \A i \in 0..(n + 1) : g[i] \in Int
      /\ \A i \in 1..(n + 1) : g[i] = g[i - 1] + s[i]
  BY <1>1, <1>2, AddsUp
<1> HIDE DEF n
<1> DEFINE h == [i \in 0..n |-> g[i + 1] - s[1]]
<1>4. h \in [0..n -> Int] /\ h[0] = 0
  BY <1>2, <1>3
<1>5. ASSUME NEW i \in 1..n  PROVE h[i] = h[i - 1] + t[i]
  <2>1. i \in 0..n /\ i - 1 \in 0..n /\ i + 1 \in 1..(n + 1) /\ t[i] = s[i + 1]
    BY <1>2
  <2>2. g[i + 1] = g[i] + s[i + 1] /\ g[i] \in Int /\ g[i + 1] \in Int
    BY <1>2, <1>3, <2>1
  <2>3. s[i + 1] \in Int
    BY <1>2, <2>1, Terms
  <2>4. h[i] = g[i + 1] - s[1] /\ h[i - 1] = g[i] - s[1]
    BY <2>1
  <2> DEFINE d == s[i + 1]  e == s[1]
  <2>5. /\ h[i] = g[i + 1] - e /\ h[i - 1] = g[i] - e /\ t[i] = d /\ g[i + 1] = g[i] + d
        /\ {g[i], d, e} \subseteq Int
    BY <1>2, <2>1, <2>2, <2>3, <2>4
  <2> HIDE DEF h, d, e
  <2> QED  BY <2>5
<1>6. h[n] = g[n + 1] - s[1] /\ g[n + 1] \in Int
  BY <1>2, <1>3
<1> HIDE DEF h
<1>7. SumOf(t) = h[n]
  BY <1>2, <1>4, <1>5, AddsIf DEF n
<1> QED  BY <1>2, <1>6, <1>7

\* Another term in the place of one.
LEMMA SumChanges ==
  ASSUME NEW s \in Seq(Int), NEW t \in Seq(Int), Len(t) = Len(s), NEW k \in 1..Len(s),
         \A i \in 1..Len(s) : i # k => t[i] = s[i]
  PROVE  SumOf(t) = SumOf(s) + t[k] - s[k]
<1> DEFINE n == Len(s)
<1>1. PICK g : Adds(g, s)
  BY PartialSums
<1>2. /\ n \in Nat /\ n = Len(t) /\ k \in 1..n /\ t[k] \in Int /\ s[k] \in Int
      /\ (\A i \in 1..n : i # k => t[i] = s[i]) /\ SumOf(s) = g[n]
  BY <1>1, Terms, SumIs
<1>3. /\ g[0] = 0 /\ \A i \in 0..n : g[i] \in Int
      /\ \A i \in 1..n : g[i] = g[i - 1] + s[i] /\ s[i] \in Int
  BY <1>1, AddsUp
<1> HIDE DEF n
<1> DEFINE w == t[k] - s[k]
<1>w. w \in Int /\ t[k] = s[k] + w /\ t[k] - s[k] = w
  BY <1>2
<1> HIDE DEF w
<1> DEFINE h == [i \in 0..n |-> IF i < k THEN g[i] ELSE g[i] + w]
<1>4. h \in [0..n -> Int] /\ h[0] = 0
  BY <1>2, <1>3, <1>w, SMTT(60)
<1>5. ASSUME NEW i \in 1..n  PROVE h[i] = h[i - 1] + t[i]
  <2>1. i \in 0..n /\ i - 1 \in 0..n /\ g[i] = g[i - 1] + s[i] /\ s[i] \in Int
        /\ g[i] \in Int /\ g[i - 1] \in Int
    BY <1>2, <1>3, SMTT(60)
  <2>2. CASE i = k
    <3>1. h[i] = g[i] + w /\ h[i - 1] = g[i - 1]
      <4>1. i - 1 < k /\ ~ (i < k)
        BY <1>2, <2>2
      <4> QED  BY <2>1, <4>1
    <3> DEFINE d == s[i]
    <3>2. g[i] = g[i - 1] + d /\ t[i] = d + w /\ {d, w, g[i - 1], g[i]} \subseteq Int
      BY <1>w, <2>1, <2>2
    <3> HIDE DEF h, d
    <3>3. h[i - 1] + t[i] = g[i - 1] + (d + w)
      BY <3>1, <3>2, Zenon
    <3>4. h[i] = (g[i - 1] + d) + w
      BY <3>1, <3>2, Zenon
    <3>5. g[i - 1] \in Int /\ d \in Int /\ w \in Int
      BY <3>2
    <3>6. (g[i - 1] + d) + w = g[i - 1] + (d + w)
      BY <3>5, SMTT(60)
    <3> QED  BY <3>3, <3>4, <3>6, Zenon
  <2>3. CASE i # k
    <3> DEFINE d == s[i]
    <3>1. g[i] = g[i - 1] + d /\ t[i] = d /\ d \in Int
      BY <1>2, <2>1, <2>3
    <3>2. CASE i < k
      <4>1. h[i] = g[i] /\ h[i - 1] = g[i - 1]
        BY <1>2, <2>1, <3>2
      <4> HIDE DEF h, d
      <4> QED  BY <3>1, <4>1
    <3>3. CASE i > k
      <4>1. h[i] = g[i] + w /\ h[i - 1] = g[i - 1] + w
        <5>1. ~ (i - 1 < k) /\ ~ (i < k)
          BY <1>2, <2>3, <3>3
        <5> QED  BY <2>1, <5>1
      <4>2. {d, w, g[i - 1], g[i]} \subseteq Int
        BY <1>w, <2>1
      <4> HIDE DEF h, d
      <4> QED  BY <3>1, <4>1, <4>2, SMTT(60)
    <3> QED  BY <1>2, <2>3, <3>2, <3>3
  <2> QED  BY <2>2, <2>3
<1>6. h[n] = g[n] + w
  BY <1>2
<1>7. g[n] \in Int /\ SumOf(s) = g[n]
  BY <1>2, <1>3
<1> HIDE DEF h
<1>8. SumOf(t) = h[n]
  BY <1>2, <1>4, <1>5, AddsIf
<1> QED  BY <1>2, <1>w, <1>6, <1>7, <1>8

\* Terms that are no greater add up to no more.
LEMMA SumMonotone ==
  ASSUME NEW s \in Seq(Int), NEW t \in Seq(Int), Len(t) = Len(s),
         \A i \in 1..Len(s) : s[i] <= t[i]
  PROVE  SumOf(s) <= SumOf(t)
<1> DEFINE n == Len(s)
<1>1. PICK g : Adds(g, s)
  BY PartialSums
<1>2. PICK h : Adds(h, t)
  BY PartialSums
<1>3. n \in Nat /\ SumOf(s) = g[n] /\ SumOf(t) = h[n] /\ \A i \in 1..n : s[i] <= t[i]
  BY <1>1, <1>2, Terms, SumIs
<1>4. /\ g[0] = 0
      /\ \A i \in 1..n : g[i] = g[i - 1] + s[i] /\ g[i - 1] \in Int /\ s[i] \in Int
  BY <1>1, AddsUp
<1>5. /\ h[0] = 0
      /\ \A i \in 1..n : h[i] = h[i - 1] + t[i] /\ h[i - 1] \in Int /\ t[i] \in Int
  BY <1>2, AddsUp
<1> HIDE DEF n
<1> DEFINE T == {i \in 0..n : g[i] <= h[i]}
<1>6. 0 \in T
  BY <1>3, <1>4, <1>5
<1>7. ASSUME NEW i \in 1..n, i - 1 \in T  PROVE i \in T
  <2>1. i \in 0..n /\ g[i - 1] <= h[i - 1] /\ s[i] <= t[i]
    BY <1>3, <1>7
  <2>2. g[i] = g[i - 1] + s[i] /\ h[i] = h[i - 1] + t[i]
    BY <1>4, <1>5
  <2>3. {g[i - 1], h[i - 1], s[i], t[i]} \subseteq Int
    BY <1>4, <1>5
  <2> DEFINE d == s[i]  e == t[i]
  <2> HIDE DEF d, e
  <2>4. g[i] = g[i - 1] + d /\ h[i] = h[i - 1] + e /\ d <= e /\ {d, e} \subseteq Int
    BY <2>1, <2>2, <2>3 DEF d, e
  <2> QED  BY <2>1, <2>3, <2>4
<1>8. n \in T
  <2> HIDE DEF T
  <2>1. \A i \in 0..n : i \in T
    BY <1>3, <1>6, <1>7, Induction
  <2> QED  BY <1>3, <2>1
<1> QED  BY <1>3, <1>8
-----------------------------------------------------------------------------
(***************************************************************************)
(* A position's quantities.                                                *)
(***************************************************************************)
\* A protocol that sent one slot, with the notional it had filled beside it.
Known(p) == Len(dyn_info[p].fills) = 1

\* Reports reach the position in the order of their keys, and none is missing.
KeysInOrder ==
  /\ last_reported = last_fill_key + Len(rx_fills)
  /\ \A n \in DOMAIN rx_fills : rx_fills[n].key = last_fill_key + n

\* The hash map's entry that a fill is added to exists.
FillsHaveSlots ==
  /\ \A n \in DOMAIN rx_fills : Known(rx_fills[n].protocol)
  /\ \A n \in DOMAIN polled : Known(polled[n].protocol)
  /\ \A n \in DOMAIN deployed : Known(deployed[n].protocol)
  /\ \A n \in DOMAIN request.orders : Known(request.orders[n].protocol)

\* A request that is not stale asks for no more than what is left now.
RequestFits ==
  /\ loop = "running" => request.key = last_fill_key /\ executed_notional < Target
  /\ request.key = last_fill_key => Asked(request.orders) <= Target - executed_notional

\* What was bought and what the last batch can still execute make up no more than
\* the target, besides what that batch was not reduced by.
Capped == bought + Open(deployed) <= Target + behind

PositionInv ==
  BooksNeverUnderstate /\ KeysInOrder /\ FillsHaveSlots /\ RequestFits /\ Capped

\* What a sequence's entries count for, as a sequence of integers.
LEMMA CountsOf ==
  ASSUME NEW n \in Nat, NEW q, DOMAIN q = 1..n, NEW c, c = [m \in DOMAIN q |-> c[m]],
         \A m \in 1..n : c[m] \in Int
  PROVE  c \in Seq(Int) /\ Len(c) = n
<1>1. c \in [1..n -> Int]
  BY Zenon
<1>2. c \in Seq(Int)
  BY <1>1
<1> QED  BY <1>1, <1>2

\* The sums over queues and orders are over sequences of integers.  A queue is one
\* of reports or one of polled fills.
LEMMA QueueSeq ==
  ASSUME NEW S \in {Fills, PolledFills}, NEW q \in Seq(S)
  PROVE  LET c == [n \in DOMAIN q |-> q[n].qty]
         IN c \in Seq(Int) /\ Len(c) = Len(q)
<1> DEFINE c == [n \in DOMAIN q |-> q[n].qty]  l == Len(q)
<1>1. l \in Nat /\ DOMAIN q = 1..l /\ \A n \in 1..l : q[n] \in S
  BY LenProperties, ElementOfSeq
<1> HIDE DEF l
<1>2. DOMAIN c = DOMAIN q /\ \A n \in 1..l : c[n] \in Int
  <2>1. \A f \in S : f.qty \in Int
    <3>1. CASE S = Fills
      BY <3>1 DEF Fills
    <3>2. CASE S = PolledFills
      BY <3>2 DEF PolledFills
    <3> QED  BY <3>1, <3>2
  <2> QED  BY <1>1, <2>1
<1>3. c = [n \in DOMAIN q |-> c[n]]
  OBVIOUS
<1> HIDE DEF c
<1>4. c \in Seq(Int) /\ Len(c) = l
  BY <1>1, <1>2, <1>3, CountsOf
<1> QED  BY <1>4 DEF c, l

\* What deployed orders have executed unheard, and what they can still execute.
LEMMA DeployedSeq ==
  ASSUME NEW q \in Seq(Deployments)
  PROVE  LET c == [n \in DOMAIN q |-> q[n].executed - q[n].told]
             d == [n \in DOMAIN q |-> q[n].qty - q[n].executed]
         IN c \in Seq(Int) /\ Len(c) = Len(q) /\ d \in Seq(Int) /\ Len(d) = Len(q)
<1> DEFINE c == [n \in DOMAIN q |-> q[n].executed - q[n].told]
           d == [n \in DOMAIN q |-> q[n].qty - q[n].executed]  l == Len(q)
<1>1. l \in Nat /\ DOMAIN q = 1..l /\ \A n \in 1..l : q[n] \in Deployments
  BY LenProperties, ElementOfSeq
<1> HIDE DEF l
<1>2. \A n \in 1..l : c[n] \in Int /\ d[n] \in Int
  BY <1>1 DEF Deployments
<1>3. c = [n \in DOMAIN q |-> c[n]] /\ d = [n \in DOMAIN q |-> d[n]]
  OBVIOUS
<1> HIDE DEF c, d
<1>4. c \in Seq(Int) /\ Len(c) = l
  BY <1>1, <1>2, <1>3, CountsOf
<1>5. d \in Seq(Int) /\ Len(d) = l
  BY <1>1, <1>2, <1>3, CountsOf
<1> QED  BY <1>4, <1>5 DEF c, d, l

\* What the venue makes of the quantities asked for.
LEMMA OrdersSeq ==
  ASSUME NEW q \in Seq(Orders)
  PROVE  LET c == [n \in DOMAIN q |-> Wanted(q[n])]
         IN c \in Seq(Int) /\ Len(c) = Len(q)
<1> DEFINE c == [n \in DOMAIN q |-> Wanted(q[n])]  l == Len(q)
<1>1. l \in Nat /\ DOMAIN q = 1..l /\ \A n \in 1..l : q[n] \in Orders
  BY LenProperties, ElementOfSeq
<1> HIDE DEF l
<1>2. \A n \in 1..l : c[n] \in Int
  BY <1>1 DEF Orders, Wanted
<1>3. c = [n \in DOMAIN q |-> c[n]]
  OBVIOUS
<1> HIDE DEF c
<1>4. c \in Seq(Int) /\ Len(c) = l
  BY <1>1, <1>2, <1>3, CountsOf
<1> QED  BY <1>4 DEF c, l

\* A report joins the queue with its quantity.
LEMMA QueueGrows ==
  ASSUME NEW S \in {Fills, PolledFills}, NEW q \in Seq(S), NEW f \in S
  PROVE  Queued(Append(q, f)) = Queued(q) + f.qty
<1> DEFINE r == Append(q, f)  c == [n \in DOMAIN q |-> q[n].qty]  d == [n \in DOMAIN r |-> r[n].qty]
<1>1. r \in Seq(S) /\ Len(r) = Len(q) + 1 /\ Len(q) \in Nat
      /\ (\A n \in 1..Len(q) : r[n] = q[n]) /\ r[Len(q) + 1] = f
  BY AppendProperties, LenProperties
<1>2. c \in Seq(Int) /\ Len(c) = Len(q)
  BY QueueSeq
<1>3. d \in Seq(Int) /\ Len(d) = Len(r)
  <2> HIDE DEF r
  <2> QED  BY <1>1, QueueSeq
<1>4. DOMAIN q = 1..Len(q) /\ DOMAIN r = 1..Len(r)
  BY <1>1, LenProperties
<1> HIDE DEF r
<1>5. (\A n \in 1..Len(q) : d[n] = c[n]) /\ d[Len(q) + 1] = f.qty
  BY <1>1, <1>4
<1> HIDE DEF c, d
<1>6. SumOf(d) = SumOf(c) + d[Len(c) + 1]
  BY <1>1, <1>2, <1>3, <1>5, SumGrows
<1> QED  BY <1>2, <1>5, <1>6 DEF c, d, r, Queued

\* The first of the queue leaves it with its quantity.
LEMMA QueueShrinks ==
  ASSUME NEW S \in {Fills, PolledFills}, NEW q \in Seq(S), q # <<>>
  PROVE  Queued(q) = Head(q).qty + Queued(Tail(q))
<1> DEFINE r == Tail(q)  c == [n \in DOMAIN q |-> q[n].qty]  d == [n \in DOMAIN r |-> r[n].qty]
<1>1. r \in Seq(S) /\ Len(r) = Len(q) - 1 /\ Len(q) \in Nat /\ Len(q) > 0
      /\ (\A n \in 1..Len(r) : r[n] = q[n + 1]) /\ Head(q) = q[1]
  BY HeadTailProperties, LenProperties, EmptySeq
<1>2. c \in Seq(Int) /\ Len(c) = Len(q)
  BY QueueSeq
<1> HIDE DEF r
<1>3. d \in Seq(Int) /\ Len(d) = Len(r)
  BY <1>1, QueueSeq
<1>4. DOMAIN q = 1..Len(q) /\ DOMAIN r = 1..Len(r) /\ Len(r) \in Nat
  BY <1>1, LenProperties
<1>5. (\A n \in 1..Len(r) : d[n] = c[n + 1]) /\ c[1] = Head(q).qty
  BY <1>1, <1>4
<1> HIDE DEF c, d
<1>6. Len(c) = Len(d) + 1 /\ \A n \in 1..Len(d) : d[n] = c[n + 1]
  BY <1>1, <1>2, <1>3, <1>4, <1>5
<1>7. SumOf(c) = c[1] + SumOf(d)
  BY <1>2, <1>3, <1>6, SumShifts
<1> QED  BY <1>5, <1>7 DEF c, d, r, Queued
\* One deployed order in the place of another.
LEMMA OrderChanges ==
  ASSUME NEW q \in Seq(Deployments), NEW k \in DOMAIN q, NEW d \in Deployments
  PROVE  LET r == [q EXCEPT ![k] = d]
         IN /\ r \in Seq(Deployments) /\ Len(r) = Len(q) /\ DOMAIN r = DOMAIN q
            /\ \A n \in DOMAIN q : r[n] = IF n = k THEN d ELSE q[n]
            /\ Untold(r) = Untold(q) + (d.executed - d.told) - (q[k].executed - q[k].told)
            /\ Open(r) = Open(q) + (d.qty - d.executed) - (q[k].qty - q[k].executed)
<1> DEFINE r == [q EXCEPT ![k] = d]
           c == [n \in DOMAIN q |-> q[n].executed - q[n].told]
           e == [n \in DOMAIN r |-> r[n].executed - r[n].told]
           o == [n \in DOMAIN q |-> q[n].qty - q[n].executed]
           p == [n \in DOMAIN r |-> r[n].qty - r[n].executed]
<1>1. k \in 1..Len(q) /\ DOMAIN q = 1..Len(q)
  BY LenProperties
<1>2. r \in Seq(Deployments) /\ Len(r) = Len(q) /\ \A n \in 1..Len(q) : r[n] = IF n = k THEN d ELSE q[n]
  BY <1>1, ExceptSeq
<1> HIDE DEF r
<1>3. DOMAIN r = 1..Len(q)
  BY <1>2, LenProperties
<1>4. c \in Seq(Int) /\ Len(c) = Len(q) /\ o \in Seq(Int) /\ Len(o) = Len(q)
  BY DeployedSeq
<1>5. e \in Seq(Int) /\ Len(e) = Len(q) /\ p \in Seq(Int) /\ Len(p) = Len(q)
  BY <1>2, DeployedSeq
<1>6. /\ \A n \in 1..Len(q) : n # k => e[n] = c[n]
      /\ \A n \in 1..Len(q) : n # k => p[n] = o[n]
  BY <1>1, <1>2, <1>3
<1>7. /\ e[k] = d.executed - d.told /\ c[k] = q[k].executed - q[k].told
      /\ p[k] = d.qty - d.executed /\ o[k] = q[k].qty - q[k].executed
  BY <1>1, <1>2, <1>3
<1> HIDE DEF c, e, o, p
<1>8. SumOf(e) = SumOf(c) + e[k] - c[k]
  BY <1>1, <1>4, <1>5, <1>6, SumChanges, SMTT(60)
<1>9. SumOf(p) = SumOf(o) + p[k] - o[k]
  BY <1>1, <1>4, <1>5, <1>6, SumChanges, SMTT(60)
<1> QED
  <2>1. Untold(q) = SumOf(c) /\ Untold(r) = SumOf(e)
    BY DEF Untold, c, e
  <2>2. Open(q) = SumOf(o) /\ Open(r) = SumOf(p)
    BY DEF Open, o, p
  <2>3. Untold(r) = Untold(q) + (d.executed - d.told) - (q[k].executed - q[k].told)
    BY <1>7, <1>8, <2>1, Zenon
  <2>4. Open(r) = Open(q) + (d.qty - d.executed) - (q[k].qty - q[k].executed)
    BY <1>7, <1>9, <2>2, Zenon
  <2> QED  BY <1>1, <1>2, <1>3, <2>3, <2>4 DEF r

\* What queues and orders add up to is an integer.
LEMMA QuantityTypes ==
  /\ \A q \in Seq(Fills) \union Seq(PolledFills) : Queued(q) \in Int
  /\ \A q \in Seq(Deployments) : Untold(q) \in Int /\ Open(q) \in Int
  /\ \A q \in Seq(Orders) : Asked(q) \in Int
<1>1. ASSUME NEW S \in {Fills, PolledFills}, NEW q \in Seq(S)  PROVE Queued(q) \in Int
  BY QueueSeq, SumType DEF Queued
<1>2. ASSUME NEW q \in Seq(Deployments)  PROVE Untold(q) \in Int /\ Open(q) \in Int
  BY DeployedSeq, SumType DEF Untold, Open
<1>3. ASSUME NEW q \in Seq(Orders)  PROVE Asked(q) \in Int
  BY OrdersSeq, SumType DEF Asked
<1> QED  BY <1>1, <1>2, <1>3

\* Nothing but zeros adds up to zero.
LEMMA SumOfZeros ==
  ASSUME NEW s \in Seq(Int), \A n \in 1..Len(s) : s[n] = 0
  PROVE  SumOf(s) = 0
<1> DEFINE n == Len(s)  g == [i \in 0..n |-> 0]
<1>1. n \in Nat /\ n = Len(s)
  BY LenProperties
<1>2. \A i \in 1..n : s[i] = 0
  OBVIOUS
<1> HIDE DEF n
<1>3. g \in [0..n -> Int] /\ g[0] = 0 /\ g[n] = 0
  BY <1>1
<1>4. \A i \in 1..n : g[i] = g[i - 1] + s[i]
  BY <1>1, <1>2
<1> HIDE DEF g
<1>5. SumOf(s) = g[n]
  BY <1>1, <1>3, <1>4, AddsIf, ZenonT(60)
<1> QED  BY <1>3, <1>5

\* Terms that are not negative do not add up to less than zero.
LEMMA SumNotNegative ==
  ASSUME NEW s \in Seq(Int), \A n \in 1..Len(s) : s[n] >= 0
  PROVE  SumOf(s) >= 0
<1> DEFINE l == Len(s)  z == [n \in 1..l |-> 0]
<1>1. l \in Nat /\ \A n \in 1..l : s[n] >= 0
  BY LenProperties
<1> HIDE DEF l
<1>2. z \in Seq(Int) /\ Len(z) = l /\ \A n \in 1..l : z[n] = 0
  BY <1>1
<1> HIDE DEF z
<1>3. SumOf(z) = 0
  BY <1>2, SumOfZeros
<1>4. SumOf(z) <= SumOf(s)
  BY <1>1, <1>2, SumMonotone DEF l
<1> QED  BY <1>3, <1>4

\* What was told of an order was executed, and no more than its quantity was.
Ordered(q) ==
  \A n \in DOMAIN q : q[n].told <= q[n].executed /\ q[n].executed <= q[n].qty

\* So neither what is untold nor what is open is less than nothing.
LEMMA NothingNegative ==
  ASSUME NEW q \in Seq(Deployments), Ordered(q)
  PROVE  Untold(q) \in Nat /\ Open(q) \in Nat
<1> DEFINE c == [n \in DOMAIN q |-> q[n].executed - q[n].told]
           d == [n \in DOMAIN q |-> q[n].qty - q[n].executed]
<1>1. c \in Seq(Int) /\ Len(c) = Len(q) /\ d \in Seq(Int) /\ Len(d) = Len(q)
  BY DeployedSeq
<1>2. ASSUME NEW n \in 1..Len(q)  PROVE c[n] >= 0 /\ d[n] >= 0
  <2>1. n \in DOMAIN q /\ q[n] \in Deployments
    BY LenProperties, ElementOfSeq
  <2>2. q[n].told <= q[n].executed /\ q[n].executed <= q[n].qty
    BY <2>1 DEF Ordered
  <2> QED  BY <2>1, <2>2 DEF Deployments
<1> HIDE DEF c, d
<1>3. SumOf(c) >= 0 /\ SumOf(c) \in Int
  BY <1>1, <1>2, SumNotNegative, SumType
<1>4. SumOf(d) >= 0 /\ SumOf(d) \in Int
  BY <1>1, <1>2, SumNotNegative, SumType
<1> QED  BY <1>3, <1>4 DEF Untold, Open, c, d

\* A batch is deployed with nothing executed, and can execute no more than what
\* was asked for, whatever becomes of each post.
LEMMA BatchPosted ==
  ASSUME NEW q \in Seq(Orders), NEW fates
  PROVE  LET r == [n \in DOMAIN q |-> Posted(q[n], fates[n])]
         IN /\ r \in Seq(Deployments) /\ DOMAIN r = DOMAIN q /\ Ordered(r)
            /\ \A n \in DOMAIN q : r[n].protocol = q[n].protocol
            /\ Untold(r) = 0 /\ Open(r) <= Asked(q)
<1> DEFINE r == [n \in DOMAIN q |-> Posted(q[n], fates[n])]
           c == [n \in DOMAIN r |-> r[n].executed - r[n].told]
           o == [n \in DOMAIN r |-> r[n].qty - r[n].executed]
           a == [n \in DOMAIN q |-> Wanted(q[n])]
<1>1. Len(q) \in Nat /\ DOMAIN q = 1..Len(q) /\ \A n \in 1..Len(q) : q[n] \in Orders
  BY LenProperties, ElementOfSeq
<1>2. ASSUME NEW n \in 1..Len(q)
      PROVE  /\ Posted(q[n], fates[n]) \in Deployments /\ Wanted(q[n]) \in Nat
             /\ Posted(q[n], fates[n]).executed = 0 /\ Posted(q[n], fates[n]).told = 0
             /\ Posted(q[n], fates[n]).qty <= Wanted(q[n]) /\ Posted(q[n], fates[n]).qty \in Nat
             /\ Posted(q[n], fates[n]).protocol = q[n].protocol
  <2>1. /\ q[n].protocol \in Protocols /\ q[n].ordinal \in {1} /\ q[n].qty \in Int
    BY <1>1 DEF Orders
  <2> DEFINE w == Wanted(q[n])  v == IF fates[n] = "posted" THEN w ELSE 0
  <2>2. w \in Nat
    BY <2>1 DEF Wanted
  <2> HIDE DEF w
  <2>3. v \in Nat /\ v <= w /\ (v > 0) \in BOOLEAN
    BY <2>2
  <2>4. Posted(q[n], fates[n]) = [protocol |-> q[n].protocol, ordinal |-> q[n].ordinal, qty |-> v,
                                  executed |-> 0, told |-> 0, listed |-> v > 0]
    BY DEF Posted, w
  <2> HIDE DEF v
  <2>5. 0 \in Nat
    OBVIOUS
  <2> QED  BY <2>1, <2>2, <2>3, <2>4, <2>5 DEF Deployments, w
<1>3. r \in Seq(Deployments)
  <2> DEFINE l == Len(q)
  <2>1. r = [n \in 1..l |-> Posted(q[n], fates[n])] /\ l \in Nat
        /\ \A n \in 1..l : Posted(q[n], fates[n]) \in Deployments
    BY <1>1, <1>2
  <2> HIDE DEF l, r
  <2> QED  BY <2>1
<1>4. DOMAIN r = DOMAIN q /\ \A n \in DOMAIN q : r[n] = Posted(q[n], fates[n])
  OBVIOUS
<1> HIDE DEF r
<1>5. c \in Seq(Int) /\ Len(c) = Len(r) /\ o \in Seq(Int) /\ Len(o) = Len(r)
  BY <1>3, DeployedSeq
<1>6. Len(r) = Len(q)
  BY <1>1, <1>3, <1>4, LenProperties
<1>7. \A n \in 1..Len(q) : r[n].executed = 0 /\ r[n].told = 0 /\ r[n].qty \in Nat
                            /\ r[n].qty <= Wanted(q[n]) /\ r[n].protocol = q[n].protocol
  BY <1>1, <1>2, <1>4
<1>8. SumOf(c) = 0
  <2>1. \A n \in 1..Len(c) : c[n] = 0
    BY <1>1, <1>4, <1>5, <1>6, <1>7
  <2> HIDE DEF c
  <2> QED  BY <1>5, <2>1, SumOfZeros
<1>9. SumOf(o) <= SumOf(a)
  <2>1. a \in Seq(Int) /\ Len(a) = Len(q)
    BY OrdersSeq
  <2>2. \A n \in 1..Len(o) : o[n] <= a[n]
    BY <1>1, <1>4, <1>5, <1>6, <1>7
  <2> HIDE DEF o, a
  <2> QED  BY <1>5, <1>6, <2>1, <2>2, SumMonotone
<1>10. Ordered(r)
  BY <1>1, <1>4, <1>7 DEF Ordered
<1> QED
  <2>1. \A n \in DOMAIN q : r[n].protocol = q[n].protocol
    BY <1>1, <1>7
  <2> QED  BY <1>3, <1>4, <1>8, <1>9, <1>10, <2>1 DEF Untold, Open, Asked, r

\* What became of orders whose answer was lost is some quantity.
LEMMA UnansweredType ==
  ASSUME TypeOK, NEW faulty \in BOOLEAN, NEW fates \in Fates(faulty)
  PROVE  Unanswered(fates) \in Nat
<1> DEFINE q == request.orders
           u == [n \in DOMAIN fates |-> IF fates[n] = "unanswered" THEN Wanted(q[n]) ELSE 0]
<1>1. q \in Seq(Orders) /\ DOMAIN fates = DOMAIN q
  BY DEF TypeOK, Fates
<1>2. Len(q) \in Nat /\ DOMAIN q = 1..Len(q) /\ \A n \in 1..Len(q) : q[n] \in Orders
  BY <1>1, LenProperties, ElementOfSeq
<1>3. ASSUME NEW n \in 1..Len(q)  PROVE u[n] \in Int /\ u[n] >= 0
  <2>1. Wanted(q[n]) \in Nat
    BY <1>2 DEF Orders, Wanted
  <2>2. u[n] = IF fates[n] = "unanswered" THEN Wanted(q[n]) ELSE 0
    BY <1>1, <1>2
  <2> HIDE DEF u
  <2> QED  BY <2>1, <2>2
<1>4. u = [n \in DOMAIN q |-> u[n]]
  BY <1>1
<1> HIDE DEF u
<1>5. u \in Seq(Int) /\ Len(u) = Len(q)
  <2> DEFINE l == Len(q)
  <2>1. l \in Nat /\ DOMAIN q = 1..l /\ \A m \in 1..l : u[m] \in Int
    BY <1>2, <1>3
  <2> HIDE DEF l, q
  <2>2. u \in Seq(Int) /\ Len(u) = l
    BY <1>4, <2>1, CountsOf
  <2> QED  BY <2>2 DEF l
<1>6. SumOf(u) >= 0 /\ SumOf(u) \in Int
  BY <1>3, <1>5, SumNotNegative, SumType
<1> QED  BY <1>6 DEF Unanswered, u

-----------------------------------------------------------------------------
(***************************************************************************)
(* What the exchange does keeps the invariant.                             *)
(***************************************************************************)
\* What follows a part of a batch is a batch.
LEMMA RestOf ==
  ASSUME NEW q \in Seq(Deployments), Ordered(q), NEW c \in 0..Len(q)
  PROVE  Open(SubSeq(q, c + 1, Len(q))) \in Nat
<1> DEFINE l == Len(q)  k == l - c  r == SubSeq(q, c + 1, l)
<1>1. l \in Nat /\ c \in Nat /\ c <= l /\ k \in Nat /\ DOMAIN q = 1..l
  BY LenProperties
<1>2. \A n \in 1..l : q[n] \in Deployments
  BY ElementOfSeq
<1>3. r = [n \in 1..k |-> q[c + n]]
  <2>1. r = [n \in 1..(l - (c + 1) + 1) |-> q[(c + 1) + n - 1]]
    BY <1>1 DEF SubSeq
  <2>2. l - (c + 1) + 1 = k /\ \A n \in 1..k : (c + 1) + n - 1 = c + n
    BY <1>1
  <2> HIDE DEF l, k, r
  <2> QED  BY <2>1, <2>2
<1> HIDE DEF r, l
<1>4. \A n \in 1..k : c + n \in 1..l
  BY <1>1
<1> HIDE DEF k
<1>5. \A n \in 1..k : r[n] = q[c + n] /\ r[n] \in Deployments
  BY <1>2, <1>3, <1>4
<1>6. r \in Seq(Deployments) /\ DOMAIN r = 1..k
  BY <1>1, <1>3, <1>5
<1>7. Ordered(r)
  BY <1>1, <1>4, <1>5, <1>6 DEF Ordered
<1>8. Open(r) \in Nat
  BY <1>6, <1>7, NothingNegative
<1> QED  BY <1>8 DEF r, l

\* All quantities are integers, and those that count something natural numbers.
LEMMA Numbers ==
  ASSUME TypeOK
  PROVE  /\ bought \in Nat /\ lost \in Nat /\ behind \in Nat /\ astray \in Nat /\ faults \in Nat
         /\ executed_notional \in Nat /\ Target \in Nat
         /\ Queued(rx_fills) \in Int /\ Queued(polled) \in Int /\ Reported \in Int
         /\ Untold(deployed) \in Nat /\ Open(deployed) \in Nat
<1>1. /\ bought \in Nat /\ lost \in Nat /\ behind \in Nat /\ astray \in Nat /\ faults \in Nat
      /\ executed_notional \in Nat
  BY DEF TypeOK
<1>2. Target \in Nat
  BY PositionAssumption
<1>3. rx_fills \in Seq(Fills) /\ polled \in Seq(PolledFills)
  BY DEF TypeOK
<1>4. Queued(rx_fills) \in Int /\ Queued(polled) \in Int
  BY <1>3, QuantityTypes
<1>5. Reported \in Int
  BY <1>1, <1>4 DEF Reported
<1>6. deployed \in Seq(Deployments) /\ Ordered(deployed)
  BY DEF TypeOK, Ordered
<1>7. Untold(deployed) \in Nat /\ Open(deployed) \in Nat
  BY <1>6, NothingNegative
<1> QED  BY <1>1, <1>2, <1>4, <1>5, <1>7

\* A request that is deployed is not stale, so nothing was reported since it was
\* made; whatever was executed besides, its batch is not reduced by.
LEMMA DeployInv ==
  ASSUME PositionInv, Deploy
  PROVE  PositionInv'
<1> USE DEF PositionInv, BooksNeverUnderstate
<1>1. CASE ~Current
  <2>1. /\ UNCHANGED <<positionVars, deployed, astray, lost, behind, faults>>
        /\ UNCHANGED <<rx_fills, polled, last_reported, bought>>
        /\ deployable' \in BOOLEAN
    BY <1>1 DEF Deploy
  <2>2. TypeOK'
    BY <2>1 DEF TypeOK, positionVars
  <2> QED  BY <2>1, <2>2 DEF positionVars, KeysInOrder, FillsHaveSlots, Known, RequestFits, Capped, Reported
<1>2. CASE Current
  <2>1. PICK c \in 0..Len(deployed), faulty \in BOOLEAN :
          \E fates \in Fates(faulty) :
            /\ deployed' = [n \in DOMAIN request.orders |-> Posted(request.orders[n], fates[n])]
            /\ astray' = astray + Open(SubSeq(deployed, c + 1, Len(deployed))) + Unanswered(fates)
            /\ lost' = lost + Untold(deployed)
            /\ behind' = IF bought > Reported THEN bought - Reported ELSE 0
            /\ faults' = IF faulty THEN faults + 1 ELSE faults
    BY <1>2 DEF Deploy
  <2>2. PICK fates \in Fates(faulty) :
            /\ deployed' = [n \in DOMAIN request.orders |-> Posted(request.orders[n], fates[n])]
            /\ astray' = astray + Open(SubSeq(deployed, c + 1, Len(deployed))) + Unanswered(fates)
            /\ lost' = lost + Untold(deployed)
            /\ behind' = IF bought > Reported THEN bought - Reported ELSE 0
            /\ faults' = IF faulty THEN faults + 1 ELSE faults
    BY <2>1
  <2>3. /\ deployable' \in BOOLEAN
        /\ UNCHANGED <<positionVars, rx_fills, polled, last_reported, bought>>
    BY DEF Deploy
  <2>4. /\ deployed' \in Seq(Deployments) /\ DOMAIN deployed' = DOMAIN request.orders
        /\ \A n \in DOMAIN request.orders : deployed'[n].protocol = request.orders[n].protocol
        /\ Ordered(deployed') /\ Untold(deployed') = 0 /\ Open(deployed') <= Asked(request.orders)
    <3> DEFINE batch == [n \in DOMAIN request.orders |-> Posted(request.orders[n], fates[n])]
    <3>1. request.orders \in Seq(Orders)
      BY DEF TypeOK
    <3>2. /\ batch \in Seq(Deployments) /\ DOMAIN batch = DOMAIN request.orders
          /\ \A n \in DOMAIN request.orders : batch[n].protocol = request.orders[n].protocol
          /\ Ordered(batch) /\ Untold(batch) = 0 /\ Open(batch) <= Asked(request.orders)
      BY <3>1, BatchPosted
    <3>3. deployed' = batch
      BY <2>2
    <3> HIDE DEF batch
    <3> QED  BY <3>2, <3>3, Zenon
  <2>5. /\ Asked(request.orders) \in Int /\ Queued(rx_fills) \in Int /\ Queued(polled) \in Int
        /\ Open(deployed') \in Int
        /\ bought \in Nat /\ lost \in Nat /\ executed_notional \in Nat /\ Target \in Nat
        /\ astray \in Nat /\ faults \in Nat
    BY <2>4, QuantityTypes, PositionAssumption DEF TypeOK
  <2>6. /\ Untold(deployed) \in Nat /\ Unanswered(fates) \in Nat
        /\ Open(SubSeq(deployed, c + 1, Len(deployed))) \in Nat
    <3>1. deployed \in Seq(Deployments) /\ Ordered(deployed)
      BY DEF TypeOK, Ordered
    <3> QED  BY <2>1, <2>2, <3>1, NothingNegative, RestOf, UnansweredType
  <2>7. request.key = last_fill_key /\ Len(rx_fills) = 0
    <3>1. request.key = last_reported /\ last_reported = last_fill_key + Len(rx_fills)
      BY <1>2 DEF Current, KeysInOrder
    <3>2. request.key \in 0..last_fill_key /\ Len(rx_fills) \in Nat /\ last_fill_key \in Nat
      BY LenProperties DEF TypeOK
    <3> QED  BY <3>1, <3>2
  <2>8. Queued(rx_fills) = 0 /\ Reported = executed_notional
    <3>1. Queued(rx_fills) = 0
      BY <2>7, QueueSeq, SumType DEF Queued, TypeOK
    <3> QED  BY <2>5, <3>1 DEF Reported
  <2>9. /\ behind' \in Nat /\ bought - executed_notional <= behind'
    BY <2>2, <2>5, <2>8
  <2>10. astray' \in Nat /\ lost' \in Nat /\ faults' \in Nat
    <3> DEFINE o == Open(SubSeq(deployed, c + 1, Len(deployed)))  u == Unanswered(fates)
               t == Untold(deployed)
    <3>1. o \in Nat /\ u \in Nat /\ t \in Nat /\ astray' = astray + o + u /\ lost' = lost + t
      BY <2>2, <2>6
    <3> HIDE DEF o, u, t
    <3> QED  BY <2>2, <2>5, <3>1
  <2>11. TypeOK'
    BY <2>3, <2>4, <2>9, <2>10 DEF TypeOK, positionVars, Ordered
  <2>12. bought' <= Reported' + Queued(polled') + Untold(deployed') + lost'
    <3> DEFINE t == Untold(deployed)
    <3>1. bought <= executed_notional + Queued(polled) + t + lost
      BY <2>8
    <3>2. /\ Reported' = executed_notional /\ Queued(polled') = Queued(polled)
          /\ Untold(deployed') = 0 /\ lost' = lost + t /\ bought' = bought /\ t \in Nat
      BY <2>2, <2>3, <2>4, <2>6, <2>8 DEF Reported, positionVars
    <3> HIDE DEF t
    <3> QED  BY <2>5, <3>1, <3>2
  <2>13. Capped'
    <3>1. Asked(request.orders) <= Target - executed_notional
      BY <2>7 DEF RequestFits
    <3> QED  BY <2>3, <2>4, <2>5, <2>9, <3>1, SMTT(60) DEF Capped
  <2>14. FillsHaveSlots'
    BY <2>3, <2>4 DEF FillsHaveSlots, Known, positionVars
  <2>15. KeysInOrder' /\ RequestFits'
    BY <2>3 DEF KeysInOrder, RequestFits, positionVars
  <2> QED  BY <2>11, <2>12, <2>13, <2>14, <2>15
<1> QED  BY <1>1, <1>2

\* What is executed was open, and is untold at first.
LEMMA ExecuteInv ==
  ASSUME PositionInv, Execute
  PROVE  PositionInv'
<1> USE DEF PositionInv, BooksNeverUnderstate
<1>0. PICK k \in DOMAIN deployed :
           \E e \in (deployed[k].executed + 1)..deployed[k].qty :
             /\ deployed' = [deployed EXCEPT ![k].executed = e]
             /\ bought' = bought + (e - deployed[k].executed)
  BY DEF Execute
<1>1. PICK e \in (deployed[k].executed + 1)..deployed[k].qty :
           /\ deployed' = [deployed EXCEPT ![k].executed = e]
           /\ bought' = bought + (e - deployed[k].executed)
  BY <1>0
<1>2. UNCHANGED <<positionVars, deployable, rx_fills, astray, polled, last_reported, faults, behind, lost>>
  BY DEF Execute
<1> DEFINE d == [deployed[k] EXCEPT !.executed = e]
<1>3. deployed[k] \in Deployments /\ deployed[k].told <= deployed[k].executed
      /\ deployed[k].executed <= deployed[k].qty
  BY LenProperties, ElementOfSeq DEF TypeOK
<1>4. d \in Deployments /\ d.executed = e /\ d.told = deployed[k].told /\ d.qty = deployed[k].qty
      /\ d.protocol = deployed[k].protocol
  BY <1>3 DEF Deployments
<1>5. deployed' = [deployed EXCEPT ![k] = d]
  BY <1>1
<1>6. deployed[k].told \in Nat /\ deployed[k].executed \in Nat /\ deployed[k].qty \in Nat
      /\ e \in Nat /\ deployed[k].executed < e /\ e <= deployed[k].qty
  BY <1>3 DEF Deployments
<1> HIDE DEF d
<1>7. /\ deployed' \in Seq(Deployments) /\ Len(deployed') = Len(deployed)
      /\ DOMAIN deployed' = DOMAIN deployed
      /\ \A n \in DOMAIN deployed : deployed'[n] = IF n = k THEN d ELSE deployed[n]
      /\ Untold(deployed') = Untold(deployed) + (d.executed - d.told)
                               - (deployed[k].executed - deployed[k].told)
      /\ Open(deployed') = Open(deployed) + (d.qty - d.executed)
                               - (deployed[k].qty - deployed[k].executed)
  BY <1>4, <1>5, OrderChanges, ZenonT(60) DEF TypeOK
<1>8. /\ Untold(deployed) \in Nat /\ Open(deployed) \in Nat /\ Reported \in Int
      /\ Queued(polled) \in Int /\ behind \in Nat /\ Reported' = Reported
      /\ bought \in Nat /\ lost \in Nat /\ executed_notional \in Nat /\ Target \in Nat
  <2>1. Reported' = Reported
    BY <1>2 DEF Reported, positionVars
  <2> QED  BY <2>1, Numbers
<1>9. bought' \in Nat
  BY <1>1, <1>6, <1>8
<1>10. TypeOK'
  <2>1. \A n \in DOMAIN deployed' :
          deployed'[n].told <= deployed'[n].executed /\ deployed'[n].executed <= deployed'[n].qty
    <3> SUFFICES ASSUME NEW n \in DOMAIN deployed
                 PROVE  /\ deployed'[n].told <= deployed'[n].executed
                        /\ deployed'[n].executed <= deployed'[n].qty
      BY <1>7
    <3>1. CASE n = k
      BY <1>3, <1>4, <1>6, <1>7, <3>1, SMTT(60)
    <3>2. CASE n # k
      BY <1>7, <3>2 DEF TypeOK
    <3> QED  BY <3>1, <3>2
  <2> QED  BY <1>2, <1>7, <1>9, <2>1 DEF TypeOK, positionVars
<1> DEFINE t == deployed[k].told  x == deployed[k].executed  y == deployed[k].qty
<1>a. t \in Nat /\ x \in Nat /\ y \in Nat /\ e \in Nat /\ bought' = bought + (e - x)
  BY <1>1, <1>6
<1>b. /\ Untold(deployed') = Untold(deployed) + (e - t) - (x - t)
      /\ Open(deployed') = Open(deployed) + (y - e) - (y - x)
  BY <1>4, <1>7, Zenon
<1> HIDE DEF t, x, y
<1>11. bought' <= Reported' + Queued(polled') + Untold(deployed') + lost'
  BY <1>2, <1>8, <1>a, <1>b
<1>12. Capped'
  BY <1>2, <1>8, <1>a, <1>b DEF Capped
<1>13. FillsHaveSlots'
  <2>1. \A n \in DOMAIN deployed : deployed'[n].protocol = deployed[n].protocol
    BY <1>4, <1>7
  <2> QED  BY <1>2, <1>7, <2>1 DEF FillsHaveSlots, Known, positionVars
<1>14. KeysInOrder' /\ RequestFits'
  BY <1>2 DEF KeysInOrder, RequestFits, positionVars
<1> QED  BY <1>10, <1>11, <1>12, <1>13, <1>14

\* What forgotten orders execute is lost at once.
LEMMA ExecuteAstrayInv ==
  ASSUME PositionInv, ExecuteAstray
  PROVE  PositionInv'
<1> USE DEF PositionInv, BooksNeverUnderstate
<1>1. PICK e \in 1..astray : astray' = astray - e /\ bought' = bought + e /\ behind' = behind + e
                             /\ lost' = lost + e
  BY DEF ExecuteAstray
<1>2. UNCHANGED <<positionVars, deployable, rx_fills, deployed, polled, last_reported, faults>>
  BY DEF ExecuteAstray
<1>3. /\ Untold(deployed) \in Nat /\ Open(deployed) \in Nat /\ Reported \in Int
      /\ Queued(polled) \in Int /\ Reported' = Reported /\ Target \in Nat
      /\ bought \in Nat /\ lost \in Nat /\ behind \in Nat /\ astray \in Nat /\ executed_notional \in Nat
  <2>1. Reported' = Reported
    BY <1>2 DEF Reported, positionVars
  <2> QED  BY <2>1, Numbers
<1>4. astray' \in Nat /\ bought' \in Nat /\ behind' \in Nat /\ lost' \in Nat
  BY <1>1, <1>3
<1>5. TypeOK'
  BY <1>2, <1>4 DEF TypeOK, positionVars
<1>6. bought' <= Reported' + Queued(polled') + Untold(deployed') + lost'
  BY <1>1, <1>2, <1>3
<1>7. Capped'
  BY <1>1, <1>2, <1>3 DEF Capped
<1>8. FillsHaveSlots' /\ KeysInOrder' /\ RequestFits'
  BY <1>2 DEF FillsHaveSlots, Known, KeysInOrder, RequestFits, positionVars
<1> QED  BY <1>5, <1>6, <1>7, <1>8

\* What is polled of an order is all it has executed, and untold no more.
LEMMA PollInv ==
  ASSUME PositionInv, Poll
  PROVE  PositionInv'
<1> USE DEF PositionInv, BooksNeverUnderstate
<1>1. PICK k \in DOMAIN deployed :
           /\ polled' = Append(polled, [protocol |-> deployed[k].protocol, ordinal |-> deployed[k].ordinal,
                                        qty |-> deployed[k].executed, filled |-> Filled(deployed[k])])
           /\ deployed' = [deployed EXCEPT ![k].told = deployed[k].executed]
  BY DEF Poll
<1>2. UNCHANGED <<positionVars, deployable, rx_fills, astray, last_reported, faults, bought, behind, lost>>
  BY DEF Poll
<1> DEFINE d == [deployed[k] EXCEPT !.told = deployed[k].executed]
           f == [protocol |-> deployed[k].protocol, ordinal |-> deployed[k].ordinal,
                 qty |-> deployed[k].executed, filled |-> Filled(deployed[k])]
<1>3. deployed[k] \in Deployments /\ deployed[k].told <= deployed[k].executed
      /\ deployed[k].executed <= deployed[k].qty
  BY LenProperties, ElementOfSeq DEF TypeOK
<1>4. d \in Deployments /\ d.executed = deployed[k].executed /\ d.told = deployed[k].executed
      /\ d.qty = deployed[k].qty /\ d.protocol = deployed[k].protocol
  BY <1>3 DEF Deployments
<1>5. deployed' = [deployed EXCEPT ![k] = d]
  BY <1>1
<1>6. deployed[k].told \in Nat /\ deployed[k].executed \in Nat /\ deployed[k].qty \in Nat
  BY <1>3 DEF Deployments
<1> HIDE DEF d
<1>7. /\ deployed' \in Seq(Deployments) /\ Len(deployed') = Len(deployed)
      /\ DOMAIN deployed' = DOMAIN deployed
      /\ \A n \in DOMAIN deployed : deployed'[n] = IF n = k THEN d ELSE deployed[n]
      /\ Untold(deployed') = Untold(deployed) + (d.executed - d.told)
                               - (deployed[k].executed - deployed[k].told)
      /\ Open(deployed') = Open(deployed) + (d.qty - d.executed)
                               - (deployed[k].qty - deployed[k].executed)
  BY <1>4, <1>5, OrderChanges, ZenonT(60) DEF TypeOK
<1>8. /\ Untold(deployed) \in Nat /\ Open(deployed) \in Nat /\ Reported \in Int
      /\ Queued(polled) \in Int /\ behind \in Nat /\ Reported' = Reported
      /\ bought \in Nat /\ lost \in Nat /\ executed_notional \in Nat /\ Target \in Nat
  <2>1. Reported' = Reported
    BY <1>2 DEF Reported, positionVars
  <2> QED  BY <2>1, Numbers
<1>9. f \in PolledFills /\ f.qty = deployed[k].executed /\ f.protocol = deployed[k].protocol
  <2>1. Filled(deployed[k]) \in BOOLEAN
    BY DEF Filled
  <2>2. deployed[k].protocol \in Protocols /\ deployed[k].ordinal \in {1} /\ deployed[k].executed \in Nat
    BY <1>3 DEF Deployments
  <2> QED  BY <2>1, <2>2 DEF PolledFills
<1>10. polled' = Append(polled, f)
  BY <1>1
<1> HIDE DEF f
<1>11. /\ polled' \in Seq(PolledFills) /\ DOMAIN polled' = 1..(Len(polled) + 1)
       /\ DOMAIN polled = 1..Len(polled) /\ Len(polled) \in Nat
       /\ (\A n \in 1..Len(polled) : polled'[n] = polled[n]) /\ polled'[Len(polled) + 1] = f
       /\ Queued(polled') = Queued(polled) + f.qty
  <2>1. polled \in Seq(PolledFills)
    BY DEF TypeOK
  <2>2. Queued(polled') = Queued(polled) + f.qty
    BY <1>9, <1>10, <2>1, QueueGrows
  <2>3. polled' \in Seq(PolledFills) /\ Len(polled') = Len(polled) + 1
    BY <1>9, <1>10, <2>1, AppendProperties
  <2>4. (\A n \in 1..Len(polled) : polled'[n] = polled[n]) /\ polled'[Len(polled) + 1] = f
    BY <1>9, <1>10, <2>1, AppendProperties
  <2>5. DOMAIN polled' = 1..Len(polled') /\ DOMAIN polled = 1..Len(polled) /\ Len(polled) \in Nat
    BY <2>1, <2>3, LenProperties
  <2> QED  BY <2>2, <2>3, <2>4, <2>5
<1>12. TypeOK'
  <2>1. \A n \in DOMAIN deployed' :
          deployed'[n].told <= deployed'[n].executed /\ deployed'[n].executed <= deployed'[n].qty
    <3> SUFFICES ASSUME NEW n \in DOMAIN deployed
                 PROVE  /\ deployed'[n].told <= deployed'[n].executed
                        /\ deployed'[n].executed <= deployed'[n].qty
      BY <1>7
    <3>1. CASE n = k
      BY <1>3, <1>4, <1>6, <1>7, <3>1, SMTT(60)
    <3>2. CASE n # k
      BY <1>7, <3>2 DEF TypeOK
    <3> QED  BY <3>1, <3>2
  <2> QED  BY <1>2, <1>7, <1>11, <2>1 DEF TypeOK, positionVars
<1> DEFINE t == deployed[k].told  x == deployed[k].executed  y == deployed[k].qty
<1>a. t \in Nat /\ x \in Nat /\ y \in Nat
  BY <1>6
<1>b. /\ Untold(deployed') = Untold(deployed) + (x - x) - (x - t)
      /\ Open(deployed') = Open(deployed) + (y - x) - (y - x)
      /\ Queued(polled') = Queued(polled) + x
  BY <1>4, <1>7, <1>9, <1>11, Zenon
<1> HIDE DEF t, x, y
<1>13. bought' <= Reported' + Queued(polled') + Untold(deployed') + lost'
  BY <1>2, <1>8, <1>a, <1>b
<1>14. Capped'
  BY <1>2, <1>8, <1>a, <1>b DEF Capped
<1>15. FillsHaveSlots'
  <2>1. \A n \in DOMAIN deployed : deployed'[n].protocol = deployed[n].protocol
    BY <1>4, <1>7
  <2>2. \A n \in DOMAIN polled' : \/ n \in DOMAIN polled /\ polled'[n] = polled[n]
                                  \/ polled'[n] = f
    BY <1>11
  <2> QED  BY <1>2, <1>7, <1>9, <2>1, <2>2 DEF FillsHaveSlots, Known, positionVars
<1>16. KeysInOrder' /\ RequestFits'
  BY <1>2 DEF KeysInOrder, RequestFits, positionVars
<1> QED  BY <1>12, <1>13, <1>14, <1>15, <1>16

\* A batch without the orders of one name: what they can still execute, and what
\* they executed unheard, leaves it.
LEMMA RemainingIs ==
  ASSUME NEW q \in Seq(Deployments), Ordered(q), NEW f, deployed = q
  PROVE  /\ Remaining(f) \in Seq(Deployments) /\ DOMAIN Remaining(f) = DOMAIN q
         /\ Ordered(Remaining(f))
         /\ \A n \in DOMAIN q : Remaining(f)[n].protocol = q[n].protocol
         /\ Open(Remaining(f)) <= Open(q) /\ Untold(Remaining(f)) <= Untold(q)
         /\ Open(Remaining(f)) \in Nat /\ Untold(Remaining(f)) \in Nat
<1> DEFINE r == Remaining(f)  l == Len(q)
           c == [n \in DOMAIN q |-> q[n].executed - q[n].told]
           e == [n \in DOMAIN r |-> r[n].executed - r[n].told]
           o == [n \in DOMAIN q |-> q[n].qty - q[n].executed]
           p == [n \in DOMAIN r |-> r[n].qty - r[n].executed]
<1>1. l \in Nat /\ DOMAIN q = 1..l /\ \A n \in 1..l : q[n] \in Deployments
  BY LenProperties, ElementOfSeq
<1>2. DOMAIN r = DOMAIN q /\ r = [n \in DOMAIN q |-> r[n]]
      /\ \A n \in DOMAIN q : r[n] \in {Unlisted(q[n]), q[n]}
  BY DEF Remaining
<1> HIDE DEF r
<1>3. ASSUME NEW n \in 1..l
      PROVE  /\ Unlisted(q[n]) \in Deployments /\ Unlisted(q[n]).protocol = q[n].protocol
             /\ Unlisted(q[n]).executed = q[n].executed /\ Unlisted(q[n]).told = q[n].executed
             /\ Unlisted(q[n]).qty = q[n].executed
  BY <1>1 DEF Deployments, Unlisted
<1>4. ASSUME NEW n \in 1..l
      PROVE  /\ q[n].told \in Nat /\ q[n].executed \in Nat /\ q[n].qty \in Nat
             /\ q[n].told <= q[n].executed /\ q[n].executed <= q[n].qty
  BY <1>1 DEF Deployments, Ordered
<1>5. ASSUME NEW n \in 1..l
      PROVE  /\ r[n] \in Deployments /\ r[n].protocol = q[n].protocol
             /\ r[n].told <= r[n].executed /\ r[n].executed <= r[n].qty
             /\ r[n].executed - r[n].told <= q[n].executed - q[n].told
             /\ r[n].qty - r[n].executed <= q[n].qty - q[n].executed
  <2>1. CASE r[n] = q[n]
    BY <1>1, <1>4, <2>1
  <2>2. CASE r[n] = Unlisted(q[n])
    BY <1>3, <1>4, <2>2
  <2> QED  BY <1>1, <1>2, <2>1, <2>2
<1>6. r \in Seq(Deployments) /\ Len(r) = l
  <2> HIDE DEF l
  <2>1. r \in [1..l -> Deployments]
    BY <1>1, <1>2, <1>5
  <2> QED  BY <1>1, <2>1
<1>7. Ordered(r)
  BY <1>1, <1>2, <1>5 DEF Ordered
<1>8. c \in Seq(Int) /\ Len(c) = l /\ o \in Seq(Int) /\ Len(o) = l
  BY DeployedSeq
<1>9. e \in Seq(Int) /\ Len(e) = l /\ p \in Seq(Int) /\ Len(p) = l
  BY <1>6, DeployedSeq
<1>10. \A n \in 1..l : e[n] <= c[n] /\ p[n] <= o[n]
  BY <1>1, <1>2, <1>5
<1> HIDE DEF l, c, e, o, p
<1>11. SumOf(e) <= SumOf(c)
  BY <1>8, <1>9, <1>10, SumMonotone
<1>12. SumOf(p) <= SumOf(o)
  BY <1>8, <1>9, <1>10, SumMonotone
<1>13. Untold(r) <= Untold(q) /\ Open(r) <= Open(q)
  BY <1>11, <1>12 DEF Untold, Open, c, e, o, p
<1>14. Untold(r) \in Nat /\ Open(r) \in Nat
  BY <1>6, <1>7, NothingNegative
<1> QED  BY <1>1, <1>2, <1>5, <1>6, <1>7, <1>13, <1>14 DEF r

\* What was polled is reported under the next key; a filled order's name leaves the
\* list, and what it had open may still be executed.
LEMMA ReportInv ==
  ASSUME PositionInv, Report
  PROVE  PositionInv'
<1> USE DEF PositionInv, BooksNeverUnderstate
<1> DEFINE h == Head(polled)
           f == [key |-> last_reported + 1, protocol |-> h.protocol, ordinal |-> h.ordinal, qty |-> h.qty]
<1>1. /\ polled # <<>> /\ polled' = Tail(polled) /\ deployed' = Remaining(h)
      /\ rx_fills' = Append(rx_fills, f) /\ last_reported' = last_reported + 1
      /\ astray' = astray + (Open(deployed) - Open(deployed'))
      /\ lost' = lost + (Untold(deployed) - Untold(deployed'))
  BY DEF Report
<1>2. UNCHANGED <<positionVars, deployable, faults, bought, behind>>
  BY DEF Report
<1>3. /\ polled \in Seq(PolledFills) /\ rx_fills \in Seq(Fills)
      /\ deployed \in Seq(Deployments) /\ Ordered(deployed)
  BY DEF TypeOK, Ordered
<1>4. /\ h \in PolledFills /\ Known(h.protocol)
      /\ polled' \in Seq(PolledFills) /\ Queued(polled) = h.qty + Queued(polled')
      /\ \A n \in DOMAIN polled' : Known(polled'[n].protocol)
  <2>1. /\ h = polled[1] /\ Tail(polled) \in Seq(PolledFills) /\ Len(polled) \in Nat /\ Len(polled) > 0
        /\ Len(Tail(polled)) = Len(polled) - 1
        /\ \A n \in 1..Len(Tail(polled)) : Tail(polled)[n] = polled[n + 1]
    BY <1>1, <1>3, HeadTailProperties, LenProperties, EmptySeq
  <2>2. DOMAIN polled = 1..Len(polled) /\ 1 \in DOMAIN polled
        /\ DOMAIN Tail(polled) = 1..Len(Tail(polled))
    BY <1>3, <2>1, LenProperties
  <2>3. h \in PolledFills
    BY <1>3, <2>1, <2>2, ElementOfSeq
  <2>4. Queued(polled) = h.qty + Queued(polled')
    BY <1>1, <1>3, QueueShrinks
  <2>5. \A n \in DOMAIN polled' : n + 1 \in DOMAIN polled /\ polled'[n] = polled[n + 1]
    BY <1>1, <2>1, <2>2
  <2>6. \A n \in DOMAIN polled : Known(polled[n].protocol)
    BY DEF FillsHaveSlots
  <2> QED  BY <1>1, <2>1, <2>2, <2>3, <2>4, <2>5, <2>6
<1> HIDE DEF h
<1>5. /\ last_fill_key \in Nat /\ last_reported \in Nat /\ last_fill_key <= last_reported
      /\ Len(rx_fills) \in Nat
  <2>1. last_fill_key \in Nat /\ Len(rx_fills) \in Nat
    BY <1>3, LenProperties DEF TypeOK
  <2> QED  BY <2>1 DEF KeysInOrder
<1>6. f \in Fills /\ f.key = last_reported + 1 /\ f.qty = h.qty /\ f.protocol = h.protocol
      /\ h.qty \in Nat
  <2>1. last_reported + 1 \in Nat
    BY <1>5
  <2>2. h.protocol \in Protocols /\ h.ordinal \in {1} /\ h.qty \in Nat
    BY <1>4 DEF PolledFills
  <2> QED  BY <2>1, <2>2 DEF Fills
<1> HIDE DEF f
<1>7. /\ rx_fills' \in Seq(Fills) /\ Len(rx_fills') = Len(rx_fills) + 1
      /\ DOMAIN rx_fills' = 1..(Len(rx_fills) + 1) /\ DOMAIN rx_fills = 1..Len(rx_fills)
      /\ (\A n \in 1..Len(rx_fills) : rx_fills'[n] = rx_fills[n])
      /\ rx_fills'[Len(rx_fills) + 1] = f
      /\ Queued(rx_fills') = Queued(rx_fills) + f.qty
  <2>1. Queued(rx_fills') = Queued(rx_fills) + f.qty
    BY <1>1, <1>3, <1>6, QueueGrows
  <2>2. rx_fills' \in Seq(Fills) /\ Len(rx_fills') = Len(rx_fills) + 1
    BY <1>1, <1>3, <1>6, AppendProperties
  <2>3. (\A n \in 1..Len(rx_fills) : rx_fills'[n] = rx_fills[n]) /\ rx_fills'[Len(rx_fills) + 1] = f
    BY <1>1, <1>3, <1>6, AppendProperties
  <2>4. DOMAIN rx_fills' = 1..Len(rx_fills') /\ DOMAIN rx_fills = 1..Len(rx_fills)
    BY <1>3, <2>2, LenProperties
  <2> QED  BY <2>1, <2>2, <2>3, <2>4
<1>8. /\ deployed' \in Seq(Deployments) /\ DOMAIN deployed' = DOMAIN deployed /\ Ordered(deployed')
      /\ \A n \in DOMAIN deployed : deployed'[n].protocol = deployed[n].protocol
      /\ Open(deployed') <= Open(deployed) /\ Untold(deployed') <= Untold(deployed)
      /\ Open(deployed') \in Nat /\ Untold(deployed') \in Nat
  <2> DEFINE rest == Remaining(h)
  <2>1. /\ rest \in Seq(Deployments) /\ DOMAIN rest = DOMAIN deployed /\ Ordered(rest)
        /\ \A n \in DOMAIN deployed : rest[n].protocol = deployed[n].protocol
        /\ Open(rest) <= Open(deployed) /\ Untold(rest) <= Untold(deployed)
        /\ Open(rest) \in Nat /\ Untold(rest) \in Nat
    BY <1>3, RemainingIs
  <2>2. deployed' = rest
    BY <1>1
  <2> HIDE DEF rest
  <2> QED  BY <2>1, <2>2, Zenon
<1> DEFINE o == Open(deployed)  p == Open(deployed')  u == Untold(deployed)  v == Untold(deployed')
<1>9. /\ o \in Nat /\ p \in Nat /\ u \in Nat /\ v \in Nat /\ p <= o /\ v <= u
      /\ astray' = astray + (o - p) /\ lost' = lost + (u - v)
  BY <1>1, <1>8, Numbers
<1>10. /\ bought \in Nat /\ lost \in Nat /\ behind \in Nat /\ astray \in Nat
       /\ executed_notional \in Nat /\ Target \in Nat
       /\ Queued(rx_fills) \in Int /\ Queued(polled) \in Int /\ Reported \in Int
  BY Numbers
<1>11. bought' <= Reported' + Queued(polled') + v + lost'
  <2>1. bought <= Reported + Queued(polled) + u + lost
    OBVIOUS
  <2>2. Reported' = Reported + h.qty
    BY <1>2, <1>6, <1>7, <1>10 DEF Reported, positionVars
  <2>3. Queued(polled') \in Int
    BY <1>4, QuantityTypes
  <2> DEFINE x == h.qty  k == Queued(polled')  r == Reported'
  <2>4. /\ r = Reported + x /\ Queued(polled) = x + k /\ k \in Int /\ x \in Nat
        /\ bought' = bought /\ lost' = lost + (u - v)
    BY <1>2, <1>4, <1>6, <1>9, <2>2, <2>3
  <2> HIDE DEF u, v, x, k, r
  <2>5. bought' <= r + k + v + lost'
    BY <1>9, <1>10, <2>1, <2>4
  <2> QED  BY <2>5 DEF k, r
<1>12. bought' + p <= Target' + behind'
  <2>1. bought + o <= Target + behind
    BY DEF Capped
  <2> HIDE DEF o, p
  <2> QED  BY <1>2, <1>9, <1>10, <2>1
<1>13. TypeOK'
  <2>1. astray' \in Nat /\ lost' \in Nat
    <3> HIDE DEF o, p, u, v
    <3> QED  BY <1>9, <1>10
  <2>2. last_fill_key' \in 0..last_reported'
    BY <1>1, <1>2, <1>5 DEF positionVars
  <2> QED  BY <1>2, <1>4, <1>7, <1>8, <2>1, <2>2 DEF TypeOK, Ordered, positionVars
<1>14. FillsHaveSlots'
  <2>1. \A n \in DOMAIN rx_fills' : \/ n \in DOMAIN rx_fills /\ rx_fills'[n] = rx_fills[n]
                                    \/ rx_fills'[n] = f
    BY <1>5, <1>7
  <2>2. \A n \in DOMAIN rx_fills' : Known(rx_fills'[n].protocol)
    BY <1>4, <1>6, <2>1 DEF FillsHaveSlots
  <2>3. \A n \in DOMAIN deployed' : Known(deployed'[n].protocol)
    BY <1>8 DEF FillsHaveSlots
  <2> QED  BY <1>2, <1>4, <2>2, <2>3 DEF FillsHaveSlots, Known, positionVars
<1>15. KeysInOrder'
  <2>1. last_reported' = last_fill_key' + Len(rx_fills')
    BY <1>1, <1>2, <1>5, <1>7 DEF KeysInOrder, positionVars
  <2>2. ASSUME NEW n \in DOMAIN rx_fills'  PROVE rx_fills'[n].key = last_fill_key' + n
    <3>1. CASE n \in 1..Len(rx_fills)
      BY <1>2, <1>7, <3>1 DEF KeysInOrder, positionVars
    <3>2. CASE n = Len(rx_fills) + 1
      BY <1>2, <1>5, <1>6, <1>7, <3>2 DEF KeysInOrder, positionVars
    <3> QED  BY <1>5, <1>7, <3>1, <3>2
  <2> QED  BY <2>1, <2>2 DEF KeysInOrder
<1>16. RequestFits'
  BY <1>2 DEF RequestFits, positionVars
<1> QED  BY <1>11, <1>12, <1>13, <1>14, <1>15, <1>16 DEF Capped

-----------------------------------------------------------------------------
(***************************************************************************)
(* What the allocation computes.                                           *)
(***************************************************************************)
Accumulators == [placed : Seq(Int), left : Int, extra : Int]

\* g has the accumulators of the turns over the slots.
Turns(g, slots, mins, left) ==
  /\ g \in [0..Len(slots) -> Accumulators]
  /\ g[0] = [placed |-> <<>>, left |-> left, extra |-> 0]
  /\ \A t \in 1..Len(slots) :
       g[t] = Turn(g[t - 1], slots[t], mins[t], Len(slots)) /\ Len(g[t].placed) = t

\* A turn appends one notional.
LEMMA TurnType ==
  ASSUME NEW acc \in Accumulators, NEW slot \in Slot, NEW min, NEW n \in Nat, Len(acc.placed) < n
  PROVE  /\ Turn(acc, slot, min, n) \in Accumulators
         /\ Len(Turn(acc, slot, min, n).placed) = Len(acc.placed) + 1
<1> DEFINE ordinal == Len(acc.placed) + 1
           desired == ((slot.pct + acc.extra) * acc.left) \div Whole
           skipped == [acc EXCEPT !.placed = Append(@, NotPlaced)]
           placed == [acc EXCEPT !.placed = Append(@, desired), !.left = @ - desired]
           passed == [acc EXCEPT !.placed = Append(@, NotPlaced),
                                 !.extra = @ + ShareOfSkipped(slot.pct, n, ordinal)]
<1>1. acc.placed \in Seq(Int) /\ acc.left \in Int /\ acc.extra \in Int
      /\ slot.pct \in Nat /\ ordinal \in 1..n
  BY LenProperties DEF Accumulators, Slot, Inactive
<1>2. desired \in Int
  <2> DEFINE x == (slot.pct + acc.extra) * acc.left
  <2>1. x \in Int
    BY <1>1
  <2> HIDE DEF x
  <2>2. x \div Whole \in Int
    BY <2>1, WholeAssumption
  <2> QED  BY <2>2 DEF x
<1>3. ShareOfSkipped(slot.pct, n, ordinal) \in Int
  <2> DEFINE x == slot.pct
  <2>1. x \in Nat
    BY <1>1
  <2> HIDE DEF x, ordinal
  <2>2. CASE ordinal = n
    BY <2>2 DEF ShareOfSkipped
  <2>3. CASE ordinal # n
    <3>1. n - ordinal \in Nat \ {0}
      BY <1>1, <2>3
    <3>2. x \div (n - ordinal) \in Int
      BY <2>1, <3>1
    <3> QED  BY <2>3, <3>2 DEF ShareOfSkipped, x
  <2> QED  BY <2>2, <2>3
<1> HIDE DEF desired
<1>4. \A x \in Int : Append(acc.placed, x) \in Seq(Int) /\ Len(Append(acc.placed, x)) = Len(acc.placed) + 1
  BY <1>1, AppendProperties
<1>5. Append(acc.placed, NotPlaced) \in Seq(Int) /\ Len(Append(acc.placed, NotPlaced)) = Len(acc.placed) + 1
  BY <1>4 DEF NotPlaced
<1>6. Append(acc.placed, desired) \in Seq(Int) /\ Len(Append(acc.placed, desired)) = Len(acc.placed) + 1
  BY <1>2, <1>4
<1>7. skipped \in Accumulators /\ Len(skipped.placed) = Len(acc.placed) + 1
  BY <1>1, <1>5 DEF Accumulators
<1>8. placed \in Accumulators /\ Len(placed.placed) = Len(acc.placed) + 1
  <2>1. acc.left - desired \in Int
    BY <1>1, <1>2
  <2> QED  BY <1>6, <2>1 DEF Accumulators
<1>9. passed \in Accumulators /\ Len(passed.placed) = Len(acc.placed) + 1
  <2>1. acc.extra + ShareOfSkipped(slot.pct, n, ordinal) \in Int
    BY <1>1, <1>3
  <2> HIDE DEF ordinal
  <2> QED  BY <1>5, <2>1 DEF Accumulators
<1>10. Turn(acc, slot, min, n) \in {skipped, placed, passed}
  BY DEF Turn, desired
<1> HIDE DEF skipped, placed, passed
<1> QED  BY <1>7, <1>8, <1>9, <1>10

\* Place takes its result from the last turn.
LEMMA PlaceIs ==
  ASSUME NEW slots \in Seq(Slot), NEW mins, NEW left \in Int
  PROVE  \E g : Turns(g, slots, mins, left) /\ Place(slots, mins, left) = g[Len(slots)].placed
<1> DEFINE n == Len(slots)  first == [placed |-> <<>>, left |-> left, extra |-> 0]
           turn(acc, t) == IF Len(acc.placed) = t - 1 THEN Turn(acc, slots[t], mins[t], n) ELSE acc
           step == [t \in 1..n |-> [acc \in Accumulators |-> turn(acc, t)]]
<1>1. n \in Nat /\ \A t \in 1..n : slots[t] \in Slot
  BY LenProperties, ElementOfSeq
<1>2. first \in Accumulators /\ Len(first.placed) = 0
  BY DEF Accumulators
<1> HIDE DEF n
<1>3. ASSUME NEW t \in 1..n, NEW acc \in Accumulators
      PROVE  /\ turn(acc, t) \in Accumulators
             /\ Len(acc.placed) = t - 1 => Len(turn(acc, t).placed) = t
  <2>1. CASE Len(acc.placed) = t - 1
    <3>1. Len(acc.placed) < n /\ slots[t] \in Slot
      BY <1>1, <2>1
    <3>2. /\ Turn(acc, slots[t], mins[t], n) \in Accumulators
          /\ Len(Turn(acc, slots[t], mins[t], n).placed) = Len(acc.placed) + 1
      BY <1>1, <3>1, TurnType
    <3> QED  BY <2>1, <3>2
  <2>2. CASE Len(acc.placed) # t - 1
    BY <2>2
  <2> QED  BY <2>1, <2>2
<1> HIDE DEF first, turn
<1>4. step \in [1..n -> [Accumulators -> Accumulators]]
  BY <1>3
<1>5. PICK g : StepsThrough(g, Accumulators, n, first, step)
  <2> HIDE DEF step
  <2> QED  BY <1>1, <1>2, <1>4, Recursion
<1>6. /\ g \in [0..n -> Accumulators] /\ g[0] = first
      /\ \A t \in 1..n : t - 1 \in 0..n /\ g[t - 1] \in Accumulators /\ g[t] = turn(g[t - 1], t)
  <2>1. g \in [0..n -> Accumulators] /\ g[0] = first /\ \A t \in 1..n : g[t] = step[t][g[t - 1]]
    BY <1>5 DEF StepsThrough
  <2>2. ASSUME NEW t \in 1..n
        PROVE  t - 1 \in 0..n /\ g[t - 1] \in Accumulators /\ g[t] = turn(g[t - 1], t)
    <3>1. t - 1 \in 0..n
      BY <1>1
    <3> QED  BY <2>1, <3>1
  <2> QED  BY <2>1, <2>2
<1>7. \A t \in 0..n : Len(g[t].placed) = t
  <2> DEFINE T == {t \in 0..n : Len(g[t].placed) = t}
  <2>1. 0 \in T
    BY <1>1, <1>2, <1>6
  <2>2. ASSUME NEW t \in 1..n, t - 1 \in T  PROVE t \in T
    <3>1. Len(g[t - 1].placed) = t - 1 /\ t \in 0..n
      BY <1>1, <2>2
    <3>2. Len(turn(g[t - 1], t).placed) = t
      BY <1>3, <1>6, <3>1
    <3> QED  BY <1>6, <3>1, <3>2
  <2> HIDE DEF T
  <2>3. \A t \in 0..n : t \in T
    BY <1>1, <2>1, <2>2, Induction
  <2> QED  BY <2>3 DEF T
<1>8. \A t \in 1..n : g[t] = Turn(g[t - 1], slots[t], mins[t], n) /\ Len(g[t].placed) = t
  BY <1>6, <1>7 DEF turn
<1>9. Turns(g, slots, mins, left)
  BY <1>6, <1>8 DEF Turns, n, first
<1> DEFINE turns[t \in 0..n] == IF t = 0 THEN first ELSE Turn(turns[t - 1], slots[t], mins[t], n)
<1>10. Place(slots, mins, left) = turns[n].placed
  BY DEF Place, n, first
<1>11. turns = CHOOSE f : f = [t \in 0..n |-> IF t = 0 THEN first
                                             ELSE Turn(f[t - 1], slots[t], mins[t], n)]
  OBVIOUS
<1> HIDE DEF turns
<1>12. g = [t \in 0..n |-> IF t = 0 THEN first ELSE Turn(g[t - 1], slots[t], mins[t], n)]
  BY <1>1, <1>6, <1>8
<1>13. turns = [t \in 0..n |-> IF t = 0 THEN first ELSE Turn(turns[t - 1], slots[t], mins[t], n)]
  BY <1>11, <1>12
<1>14. n \in {t \in 0..n : turns[t] = g[t]}
  <2> DEFINE T == {t \in 0..n : turns[t] = g[t]}
  <2>1. 0 \in T
    BY <1>1, <1>12, <1>13
  <2>2. ASSUME NEW t \in 1..n, t - 1 \in T  PROVE t \in T
    BY <1>1, <1>12, <1>13, <2>2
  <2> HIDE DEF T
  <2>3. \A t \in 0..n : t \in T
    BY <1>1, <2>1, <2>2, Induction
  <2>4. n \in 0..n
    BY <1>1
  <2> QED  BY <2>3, <2>4 DEF T
<1> QED  BY <1>9, <1>10, <1>14 DEF n
\* No notional that is placed is negative: what is not above the minimum is not placed.
LEMMA PlacesNothingNegative ==
  ASSUME NEW slots \in Seq(Slot), NEW mins, \A o \in 1..Len(slots) : mins[o] \in Nat,
         NEW left \in Int
  PROVE  /\ Place(slots, mins, left) \in Seq(Int) /\ Len(Place(slots, mins, left)) = Len(slots)
         /\ \A o \in 1..Len(slots) : Place(slots, mins, left)[o] \in Nat
<1> DEFINE n == Len(slots)
<1>1. PICK g : Turns(g, slots, mins, left) /\ Place(slots, mins, left) = g[n].placed
  BY PlaceIs
<1>2. n \in Nat /\ \A t \in 1..n : slots[t] \in Slot /\ mins[t] \in Nat
  BY LenProperties, ElementOfSeq
<1>3. /\ \A t \in 0..n : g[t] \in Accumulators /\ g[t].placed \in Seq(Int)
      /\ g[0].placed = <<>>
      /\ \A t \in 1..n : g[t] = Turn(g[t - 1], slots[t], mins[t], n) /\ Len(g[t].placed) = t
  BY <1>1 DEF Turns, Accumulators
<1> HIDE DEF n
<1> DEFINE T == {t \in 0..n : Len(g[t].placed) = t /\ \A o \in 1..t : g[t].placed[o] \in Nat}
<1>4. 0 \in T
  BY <1>2, <1>3
<1>5. ASSUME NEW t \in 1..n, t - 1 \in T  PROVE t \in T
  <2> DEFINE s == g[t - 1].placed
             desired == ((slots[t].pct + g[t - 1].extra) * g[t - 1].left) \div Whole
  <2>1. s \in Seq(Int) /\ Len(s) = t - 1 /\ (\A o \in 1..(t - 1) : s[o] \in Nat) /\ t - 1 \in 0..n
    BY <1>2, <1>3, <1>5
  <2>2. PICK x \in Nat : g[t].placed = Append(s, x)
    <3>1. \/ g[t].placed = Append(s, NotPlaced)
          \/ desired > mins[t] /\ g[t].placed = Append(s, desired)
      <4>1. g[t - 1] \in Accumulators /\ g[t] = Turn(g[t - 1], slots[t], mins[t], n)
        BY <1>3, <2>1
      <4> HIDE DEF desired
      <4> QED  BY <4>1 DEF Turn, Accumulators, desired
    <3>2. desired \in Int
      <4> DEFINE a == (slots[t].pct + g[t - 1].extra) * g[t - 1].left
      <4>1. slots[t].pct \in Nat /\ g[t - 1].extra \in Int /\ g[t - 1].left \in Int
        BY <1>2, <1>3, <2>1 DEF Slot, Inactive, Accumulators
      <4>2. a \in Int
        BY <4>1
      <4> HIDE DEF a
      <4>3. a \div Whole \in Int
        BY <4>2, WholeAssumption
      <4> QED  BY <4>3 DEF a
    <3> HIDE DEF s, desired
    <3>3. mins[t] \in Nat
      BY <1>2
    <3>4. desired > mins[t] => desired \in Nat
      BY <3>2, <3>3
    <3> QED  BY <3>1, <3>4 DEF NotPlaced
  <2> HIDE DEF s
  <2>3. Len(Append(s, x)) = t /\ \A o \in 1..t : Append(s, x)[o] \in Nat
    BY <1>2, <2>1, AppendProperties
  <2>4. Len(g[t].placed) = t /\ \A o \in 1..t : g[t].placed[o] \in Nat
    BY <2>2, <2>3, Zenon
  <2>5. t \in 0..n
    BY <1>2
  <2> QED  BY <2>4, <2>5
<1>6. n \in T
  <2> HIDE DEF T
  <2>1. \A t \in 0..n : t \in T
    BY <1>2, <1>4, <1>5, Induction
  <2> QED  BY <1>2, <2>1
<1>7. n \in 0..n
  BY <1>2
<1> QED  BY <1>1, <1>3, <1>6, <1>7 DEF n

\* Market and stop orders are asked for with quantities that are not negative.
LEMMA AllocationPlaces ==
  ASSUME NEW slots \in Seq(Slot), NEW filled, NEW mins, \A o \in 1..Len(slots) : mins[o] \in Nat,
         NEW controlled, NEW min_any, Left(controlled, filled) \in Int
  PROVE  LET placed == RecalculateAllocation(slots, filled, mins, controlled, min_any).placed
         IN \A o \in 1..Len(slots) : placed[o] \in Nat
<1>1. CASE Left(controlled, filled) < min_any
  BY <1>1, LenProperties DEF RecalculateAllocation, NotPlaced
<1>2. CASE ~ (Left(controlled, filled) < min_any)
  BY <1>2, PlacesNothingNegative DEF RecalculateAllocation
<1> QED  BY <1>1, <1>2

-----------------------------------------------------------------------------
(***************************************************************************)
(* What the position asks for.                                             *)
(***************************************************************************)
\* However much the orders want, what is chosen of them is within what is left.
LEMMA SelectionWithin ==
  ASSUME NEW orders \in Seq(Orders), \A n \in 1..Len(orders) : orders[n].qty \in Nat, NEW left \in Nat
  PROVE  LET chosen == Selection(orders, left)
         IN /\ chosen \in Seq(Orders) /\ DOMAIN chosen = DOMAIN orders /\ Asked(chosen) <= left
            /\ \A n \in DOMAIN orders : chosen[n].protocol = orders[n].protocol
<1> DEFINE l == Len(orders)
           wanted == [m \in 1..l |-> orders[m].qty]
           rest(n) == left - SumOf([m \in 1..(n - 1) |-> orders[m].qty])
           chosen == Selection(orders, left)
           posted == [n \in DOMAIN chosen |-> Wanted(chosen[n])]
<1>1. l \in Nat /\ DOMAIN orders = 1..l /\ \A n \in 1..l : orders[n] \in Orders /\ orders[n].qty \in Nat
  BY LenProperties, ElementOfSeq
<1> HIDE DEF l
<1>2. wanted \in Seq(Int) /\ Len(wanted) = l /\ \A n \in 1..l : wanted[n] = orders[n].qty
  BY <1>1
<1> HIDE DEF wanted
<1>3. PICK g : Adds(g, wanted)
  BY <1>2, PartialSums
<1>4. /\ g[0] = 0 /\ \A n \in 0..l : g[n] \in Int
      /\ \A n \in 1..l : g[n] = g[n - 1] + wanted[n] /\ g[n - 1] \in Int
  BY <1>2, <1>3, AddsUp
<1>5. ASSUME NEW n \in 1..l  PROVE rest(n) = left - g[n - 1]
  <2> DEFINE before == [m \in 1..(n - 1) |-> orders[m].qty]
  <2>1. n - 1 \in Nat /\ \A m \in 1..(n - 1) : m \in 1..l /\ m - 1 \in 0..(n - 1)
    BY <1>1
  <2>2. before \in Seq(Int) /\ Len(before) = n - 1 /\ \A m \in 1..(n - 1) : before[m] = wanted[m]
    <3> DEFINE k == n - 1
    <3>1. k \in Nat /\ \A m \in 1..k : orders[m].qty \in Int /\ orders[m].qty = wanted[m]
      BY <1>1, <1>2, <2>1
    <3>2. before = [m \in 1..k |-> orders[m].qty]
      OBVIOUS
    <3> HIDE DEF before, k
    <3>3. before \in Seq(Int) /\ Len(before) = k /\ \A m \in 1..k : before[m] = wanted[m]
      BY <3>1, <3>2
    <3> QED  BY <3>3 DEF k
  <2> DEFINE h == [m \in 0..(n - 1) |-> g[m]]
  <2>3. h \in [0..(n - 1) -> Int] /\ h[0] = 0 /\ h[n - 1] = g[n - 1]
    BY <1>1, <1>4, <2>1
  <2>4. \A m \in 1..(n - 1) : h[m] = h[m - 1] + before[m]
    <3> SUFFICES ASSUME NEW m \in 1..(n - 1)  PROVE h[m] = h[m - 1] + before[m]
      OBVIOUS
    <3>1. h[m] = g[m] /\ h[m - 1] = g[m - 1]
      BY <2>1
    <3>2. before[m] = wanted[m] /\ g[m] = g[m - 1] + wanted[m]
      BY <1>4, <2>1, <2>2
    <3> HIDE DEF h, before
    <3> QED  BY <3>1, <3>2, Zenon
  <2> HIDE DEF h, before
  <2>5. SumOf(before) = h[n - 1]
    BY <2>1, <2>2, <2>3, <2>4, AddsIf, ZenonT(60)
  <2> QED  BY <2>3, <2>5 DEF before
<1>6. DOMAIN chosen = 1..l /\ \A n \in 1..l :
        chosen[n] = [orders[n] EXCEPT !.qty = IF @ > rest(n) THEN rest(n) ELSE @]
  BY <1>1 DEF Selection
<1> HIDE DEF rest, chosen
<1>7. ASSUME NEW n \in 1..l
      PROVE  /\ chosen[n] \in Orders /\ chosen[n].protocol = orders[n].protocol
             /\ chosen[n].qty = IF wanted[n] > left - g[n - 1] THEN left - g[n - 1] ELSE wanted[n]
  <2>1. g[n - 1] \in Int /\ rest(n) = left - g[n - 1] /\ rest(n) \in Int
    BY <1>4, <1>5
  <2> DEFINE w == wanted[n]  r == left - g[n - 1]
  <2>2. /\ orders[n] \in Orders /\ orders[n].qty = w /\ w \in Int /\ r \in Int
        /\ chosen[n] = [orders[n] EXCEPT !.qty = IF @ > r THEN r ELSE @]
    BY <1>1, <1>2, <1>6, <2>1, SMTT(60)
  <2> HIDE DEF w, r
  <2>3. chosen[n] = [orders[n] EXCEPT !.qty = IF w > r THEN r ELSE w]
    BY <2>2
  <2>4. (IF w > r THEN r ELSE w) \in Int
    BY <2>2
  <2>5. chosen[n] \in Orders /\ chosen[n].protocol = orders[n].protocol
        /\ chosen[n].qty = IF w > r THEN r ELSE w
    BY <2>2, <2>3, <2>4 DEF Orders
  <2> QED  BY <2>5 DEF w, r
<1>8. chosen \in Seq(Orders)
  <2>1. chosen = [n \in 1..l |-> chosen[n]]
    BY <1>6 DEF chosen, Selection
  <2> QED  BY <1>1, <1>7, <2>1
<1>9. posted \in Seq(Int) /\ Len(posted) = l
  <2>1. Len(chosen) = l
    BY <1>1, <1>6, <1>8, LenProperties
  <2> QED  BY <1>8, <2>1, OrdersSeq
<1>10. ASSUME NEW n \in 1..l
       PROVE  posted[n] = LET q == chosen[n].qty IN IF q > 0 THEN q ELSE 0
  BY <1>6 DEF Wanted
<1> HIDE DEF posted
<1>11. PICK p : Adds(p, posted)
  BY <1>9, PartialSums
<1>12. /\ p[0] = 0 /\ \A n \in 0..l : p[n] \in Int
       /\ \A n \in 1..l : p[n] = p[n - 1] + posted[n] /\ p[n - 1] \in Int
  BY <1>9, <1>11, AddsUp
<1> DEFINE T == {n \in 0..l : p[n] <= left /\ (g[n] <= left => p[n] = g[n])}
<1>13. 0 \in T
  BY <1>1, <1>4, <1>12
<1>14. ASSUME NEW n \in 1..l, n - 1 \in T  PROVE n \in T
  <2> DEFINE w == wanted[n]  a == g[n - 1]  b == p[n - 1]  c == posted[n]
  <2>1. w \in Nat /\ a \in Int /\ b \in Int /\ n \in 0..l
    <3>1. wanted[n] \in Nat
      BY <1>1, <1>2
    <3>2. g[n - 1] \in Int /\ p[n - 1] \in Int /\ n \in 0..l
      BY <1>1, <1>4, <1>12
    <3> QED  BY <3>1, <3>2
  <2>2. b <= left /\ (a <= left => b = a)
    BY <1>14
  <2>3. c = LET q == IF w > left - a THEN left - a ELSE w IN IF q > 0 THEN q ELSE 0
    BY <1>7, <1>10
  <2>4. g[n] = a + w /\ p[n] = b + c
    BY <1>4, <1>12
  <2> HIDE DEF w, a, b, c
  <2>5. p[n] <= left /\ (g[n] <= left => p[n] = g[n])
    BY <2>1, <2>2, <2>3, <2>4
  <2> QED  BY <2>1, <2>5
<1>15. l \in T
  <2> HIDE DEF T
  <2>1. \A n \in 0..l : n \in T
    BY <1>1, <1>13, <1>14, Induction
  <2> QED  BY <1>1, <2>1
<1>16. SumOf(posted) = p[l]
  BY <1>9, <1>11, SumIs
<1>17. Asked(chosen) <= left
  BY <1>15, <1>16 DEF Asked, posted
<1> QED  BY <1>1, <1>6, <1>7, <1>8, <1>17 DEF chosen
Infos == [Protocols -> [slots : Seq(Slot), fills : Seq(Nat)]]

\* The order of a protocol that is reached, in a recalculation that does not panic.
LEMMA ReachedOrder ==
  ASSUME NEW info \in Infos, NEW left \in Nat, NEW iteration, ~Panics(iteration, info, left),
         NEW p \in Reached(iteration, info, left)
  PROVE  /\ OrderOf(p, info, left) \in Orders /\ OrderOf(p, info, left).qty \in Nat
         /\ OrderOf(p, info, left).protocol = p /\ Len(info[p].fills) = 1
<1> DEFINE slots == info[p].slots  fills == info[p].fills
           mins == [o \in DOMAIN slots |-> MinQty]
           controlled == Controlled(TypeOf[p], left)
<1>1. p \in Protocols /\ slots \in Seq(Slot) /\ fills \in Seq(Nat)
  BY DEF Reached, Infos
<1>2. Len(slots) = 1 /\ Len(fills) = 1 /\ slots[1] # Inactive
  BY DEF Panics
<1>3. DOMAIN slots = 1..1 /\ slots[1] \in Slot
  BY <1>1, <1>2, LenProperties, ElementOfSeq
<1>4. slots[1].kind \in {"Market", "StopMarket"} /\ slots[1].price \in Nat
  BY <1>2, <1>3 DEF Slot
<1>5. controlled \in Int
  <2> DEFINE same == OfType(TypeOf[p])  c == Cardinality(same)
  <2>1. p \in same /\ IsFiniteSet(Protocols) /\ same \in SUBSET Protocols
    BY <1>1, PositionAssumption DEF OfType
  <2> HIDE DEF same
  <2>2. IsFiniteSet(same)
    BY <2>1, FS_Subset
  <2>3. c \in Nat /\ c # 0
    BY <2>1, <2>2, FS_CardinalityType, FS_EmptySet
  <2> HIDE DEF c
  <2>4. left \div c \in Int
    BY <2>3
  <2> QED  BY <2>4 DEF Controlled, c, same
<1>6. Left(controlled, fills) \in Int
  <2>1. fills \in Seq(Int)
    BY <1>1, SeqMonotonic
  <2>2. SumOf(fills) \in Int
    BY <2>1, SumType
  <2> HIDE DEF controlled, fills
  <2> QED  BY <1>5, <2>2 DEF Left
<1>7. \A o \in 1..Len(slots) : mins[o] \in Nat
  BY <1>2, <1>3, PositionAssumption
<1>8. AllocationOf(p, info, left).placed[1] \in Nat
  <2>1. AllocationOf(p, info, left) = RecalculateAllocation(slots, fills, mins, controlled, MinQty)
    BY DEF AllocationOf
  <2> HIDE DEF slots, fills, mins, controlled
  <2>2. \A o \in 1..Len(slots) :
          RecalculateAllocation(slots, fills, mins, controlled, MinQty).placed[o] \in Nat
    BY <1>1, <1>6, <1>7, AllocationPlaces
  <2> QED  BY <1>2, <2>1, <2>2
<1> QED  BY <1>1, <1>2, <1>4, <1>8 DEF OrderOf, Orders

\* The orders that are chosen from, in whatever order the maps and the sort put them.
LEMMA RankedOrders ==
  ASSUME NEW info \in Infos, NEW left \in Nat, NEW iteration, ~Panics(iteration, info, left),
         NEW orders \in Rankings(iteration, info, left)
  PROVE  /\ orders \in Seq(Orders)
         /\ \A n \in 1..Len(orders) : orders[n].qty \in Nat /\ Len(info[orders[n].protocol].fills) = 1
<1> DEFINE A == Allocated(iteration, info, left)  order(p) == OrderOf(p, info, left)
<1>1. PICK t \in SetToSeqs(A) : orders = [n \in DOMAIN t |-> order(t[n])]
  BY DEF Rankings
<1>2. A \in SUBSET Protocols /\ A \subseteq Reached(iteration, info, left)
  BY DEF Allocated, Reached
<1> HIDE DEF A
<1>3. Cardinality(A) \in Nat
  BY <1>2, PositionAssumption, FS_Subset, FS_CardinalityType
<1> DEFINE l == Cardinality(A)
<1>4. t \in [1..l -> A]
  BY <1>1 DEF SetToSeqs
<1> HIDE DEF l, order
<1>5. \A n \in 1..l : /\ order(t[n]) \in Orders /\ order(t[n]).qty \in Nat
                      /\ order(t[n]).protocol = t[n] /\ Len(info[t[n]].fills) = 1
  BY <1>2, <1>4, ReachedOrder DEF order
<1>6. orders = [n \in 1..l |-> order(t[n])]
  BY <1>1, <1>4
<1>7. orders \in Seq(Orders) /\ Len(orders) = l /\ \A n \in 1..l : orders[n] = order(t[n])
  BY <1>3, <1>5, <1>6 DEF l
<1> QED  BY <1>5, <1>7

\* A recalculation panics, or it asks for no more than what is left.
LEMMA AskFits ==
  ASSUME NEW info \in Infos, NEW executed \in Nat, executed < Target, NEW key,
         Ask(info, executed, key)
  PROVE  \/ loop' = "panicked" /\ UNCHANGED <<request, deployable>>
         \/ /\ deployable' = TRUE /\ UNCHANGED loop
            /\ request'.key = key /\ request'.orders \in Seq(Orders)
            /\ Asked(request'.orders) <= Target - executed
            /\ \A n \in DOMAIN request'.orders : Len(info[request'.orders[n].protocol].fills) = 1
<1> DEFINE left == Target - executed
<1>1. left \in Nat
  BY PositionAssumption
<1>2. PICK iteration \in Iterations :
        IF Panics(iteration, info, left)
        THEN loop' = "panicked" /\ UNCHANGED <<request, deployable>>
        ELSE /\ \E orders \in Rankings(iteration, info, left) :
                  request' = [key |-> key, orders |-> Selection(orders, left)]
             /\ deployable' = TRUE
             /\ UNCHANGED loop
  BY DEF Ask
<1> HIDE DEF left
<1>3. CASE Panics(iteration, info, left)
  BY <1>2, <1>3
<1>4. CASE ~Panics(iteration, info, left)
  <2>1. PICK orders \in Rankings(iteration, info, left) :
          request' = [key |-> key, orders |-> Selection(orders, left)]
    BY <1>2, <1>4
  <2>2. /\ orders \in Seq(Orders)
        /\ \A n \in 1..Len(orders) : orders[n].qty \in Nat /\ Len(info[orders[n].protocol].fills) = 1
    BY <1>1, <1>4, <2>1, RankedOrders
  <2> DEFINE chosen == Selection(orders, left)
  <2>3. /\ chosen \in Seq(Orders) /\ DOMAIN chosen = DOMAIN orders /\ Asked(chosen) <= left
        /\ \A n \in DOMAIN orders : chosen[n].protocol = orders[n].protocol
    BY <1>1, <2>2, SelectionWithin
  <2>4. DOMAIN orders = 1..Len(orders)
    BY <2>2, LenProperties
  <2>5. request'.key = key /\ request'.orders = chosen
    BY <2>1
  <2> HIDE DEF chosen
  <2>6. \A n \in DOMAIN chosen : Len(info[chosen[n].protocol].fills) = 1
    BY <2>2, <2>3, <2>4
  <2> QED  BY <1>2, <1>4, <2>3, <2>5, <2>6 DEF left
<1> QED  BY <1>3, <1>4

-----------------------------------------------------------------------------
(***************************************************************************)
(* What the position does keeps the invariant.                             *)
(***************************************************************************)
\* Slots that are known stay known, whatever is asked for next.
LEMMA SlotsStay ==
  ASSUME TypeOK, FillsHaveSlots, UNCHANGED <<deployed, polled>>,
         \A q \in Protocols : Len(dyn_info[q].fills) = 1 => Len(dyn_info'[q].fills) = 1,
         \A n \in DOMAIN rx_fills' : \E m \in DOMAIN rx_fills : rx_fills'[n] = rx_fills[m],
         \/ request' = request
         \/ \A n \in DOMAIN request'.orders : Len(dyn_info'[request'.orders[n].protocol].fills) = 1
  PROVE  FillsHaveSlots'
<1>1. /\ \A n \in DOMAIN rx_fills : rx_fills[n] \in Fills
      /\ \A n \in DOMAIN polled : polled[n] \in PolledFills
      /\ \A n \in DOMAIN deployed : deployed[n] \in Deployments
      /\ \A n \in DOMAIN request.orders : request.orders[n] \in Orders
  BY LenProperties, ElementOfSeq DEF TypeOK
<1>2. /\ \A n \in DOMAIN rx_fills : rx_fills[n].protocol \in Protocols
      /\ \A n \in DOMAIN polled : polled[n].protocol \in Protocols
      /\ \A n \in DOMAIN deployed : deployed[n].protocol \in Protocols
      /\ \A n \in DOMAIN request.orders : request.orders[n].protocol \in Protocols
  BY <1>1 DEF Fills, PolledFills, Deployments, Orders
<1>3. \A n \in DOMAIN rx_fills' : Len(dyn_info'[rx_fills'[n].protocol].fills) = 1
  BY <1>2 DEF FillsHaveSlots, Known
<1>4. \A n \in DOMAIN deployed' : Len(dyn_info'[deployed'[n].protocol].fills) = 1
  BY <1>2 DEF FillsHaveSlots, Known
<1>5. \A n \in DOMAIN request'.orders : Len(dyn_info'[request'.orders[n].protocol].fills) = 1
  BY <1>2 DEF FillsHaveSlots, Known
<1>6. \A n \in DOMAIN polled' : Len(dyn_info'[polled'[n].protocol].fills) = 1
  BY <1>2 DEF FillsHaveSlots, Known
<1> QED  BY <1>3, <1>4, <1>5, <1>6 DEF FillsHaveSlots, Known

\* An update of a protocol changes what is asked for, and nothing in the books.
LEMMA ReceiveProtocolOrdersInv ==
  ASSUME PositionInv, NEW p \in Protocols, ReceiveProtocolOrders(p)
  PROVE  PositionInv'
<1> USE DEF PositionInv, BooksNeverUnderstate
<1>1. PICK slots \in Updates[p] : dyn_info' = WithOrders(p, slots)
  BY DEF ReceiveProtocolOrders
<1>2. /\ loop = "running" /\ updates' = updates + 1
      /\ UNCHANGED <<executed_notional, last_fill_key, rx_fills>>
      /\ UNCHANGED <<deployed, astray, polled, last_reported, faults, bought, behind, lost>>
      /\ Ask(dyn_info', executed_notional, last_fill_key)
  BY DEF ReceiveProtocolOrders, runtimeVars
<1>3. slots \in Seq(Slot)
  BY PositionAssumption
<1>4. dyn_info' \in Infos
  <2> DEFINE none == [o \in DOMAIN slots |-> 0]
  <2>1. none \in Seq(Nat)
    <3> DEFINE l == Len(slots)
    <3>1. l \in Nat /\ DOMAIN slots = 1..l
      BY <1>3, LenProperties
    <3> HIDE DEF l
    <3> QED  BY <3>1
  <2> HIDE DEF none
  <2>2. dyn_info \in Infos /\ dyn_info[p].fills \in Seq(Nat)
    BY DEF TypeOK, Infos
  <2> DEFINE kept == IF dyn_info[p] = NoInfo THEN none ELSE dyn_info[p].fills
  <2>3. kept \in Seq(Nat)
    BY <2>1, <2>2
  <2>4. dyn_info' = [dyn_info EXCEPT ![p].slots = slots, ![p].fills = kept]
    BY <1>1 DEF WithOrders, none
  <2> HIDE DEF kept
  <2> QED  BY <1>3, <2>2, <2>3, <2>4 DEF Infos
<1>5. \A q \in Protocols : Len(dyn_info[q].fills) = 1 => Len(dyn_info'[q].fills) = 1
  <2> SUFFICES ASSUME NEW q \in Protocols, Len(dyn_info[q].fills) = 1  PROVE Len(dyn_info'[q].fills) = 1
    OBVIOUS
  <2>1. dyn_info[q] # NoInfo
    BY EmptySeq DEF NoInfo
  <2>2. dyn_info'[q].fills = dyn_info[q].fills
    BY <1>1, <2>1 DEF WithOrders, TypeOK
  <2> QED  BY <2>2
<1>6. executed_notional \in Nat /\ executed_notional < Target /\ request.key = last_fill_key
      /\ last_fill_key \in Nat
  BY <1>2 DEF TypeOK, RequestFits
<1>7. \/ loop' = "panicked" /\ UNCHANGED <<request, deployable>>
      \/ /\ deployable' = TRUE /\ UNCHANGED loop
         /\ request'.key = last_fill_key /\ request'.orders \in Seq(Orders)
         /\ Asked(request'.orders) <= Target - executed_notional
         /\ \A n \in DOMAIN request'.orders : Len(dyn_info'[request'.orders[n].protocol].fills) = 1
  BY <1>2, <1>4, <1>6, AskFits
<1>8. TypeOK'
  <2>1. request'.key \in 0..last_fill_key' /\ last_fill_key' \in 0..last_reported'
    BY <1>2, <1>6, <1>7 DEF TypeOK
  <2>2. loop' \in {"running", "completed", "panicked"} /\ deployable' \in BOOLEAN
        /\ request'.orders \in Seq(Orders)
    BY <1>7 DEF TypeOK
  <2>3. updates' \in Nat
    BY <1>2, SMTT(60) DEF TypeOK
  <2> QED  BY <1>2, <1>4, <2>1, <2>2, <2>3 DEF TypeOK, Infos
<1>9. bought' <= Reported' + Queued(polled') + Untold(deployed') + lost' /\ Capped'
  <2>1. Reported' = Reported
    BY <1>2 DEF Reported
  <2> QED  BY <1>2, <2>1 DEF Capped
<1>10. KeysInOrder'
  BY <1>2 DEF KeysInOrder
<1>11. RequestFits'
  <2>1. CASE loop' = "panicked" /\ UNCHANGED request
    BY <1>2, <2>1 DEF RequestFits
  <2>2. CASE request'.key = last_fill_key /\ Asked(request'.orders) <= Target - executed_notional
    BY <1>2, <1>6, <2>2 DEF RequestFits
  <2> QED  BY <1>7, <2>1, <2>2
<1>12. FillsHaveSlots'
  <2>1. request' = request \/ \A n \in DOMAIN request'.orders : Len(dyn_info'[request'.orders[n].protocol].fills) = 1
    BY <1>7
  <2>2. \A n \in DOMAIN rx_fills' : \E m \in DOMAIN rx_fills : rx_fills'[n] = rx_fills[m]
    BY <1>2
  <2> QED  BY <1>2, <1>5, <2>1, <2>2, SlotsStay
<1> QED  BY <1>8, <1>9, <1>10, <1>11, <1>12
\* A fill moves from the queue to the books, and the next key with it; the
\* recalculation is from the books that have it.
LEMMA ReceiveProtocolFillsInv ==
  ASSUME PositionInv, ReceiveProtocolFills
  PROVE  PositionInv'
<1> USE DEF PositionInv, BooksNeverUnderstate
<1> DEFINE f == Head(rx_fills)
<1>1. /\ loop = "running" /\ rx_fills # <<>> /\ rx_fills' = Tail(rx_fills)
      /\ last_fill_key' = f.key /\ executed_notional' = executed_notional + f.qty
      /\ dyn_info' = [dyn_info EXCEPT ![f.protocol].fills[f.ordinal] = @ + f.qty]
      /\ UNCHANGED <<updates, deployed, astray, polled, last_reported, faults, bought, behind, lost>>
  BY DEF ReceiveProtocolFills, ExecutedWith, WithFill, runtimeVars
<1>2. IF Sufficient(executed_notional')
      THEN loop' = "completed" /\ UNCHANGED <<request, deployable>>
      ELSE Ask(dyn_info', executed_notional', last_fill_key')
  BY DEF ReceiveProtocolFills
<1>3. /\ f \in Fills /\ rx_fills' \in Seq(Fills) /\ Len(rx_fills') = Len(rx_fills) - 1
      /\ Len(rx_fills) \in Nat \ {0}
      /\ \A n \in 1..Len(rx_fills') : rx_fills'[n] = rx_fills[n + 1]
      /\ DOMAIN rx_fills' = 1..Len(rx_fills') /\ DOMAIN rx_fills = 1..Len(rx_fills)
      /\ f = rx_fills[1]
  <2>1. rx_fills \in Seq(Fills) /\ rx_fills # <<>>
    BY <1>1 DEF TypeOK
  <2>2. f \in Fills /\ Tail(rx_fills) \in Seq(Fills) /\ Len(Tail(rx_fills)) = Len(rx_fills) - 1
        /\ \A n \in 1..Len(Tail(rx_fills)) : Tail(rx_fills)[n] = rx_fills[n + 1]
    BY <2>1, HeadTailProperties
  <2>3. Len(rx_fills) \in Nat \ {0} /\ f = rx_fills[1]
    BY <2>1, EmptySeq
  <2>4. DOMAIN Tail(rx_fills) = 1..Len(Tail(rx_fills)) /\ DOMAIN rx_fills = 1..Len(rx_fills)
    BY <2>1, <2>2, LenProperties
  <2> HIDE DEF f
  <2> QED  BY <1>1, <2>2, <2>3, <2>4, Zenon
<1>4. Queued(rx_fills) = f.qty + Queued(rx_fills')
  BY <1>1, QueueShrinks DEF TypeOK
<1>5. f.key = last_fill_key + 1
  BY <1>3 DEF KeysInOrder
<1>6. Len(dyn_info[f.protocol].fills) = 1
  BY <1>3 DEF FillsHaveSlots, Known
<1> HIDE DEF f
<1>7. f.protocol \in Protocols /\ f.ordinal = 1 /\ f.qty \in Nat
  BY <1>3 DEF Fills
<1>8. /\ Queued(rx_fills) \in Int /\ Queued(rx_fills') \in Int /\ executed_notional \in Nat
      /\ last_fill_key \in Nat
  <2>1. last_fill_key \in Nat
    BY DEF TypeOK
  <2>2. Queued(rx_fills') \in Int
    BY <1>3, QuantityTypes
  <2> QED  BY <2>1, <2>2, Numbers
<1>9. dyn_info' \in Infos /\ \A q \in Protocols : Len(dyn_info[q].fills) = 1 => Len(dyn_info'[q].fills) = 1
  <2> DEFINE p == f.protocol  old == dyn_info[p].fills  new == [old EXCEPT ![1] = @ + f.qty]
  <2>1. old \in Seq(Nat) /\ Len(old) = 1 /\ p \in Protocols
    BY <1>6, <1>7 DEF TypeOK
  <2> HIDE DEF old
  <2>2. new \in Seq(Nat) /\ Len(new) = 1
    <3>1. old \in [1..1 -> Nat] /\ 1 \in 1..Len(old)
      <4>1. old \in [1..Len(old) -> Nat]
        BY <2>1, LenProperties, Zenon
      <4>2. 1 \in 1..Len(old)
        BY <2>1
      <4> QED  BY <2>1, <4>1, <4>2, Zenon
    <3> DEFINE v == old[1] + f.qty
    <3>2. v \in Nat
      <4>1. old[1] \in Nat
        BY <3>1
      <4> QED  BY <1>7, <4>1
    <3>3. new = [old EXCEPT ![1] = v]
      OBVIOUS
    <3> HIDE DEF v
    <3>4. [old EXCEPT ![1] = v] \in Seq(Nat) /\ Len([old EXCEPT ![1] = v]) = Len(old)
      <4>1. old \in Seq(Nat) /\ 1 \in 1..Len(old) /\ v \in Nat
        BY <2>1, <3>1, <3>2
      <4> HIDE DEF new
      <4> QED  BY <4>1, ExceptSeq, SMTT(60)
    <3> QED  BY <2>1, <3>3, <3>4
  <2>3. dyn_info' = [dyn_info EXCEPT ![p].fills = new]
    BY <1>1, <1>7 DEF old
  <2> HIDE DEF new, p
  <2> QED  BY <2>1, <2>2, <2>3 DEF TypeOK, Infos
<1>10. executed_notional' \in Nat /\ last_fill_key' \in Nat /\ last_fill_key < last_fill_key'
  <2>1. last_fill_key' = last_fill_key + 1
    BY <1>1, <1>5
  <2> DEFINE x == f.qty
  <2>2. executed_notional' = executed_notional + x /\ x \in Nat
    BY <1>1, <1>7
  <2> HIDE DEF x
  <2>3. executed_notional' \in Nat
    BY <1>8, <2>2
  <2> QED  BY <1>8, <2>1, <2>3
<1>11. request.key < last_fill_key'
  BY <1>8, <1>10, SMTT(60) DEF TypeOK
<1>12. \/ loop' \in {"completed", "panicked"} /\ UNCHANGED <<request, deployable>>
       \/ /\ deployable' = TRUE /\ UNCHANGED loop /\ executed_notional' < Target
          /\ request'.key = last_fill_key' /\ request'.orders \in Seq(Orders)
          /\ Asked(request'.orders) <= Target - executed_notional'
          /\ \A n \in DOMAIN request'.orders : Len(dyn_info'[request'.orders[n].protocol].fills) = 1
  <2>1. CASE Sufficient(executed_notional')
    BY <1>2, <2>1
  <2>2. CASE ~Sufficient(executed_notional')
    <3>1. executed_notional' < Target
      BY <1>10, <2>2, PositionAssumption DEF Sufficient
    <3>2. Ask(dyn_info', executed_notional', last_fill_key')
      BY <1>2, <2>2
    <3> QED  BY <1>9, <1>10, <3>1, <3>2, AskFits
  <2> QED  BY <2>1, <2>2
<1>13. KeysInOrder'
  <2>1. last_reported' = last_fill_key' + Len(rx_fills')
    BY <1>1, <1>3, <1>5, <1>8 DEF KeysInOrder
  <2>2. ASSUME NEW n \in DOMAIN rx_fills'  PROVE rx_fills'[n].key = last_fill_key' + n
    <3>1. n + 1 \in DOMAIN rx_fills /\ rx_fills'[n] = rx_fills[n + 1] /\ n \in Nat
      BY <1>3
    <3>2. rx_fills[n + 1].key = last_fill_key + (n + 1)
      BY <3>1 DEF KeysInOrder
    <3> QED  BY <1>1, <1>5, <1>8, <3>1, <3>2
  <2> QED  BY <2>1, <2>2 DEF KeysInOrder
<1>14. TypeOK'
  <2>1. last_fill_key' \in 0..last_reported'
    <3>1. Len(rx_fills') \in Nat /\ last_reported' = last_fill_key' + Len(rx_fills')
      BY <1>3, <1>13 DEF KeysInOrder
    <3> QED  BY <1>10, <3>1
  <2>2. request'.key \in 0..last_fill_key'
    <3>1. CASE UNCHANGED request
      BY <1>10, <1>11, <3>1 DEF TypeOK
    <3>2. CASE request'.key = last_fill_key'
      BY <1>10, <3>2
    <3> QED  BY <1>12, <3>1, <3>2
  <2>3. loop' \in {"running", "completed", "panicked"} /\ deployable' \in BOOLEAN
        /\ request'.orders \in Seq(Orders)
    BY <1>12 DEF TypeOK
  <2>4. /\ {executed_notional, updates, astray, faults, bought, behind, lost}' \subseteq Nat
        /\ rx_fills' \in Seq(Fills) /\ polled' \in Seq(PolledFills)
    BY <1>1, <1>3, <1>10 DEF TypeOK
  <2>5. /\ deployed' \in Seq(Deployments)
        /\ \A n \in DOMAIN deployed' : deployed'[n].told <= deployed'[n].executed
                                       /\ deployed'[n].executed <= deployed'[n].qty
    BY <1>1 DEF TypeOK
  <2>6. dyn_info' \in [Protocols -> [slots : Seq(Slot), fills : Seq(Nat)]]
    BY <1>9 DEF Infos
  <2> QED  BY <2>1, <2>2, <2>3, <2>4, <2>5, <2>6, Zenon DEF TypeOK
<1>15. bought' <= Reported' + Queued(polled') + Untold(deployed') + lost'
  <2> DEFINE x == f.qty
  <2>1. x \in Nat /\ executed_notional' = executed_notional + x /\ Queued(rx_fills) = x + Queued(rx_fills')
    BY <1>1, <1>4, <1>7
  <2> HIDE DEF x
  <2>2. Reported' = Reported
    BY <1>8, <2>1 DEF Reported
  <2> QED  BY <1>1, <2>2
<1>16. Capped'
  BY <1>1 DEF Capped
<1>17. RequestFits'
  <2>1. CASE loop' \in {"completed", "panicked"} /\ UNCHANGED request
    BY <1>10, <1>11, <2>1 DEF RequestFits, TypeOK
  <2>2. CASE /\ executed_notional' < Target /\ request'.key = last_fill_key'
             /\ Asked(request'.orders) <= Target - executed_notional'
    BY <2>2 DEF RequestFits
  <2> QED  BY <1>12, <2>1, <2>2
<1>18. FillsHaveSlots'
  <2>1. request' = request \/ \A n \in DOMAIN request'.orders : Len(dyn_info'[request'.orders[n].protocol].fills) = 1
    BY <1>12
  <2>2. \A n \in DOMAIN rx_fills' : \E m \in DOMAIN rx_fills : rx_fills'[n] = rx_fills[m]
    BY <1>3, SMTT(60)
  <2> QED  BY <1>1, <1>9, <2>1, <2>2, SlotsStay
<1> QED  BY <1>13, <1>14, <1>15, <1>16, <1>17, <1>18

-----------------------------------------------------------------------------
\* The invariant holds of every behaviour.
THEOREM PositionInvariant == Spec => []PositionInv
<1>1. Init => PositionInv
  <2> SUFFICES ASSUME Init  PROVE PositionInv
    OBVIOUS
  <2>1. <<>> \in Seq(Orders) /\ <<>> \in Seq(Fills) /\ <<>> \in Seq(Deployments)
        /\ <<>> \in Seq(Slot) /\ <<>> \in Seq(Nat) /\ <<>> \in Seq(PolledFills)
    BY EmptySeq
  <2>2. Asked(<<>>) = 0 /\ Queued(<<>>) = 0 /\ Untold(<<>>) = 0 /\ Open(<<>>) = 0
    <3>1. Asked(<<>>) = 0
      BY <2>1, OrdersSeq, SumType DEF Asked
    <3>2. Queued(<<>>) = 0
      BY <2>1, QueueSeq, SumType DEF Queued
    <3>3. Untold(<<>>) = 0 /\ Open(<<>>) = 0
      BY <2>1, DeployedSeq, SumType DEF Untold, Open
    <3> QED  BY <3>1, <3>2, <3>3
  <2>3. Target \in Nat \ {0}
    BY PositionAssumption
  <2>4. TypeOK
    <3>1. dyn_info \in [Protocols -> [slots : Seq(Slot), fills : Seq(Nat)]]
      BY <2>1 DEF Init, NoInfo
    <3>2. request.orders \in Seq(Orders) /\ rx_fills \in Seq(Fills) /\ deployed \in Seq(Deployments)
          /\ polled \in Seq(PolledFills) /\ DOMAIN deployed = {}
      BY <2>1 DEF Init
    <3>3. request.key \in 0..last_fill_key /\ last_fill_key \in 0..last_reported
      BY DEF Init
    <3>4. /\ {executed_notional, updates, astray, faults, bought, behind, lost} \subseteq Nat
          /\ loop \in {"running", "completed", "panicked"} /\ deployable \in BOOLEAN
      <4>1. deployable \in BOOLEAN
        BY Zenon DEF Init
      <4>2. {executed_notional, updates, astray, faults, bought, behind, lost} \subseteq Nat
        BY DEF Init
      <4> QED  BY <4>1, <4>2 DEF Init
    <3> QED  BY <3>1, <3>2, <3>3, <3>4, Zenon DEF TypeOK
  <2>5. BooksNeverUnderstate /\ Capped
    BY <2>2, <2>3, <2>4 DEF Init, BooksNeverUnderstate, Capped, Reported
  <2>6. KeysInOrder /\ FillsHaveSlots /\ RequestFits
    BY <2>2, <2>3 DEF Init, KeysInOrder, FillsHaveSlots, RequestFits
  <2> QED  BY <2>5, <2>6 DEF PositionInv
<1>2. PositionInv /\ [Next]_vars => PositionInv'
  <2> SUFFICES ASSUME PositionInv, [Next]_vars  PROVE PositionInv'
    OBVIOUS
  <2>1. ASSUME NEW p \in Protocols, ReceiveProtocolOrders(p)  PROVE PositionInv'
    BY <2>1, ReceiveProtocolOrdersInv
  <2>2. CASE ReceiveProtocolFills
    BY <2>2, ReceiveProtocolFillsInv
  <2>3. CASE Deploy
    BY <2>3, DeployInv
  <2>4. CASE Execute
    BY <2>4, ExecuteInv
  <2>5. CASE ExecuteAstray
    BY <2>5, ExecuteAstrayInv
  <2>6. CASE Poll
    BY <2>6, PollInv
  <2>7. CASE Report
    BY <2>7, ReportInv
  <2>8. CASE UNCHANGED vars
    BY <2>8 DEF vars, positionVars, runtimeVars, PositionInv, BooksNeverUnderstate, TypeOK,
                Reported, KeysInOrder, FillsHaveSlots, Known, RequestFits, Capped
  <2> QED  BY <2>1, <2>2, <2>3, <2>4, <2>5, <2>6, <2>7, <2>8 DEF Next
<1> QED  BY <1>1, <1>2, PTL DEF Spec

\* The position never comes to hold more than it was to acquire, except what its
\* last batch could not be reduced by, because no report had told it when it was
\* deployed or an order the runtime had given up executed it later: what is
\* deployed can execute no more than what is left, and a stale request is not
\* deployed.
THEOREM NeverOverbuys == Spec => []NoOverbuy
<1>1. PositionInv => NoOverbuy
  <2> SUFFICES ASSUME PositionInv  PROVE NoOverbuy
    OBVIOUS
  <2>1. TypeOK /\ Capped
    BY DEF PositionInv, BooksNeverUnderstate
  <2>2. /\ bought \in Nat /\ behind \in Nat /\ Target \in Nat /\ Open(deployed) \in Nat
    BY <2>1, Numbers
  <2>3. bought + Open(deployed) <= Target + behind
    BY <2>1 DEF Capped
  <2> QED  BY <2>2, <2>3 DEF NoOverbuy
<1> QED  BY <1>1, PositionInvariant, PTL

\* What was bought is known to the position, on its way to it, about to be
\* polled, or lost with an order the runtime forgot; and the state keeps its shape.
THEOREM BooksAreTrue == Spec => []BooksNeverUnderstate
<1>1. PositionInv => BooksNeverUnderstate
  BY DEF PositionInv
<1> QED  BY <1>1, PositionInvariant, PTL

\* What is requested, over all protocols and types, is no more than what is left.
THEOREM RequestsStayWithinLeft == Spec => []RequestWithinLeft
<1>1. PositionInv => RequestWithinLeft
  BY DEF PositionInv, RequestFits, RequestWithinLeft
<1> QED  BY <1>1, PositionInvariant, PTL
-----------------------------------------------------------------------------
(***************************************************************************)
(* The allocation against its definition.                                  *)
(***************************************************************************)
\* A product grows with its factor.
LEMMA ProductsGrow ==
  ASSUME NEW a \in Int, NEW b \in Int, NEW c \in Nat, a <= b
  PROVE  a * c <= b * c
OBVIOUS

\* A share of at most the whole is at most the whole.
LEMMA ShareWithin ==
  ASSUME NEW a \in Nat, NEW w \in Nat \ {0}, a <= w, NEW l \in Nat
  PROVE  (a * l) \div w \in 0..l
<1> DEFINE x == a * l  d == x \div w
<1>1. x \in Nat /\ x <= w * l
  BY ProductsGrow
<1>2. d \in Int /\ w * d <= x /\ x < w * d + w
  <2> HIDE DEF x
  <2> QED  BY <1>1
<1> HIDE DEF x, d
<1>3. d <= l
  <2>1. SUFFICES ASSUME l + 1 <= d  PROVE FALSE
    BY <1>2
  <2>2. (l + 1) * w <= d * w
    BY <1>2, <2>1, ProductsGrow
  <2> QED  BY <1>1, <1>2, <2>2
<1>4. d >= 0
  <2>1. SUFFICES ASSUME d + 1 <= 0  PROVE FALSE
    BY <1>2
  <2>2. (d + 1) * w <= 0 * w
    BY <1>2, <2>1, ProductsGrow
  <2> QED  BY <1>1, <1>2, <2>2
<1> QED  BY <1>2, <1>3, <1>4 DEF d, x

\* A part is no more than the whole it is divided from.
LEMMA PartWithin ==
  ASSUME NEW x \in Nat, NEW k \in Nat \ {0}
  PROVE  x \div k \in 0..x
<1>1. 1 * x \in Nat /\ (1 * x) \div k \in 0..x
  BY ShareWithin
<1> QED  BY <1>1

\* Partial sums of terms that are not negative only grow.
LEMMA AddsGrow ==
  ASSUME NEW s \in Seq(Int), NEW g, Adds(g, s), \A i \in 1..Len(s) : s[i] >= 0
  PROVE  \A i \in 0..Len(s) : 0 <= g[i] /\ g[i] <= g[Len(s)]
<1> DEFINE n == Len(s)
<1>1. n \in Nat
  BY LenProperties
<1>2. /\ g[0] = 0 /\ \A i \in 0..n : g[i] \in Int
      /\ \A i \in 1..n : g[i] = g[i - 1] + s[i] /\ s[i] \in Int /\ s[i] >= 0
  BY AddsUp
<1> HIDE DEF n
<1>3. \A i \in 1..n : i - 1 \in 0..n /\ i \in 0..n /\ g[i - 1] <= g[i]
  <2> SUFFICES ASSUME NEW i \in 1..n  PROVE i - 1 \in 0..n /\ i \in 0..n /\ g[i - 1] <= g[i]
    OBVIOUS
  <2> DEFINE d == s[i]
  <2>1. i - 1 \in 0..n /\ i \in 0..n
    BY <1>1
  <2>2. g[i] = g[i - 1] + d /\ d \in Int /\ d >= 0 /\ g[i - 1] \in Int
    BY <1>2, <2>1
  <2> HIDE DEF d
  <2> QED  BY <2>1, <2>2
<1> DEFINE T == {i \in 0..n : 0 <= g[i]}  U == {k \in 0..n : g[n - k] <= g[n]}
<1>4. \A i \in 0..n : i \in T
  <2>1. 0 \in T
    BY <1>1, <1>2
  <2>2. \A i \in 1..n : i - 1 \in T => i \in T
    BY <1>2, <1>3
  <2> HIDE DEF T
  <2> QED  BY <1>1, <2>1, <2>2, Induction
<1>5. \A k \in 0..n : k \in U
  <2>1. 0 \in U
    BY <1>1, <1>2
  <2>2. ASSUME NEW k \in 1..n, k - 1 \in U  PROVE k \in U
    <3> DEFINE i == n - (k - 1)
    <3>1. i \in 1..n /\ n - k = i - 1 /\ k \in 0..n /\ i - 1 \in 0..n /\ i \in 0..n /\ n \in 0..n
      BY <1>1
    <3>2. g[i] <= g[n]
      BY <2>2
    <3> HIDE DEF i
    <3>3. g[i - 1] <= g[i] /\ g[i - 1] \in Int /\ g[i] \in Int /\ g[n] \in Int
      BY <1>2, <1>3, <3>1
    <3>4. g[n - k] <= g[n]
      BY <3>1, <3>2, <3>3
    <3> QED  BY <3>1, <3>4
  <2> HIDE DEF U
  <2> QED  BY <1>1, <2>1, <2>2, Induction
<1>6. ASSUME NEW i \in 0..n  PROVE 0 <= g[i] /\ g[i] <= g[n]
  <2>1. n - i \in 0..n /\ n - (n - i) = i
    BY <1>1
  <2>2. n - i \in U
    BY <1>5, <2>1
  <2> QED  BY <1>4, <2>1, <2>2
<1> QED  BY <1>6 DEF n
\* What slot t of the turns g turns into: nothing, what it claims, or nothing
\* and a share for those after it.
Claim(g, slots, t) == ((slots[t].pct + g[t - 1].extra) * g[t - 1].left) \div Whole

TurnsInto(g, slots, mins, n, t, x, l, e) ==
  /\ g[t].placed = Append(g[t - 1].placed, x) /\ g[t].left = l /\ g[t].extra = e
  /\ x \in Nat /\ l \in Int /\ e \in Int
  /\ \/ slots[t] = Inactive /\ x = 0 /\ l = g[t - 1].left /\ e = g[t - 1].extra
     \/ /\ slots[t] # Inactive /\ Claim(g, slots, t) > mins[t]
        /\ x = Claim(g, slots, t) /\ x # 0 /\ l = g[t - 1].left - x /\ e = g[t - 1].extra
     \/ /\ slots[t] # Inactive /\ ~ (Claim(g, slots, t) > mins[t])
        /\ x = 0 /\ l = g[t - 1].left /\ e = g[t - 1].extra + ShareOfSkipped(slots[t].pct, n, t)

TurnTypes(g, slots, mins, t) ==
  /\ Len(g[t - 1].placed) = t - 1 /\ g[t - 1].placed \in Seq(Int)
  /\ g[t].placed \in Seq(Int) /\ Len(g[t].placed) = t
  /\ g[t - 1].left \in Int /\ g[t - 1].extra \in Int /\ slots[t].pct \in Nat
  /\ Claim(g, slots, t) \in Int /\ mins[t] \in Nat

\* A turn is one of the three.
LEMMA TurnCases ==
  ASSUME NEW slots \in Seq(Slot), NEW mins, \A o \in 1..Len(slots) : mins[o] \in Nat,
         NEW left \in Int, NEW g, Turns(g, slots, mins, left), NEW t \in 1..Len(slots)
  PROVE  /\ TurnTypes(g, slots, mins, t)
         /\ \E x, l, e : TurnsInto(g, slots, mins, Len(slots), t, x, l, e)
<1> DEFINE n == Len(slots)
<1>1. n \in Nat /\ t \in 1..n /\ slots[t] \in Slot /\ mins[t] \in Nat
  BY LenProperties, ElementOfSeq
<1>2. /\ \A i \in 0..n : g[i] \in Accumulators
      /\ g[0].placed = <<>>
      /\ \A i \in 1..n : g[i] = Turn(g[i - 1], slots[i], mins[i], n) /\ Len(g[i].placed) = i
  <2>1. /\ g \in [0..n -> Accumulators] /\ g[0] = [placed |-> <<>>, left |-> left, extra |-> 0]
        /\ \A i \in 1..n : g[i] = Turn(g[i - 1], slots[i], mins[i], n) /\ Len(g[i].placed) = i
    BY Zenon DEF Turns
  <2> HIDE DEF n
  <2> QED  BY <2>1
<1> HIDE DEF n
<1>3. t - 1 \in 0..n /\ t \in 0..n
  BY <1>1
<1>4. Len(g[t - 1].placed) = t - 1
  <2>1. CASE t = 1
    <3>1. g[t - 1].placed = <<>>
      BY <1>2, <2>1
    <3> QED  BY <2>1, <3>1, EmptySeq
  <2>2. CASE t # 1
    <3>1. t - 1 \in 1..n
      BY <1>1, <2>2
    <3> QED  BY <1>2, <3>1
  <2> QED  BY <2>1, <2>2
<1>5. /\ g[t - 1].placed \in Seq(Int) /\ g[t - 1].left \in Int /\ g[t - 1].extra \in Int
      /\ g[t].placed \in Seq(Int) /\ g[t].left \in Int /\ g[t].extra \in Int
      /\ Len(g[t].placed) = t
  BY <1>1, <1>2, <1>3 DEF Accumulators
<1>6. slots[t].pct \in Nat
  BY <1>1 DEF Slot, Inactive
<1>7. Claim(g, slots, t) \in Int
  <2> DEFINE a == (slots[t].pct + g[t - 1].extra) * g[t - 1].left
  <2>1. a \in Int
    BY <1>5, <1>6, SMTT(60)
  <2> HIDE DEF a
  <2>2. a \div Whole \in Int
    BY <2>1, WholeAssumption
  <2> QED  BY <2>2 DEF Claim, a
<1> DEFINE acc == g[t - 1]  d == Claim(g, slots, t)
           skipped == [acc EXCEPT !.placed = Append(@, NotPlaced)]
           placed == [acc EXCEPT !.placed = Append(@, d), !.left = @ - d]
           passed == [acc EXCEPT !.placed = Append(@, NotPlaced),
                                 !.extra = @ + ShareOfSkipped(slots[t].pct, n, t)]
<1>8. acc \in Accumulators
  BY <1>2, <1>3
<1>9. g[t] = IF slots[t] = Inactive THEN skipped ELSE IF d > mins[t] THEN placed ELSE passed
  <2>1. g[t] = Turn(acc, slots[t], mins[t], n) /\ Len(acc.placed) + 1 = t
    BY <1>1, <1>2, <1>4
  <2> QED  BY <2>1 DEF Turn, Claim
<1>a. TurnTypes(g, slots, mins, t)
  BY <1>1, <1>4, <1>5, <1>6, <1>7 DEF TurnTypes
<1> HIDE DEF acc, d
<1>10. CASE slots[t] = Inactive
  <2>1. /\ g[t].placed = Append(acc.placed, 0) /\ g[t].left = acc.left /\ g[t].extra = acc.extra
    BY <1>8, <1>9, <1>10 DEF Accumulators, NotPlaced
  <2>2. TurnsInto(g, slots, mins, n, t, 0, acc.left, acc.extra)
    BY <1>5, <1>10, <2>1 DEF TurnsInto, acc
  <2> QED  BY <1>a, <2>2 DEF n
<1>11. CASE slots[t] # Inactive /\ d > mins[t]
  <2>1. g[t].placed = Append(acc.placed, d) /\ g[t].left = acc.left - d /\ g[t].extra = acc.extra
    BY <1>8, <1>9, <1>11 DEF Accumulators
  <2>2. d \in Nat /\ d # 0
    BY <1>1, <1>7, <1>11 DEF d
  <2>3. TurnsInto(g, slots, mins, n, t, d, acc.left - d, acc.extra)
    BY <1>5, <1>11, <2>1, <2>2 DEF TurnsInto, acc, d
  <2> QED  BY <1>a, <2>3 DEF n
<1>12. CASE slots[t] # Inactive /\ ~ (d > mins[t])
  <2> DEFINE e == acc.extra + ShareOfSkipped(slots[t].pct, n, t)
  <2>1. g[t].placed = Append(acc.placed, 0) /\ g[t].left = acc.left /\ g[t].extra = e
    BY <1>8, <1>9, <1>12 DEF Accumulators, NotPlaced
  <2>2. TurnsInto(g, slots, mins, n, t, 0, acc.left, e)
    BY <1>5, <1>12, <2>1 DEF TurnsInto, acc, d
  <2> QED  BY <1>a, <2>2 DEF n
<1> QED  BY <1>10, <1>11, <1>12

\* What the orders up to t pass on, given what was placed.
PassedOn(slots, placed, t) ==
  [j \in 1..t |-> IF slots[j] = Inactive \/ placed[j] # 0 THEN 0
                  ELSE slots[j].pct \div (Len(slots) - j)]

\* Along the turns: what is left is what has not been placed, percentages are
\* only passed on, and what was placed stays.
Along(g, slots, left, t) ==
  /\ g[t].left = left - SumOf(g[t].placed) /\ g[t].left >= 0
  /\ g[t].extra >= 0 /\ g[t].extra <= SumOf([o \in 1..t |-> slots[o].pct])
  /\ t < Len(slots) => g[t].extra = SumOf(PassedOn(slots, g[t].placed, t))

\* A turn keeps what holds along the turns.
LEMMA AlongStep ==
  ASSUME NEW slots \in Seq(Slot), NEW mins, \A o \in 1..Len(slots) : mins[o] \in Nat,
         NEW left \in Int, NEW g, Turns(g, slots, mins, left), NEW t \in 1..Len(slots),
         SumOf([o \in 1..t |-> slots[o].pct]) <= Whole, Along(g, slots, left, t - 1)
  PROVE  Along(g, slots, left, t) /\ \A o \in 1..(t - 1) : g[t].placed[o] = g[t - 1].placed[o]
<1> DEFINE n == Len(slots)  s == g[t - 1].placed  p == slots[t].pct
           d == Claim(g, slots, t)  l0 == g[t - 1].left  e0 == g[t - 1].extra
<1>1. /\ Len(s) = t - 1 /\ s \in Seq(Int) /\ g[t].placed \in Seq(Int) /\ Len(g[t].placed) = t
      /\ l0 \in Int /\ e0 \in Int /\ p \in Nat /\ d \in Int /\ mins[t] \in Nat
      /\ n \in Nat /\ t \in 1..n /\ t - 1 \in Nat /\ t \in Nat
  <2>1. n \in Nat /\ t \in 1..n
    BY LenProperties
  <2>2. t - 1 \in Nat /\ t \in Nat
    BY <2>1
  <2>3. /\ Len(s) = t - 1 /\ s \in Seq(Int) /\ g[t].placed \in Seq(Int) /\ Len(g[t].placed) = t
        /\ l0 \in Int /\ e0 \in Int /\ p \in Nat /\ d \in Int /\ mins[t] \in Nat
    <3>1. TurnTypes(g, slots, mins, t)
      BY TurnCases
    <3> QED  BY <3>1, Zenon DEF TurnTypes
  <2> QED  BY <2>1, <2>2, <2>3, Zenon
<1>2. PICK x, l, e : TurnsInto(g, slots, mins, n, t, x, l, e)
  BY TurnCases
<1>3. \A j \in 1..n : slots[j].pct \in Nat
  BY LenProperties, ElementOfSeq DEF Slot, Inactive
<1> HIDE DEF s, n
<1>4. g[t].placed = Append(s, x) /\ g[t].left = l /\ g[t].extra = e /\ x \in Nat /\ l \in Int /\ e \in Int
  BY <1>2 DEF TurnsInto, s
<1>5. /\ \A o \in 1..(t - 1) : g[t].placed[o] = s[o]
      /\ g[t].placed[t] = x
  <2>1. x \in Int /\ s \in Seq(Int) /\ Len(s) = t - 1
    BY <1>1, <1>4
  <2>2. (\A o \in 1..Len(s) : Append(s, x)[o] = s[o]) /\ Append(s, x)[Len(s) + 1] = x
    BY <2>1, AppendProperties
  <2>3. Len(s) + 1 = t
    BY <1>1
  <2> QED  BY <1>4, <2>1, <2>2, <2>3, Zenon
<1>6. SumOf(g[t].placed) = SumOf(s) + x /\ SumOf(s) \in Int
  <2> DEFINE r == g[t].placed
  <2>1. r \in Seq(Int) /\ s \in Seq(Int) /\ Len(r) = Len(s) + 1 /\ (\A i \in 1..Len(s) : r[i] = s[i])
        /\ Len(s) + 1 = t
    BY <1>1, <1>5
  <2>2. r[t] = x
    BY <1>5
  <2> HIDE DEF r
  <2>3. SumOf(r) = SumOf(s) + r[Len(s) + 1]
    BY <2>1, SumGrows
  <2>4. SumOf(s) \in Int
    BY <2>1, SumType
  <2> QED  BY <2>1, <2>2, <2>3, <2>4 DEF r
<1> DEFINE pcts(k) == [o \in 1..k |-> slots[o].pct]
<1>7. SumOf(pcts(t)) = SumOf(pcts(t - 1)) + p /\ SumOf(pcts(t - 1)) \in Int
  <2> DEFINE k == t - 1  a == pcts(k)  b == pcts(t)
  <2>1. k \in Nat /\ t = k + 1 /\ \A o \in 1..t : slots[o].pct \in Int
    BY <1>1, <1>3, SMTT(60)
  <2>2. a = [o \in 1..k |-> slots[o].pct] /\ b = [o \in 1..t |-> slots[o].pct]
    OBVIOUS
  <2> HIDE DEF k, a, b
  <2>3. a \in Seq(Int) /\ Len(a) = k /\ b \in Seq(Int) /\ Len(b) = k + 1
        /\ \A i \in 1..k : b[i] = a[i]
    BY <1>1, <2>1, <2>2
  <2>4. b[k + 1] = p
    BY <1>1, <2>1, <2>2
  <2>5. SumOf(b) = SumOf(a) + b[k + 1]
    BY <2>3, SumGrows
  <2>6. SumOf(a) \in Int
    BY <2>3, SumType
  <2> QED  BY <2>4, <2>5, <2>6 DEF k, a, b
<1>8. /\ l0 = left - SumOf(s) /\ l0 >= 0 /\ e0 >= 0 /\ e0 <= SumOf(pcts(t - 1))
      /\ e0 = SumOf(PassedOn(slots, s, t - 1))
  <2>1. t - 1 < n
    BY <1>1
  <2> QED  BY <2>1 DEF Along, n, s
<1> HIDE DEF pcts
<1>9. SumOf(pcts(t)) <= Whole
  BY DEF pcts
<1>10. d \in 0..l0
  <2> DEFINE a == p + e0
  <2>1. a \in Nat /\ a <= Whole /\ l0 \in Nat /\ Whole \in Nat \ {0}
    <3> DEFINE u == SumOf(pcts(t - 1))  v == SumOf(pcts(t))
    <3>1. u \in Int /\ v = u + p /\ e0 \in Int /\ p \in Nat /\ e0 >= 0 /\ e0 <= u /\ v <= Whole
      BY <1>1, <1>7, <1>8, <1>9, Zenon
    <3>2. l0 \in Int /\ l0 >= 0
      BY <1>1, <1>8, Zenon
    <3> HIDE DEF u, v, p, e0, l0
    <3> QED  BY <3>1, <3>2, WholeAssumption
  <2> HIDE DEF a, l0
  <2>2. (a * l0) \div Whole \in 0..l0
    BY <2>1, ShareWithin
  <2> QED  BY <2>2 DEF Claim, a, l0
<1> DEFINE z == ShareOfSkipped(p, n, t)
<1>11. z \in 0..p
  <2>1. CASE t = n
    BY <1>1, <2>1 DEF ShareOfSkipped
  <2>2. CASE t # n
    <3>1. n - t \in Nat \ {0}
      BY <1>1, <2>2
    <3> HIDE DEF p
    <3>2. p \div (n - t) \in 0..p
      BY <1>1, <3>1, PartWithin
    <3> QED  BY <2>2, <3>2 DEF ShareOfSkipped
  <2> QED  BY <2>1, <2>2
<1>12. \/ slots[t] = Inactive /\ x = 0 /\ l = l0 /\ e = e0
       \/ slots[t] # Inactive /\ x = d /\ x # 0 /\ l = l0 - x /\ e = e0
       \/ slots[t] # Inactive /\ x = 0 /\ l = l0 /\ e = e0 + z
  BY <1>2 DEF TurnsInto, n
<1> DEFINE term == IF slots[t] = Inactive \/ x # 0 THEN 0 ELSE p \div (n - t)
<1>13. t < n => e = e0 + term /\ term \in Int
  <2> SUFFICES ASSUME t < n  PROVE e = e0 + term /\ term \in Int
    OBVIOUS
  <2>1. z = p \div (n - t)
    BY <1>1 DEF ShareOfSkipped
  <2>2. z \in Int /\ e0 \in Int
    BY <1>1, <1>11
  <2> HIDE DEF z, e0, d
  <2>3. CASE slots[t] = Inactive \/ x # 0
    <3>1. term = 0 /\ e = e0
      BY <1>12, <2>3
    <3> HIDE DEF term
    <3> QED  BY <2>2, <3>1
  <2>4. CASE ~ (slots[t] = Inactive \/ x # 0)
    <3>1. term = z /\ e = e0 + z
      BY <1>12, <2>1, <2>4
    <3> HIDE DEF term
    <3> QED  BY <2>2, <3>1
  <2> QED  BY <2>3, <2>4
<1> HIDE DEF z, d, l0, e0, p, term
<1>14. g[t].left = left - SumOf(g[t].placed) /\ g[t].left >= 0
  <2> DEFINE u == SumOf(s)
  <2>1. u \in Int /\ SumOf(g[t].placed) = u + x /\ l0 = left - u /\ l0 >= 0 /\ g[t].left = l
    BY <1>4, <1>6, <1>8, Zenon
  <2>2. l0 \in Int /\ x \in Nat /\ l \in Int /\ d \in 0..l0
    BY <1>1, <1>4, <1>10
  <2> HIDE DEF u
  <2>3. l = left - (u + x) /\ l >= 0
    BY <1>12, <2>1, <2>2
  <2> QED  BY <2>1, <2>3
<1>15. g[t].extra >= 0 /\ g[t].extra <= SumOf(pcts(t))
  <2> DEFINE u == SumOf(pcts(t - 1))  v == SumOf(pcts(t))
  <2>1. u \in Int /\ v = u + p /\ e0 >= 0 /\ e0 <= u
    BY <1>7, <1>8, Zenon
  <2>2. g[t].extra = e /\ p \in Nat /\ e0 \in Int /\ z \in 0..p
    BY <1>1, <1>4, <1>11
  <2>3. e = e0 \/ e = e0 + z
    BY <1>12
  <2> HIDE DEF u, v
  <2>4. e >= 0 /\ e <= v
    BY <2>1, <2>2, <2>3
  <2> QED  BY <2>2, <2>4 DEF v
<1>16. ASSUME t < n  PROVE g[t].extra = SumOf(PassedOn(slots, g[t].placed, t))
  <2> DEFINE k == t - 1  r == g[t].placed
             part(placed, j) == IF slots[j] = Inactive \/ placed[j] # 0 THEN 0 ELSE slots[j].pct \div (n - j)
             a == PassedOn(slots, s, k)  b == PassedOn(slots, r, t)
  <2>1. k \in Nat /\ t = k + 1 /\ (\A i \in 1..k : r[i] = s[i]) /\ r[t] = x
    BY <1>1, <1>5
  <2>2. a = [j \in 1..k |-> part(s, j)] /\ b = [j \in 1..t |-> part(r, j)]
    BY DEF PassedOn, n
  <2>3. ASSUME NEW j \in 1..t, NEW q  PROVE part(q, j) \in Int
    <3> DEFINE y == slots[j].pct
    <3>1. n - j \in Nat \ {0} /\ y \in Nat
      BY <1>1, <1>3, <1>16
    <3> HIDE DEF y
    <3>2. y \div (n - j) \in Int
      BY <3>1
    <3> QED  BY <3>2 DEF y
  <2>4. part(r, t) = term
    BY <2>1 DEF term, p
  <2>5. \A j \in 1..k : part(r, j) = part(s, j)
    BY <2>1
  <2> HIDE DEF k, a, b, part, r
  <2>6. a \in Seq(Int) /\ Len(a) = k /\ b \in Seq(Int) /\ Len(b) = k + 1
        /\ (\A i \in 1..k : b[i] = a[i]) /\ b[k + 1] = part(r, t)
    BY <2>1, <2>2, <2>3, <2>5
  <2>7. SumOf(b) = SumOf(a) + b[k + 1]
    BY <2>6, SumGrows
  <2>8. SumOf(a) = e0
    BY <1>8 DEF a, k
  <2>9. e = e0 + term
    BY <1>13, <1>16
  <2>10. SumOf(b) = e
    BY <2>4, <2>6, <2>7, <2>8, <2>9
  <2> QED  BY <1>4, <2>10 DEF b, r
<1> QED  BY <1>5, <1>14, <1>15, <1>16 DEF Along, n, pcts, s
\* The sum of the first terms is their partial sum.
LEMMA PrefixSum ==
  ASSUME NEW s \in Seq(Int), NEW g, Adds(g, s), NEW k \in 0..Len(s),
         NEW r \in Seq(Int), Len(r) = k, \A i \in 1..k : r[i] = s[i]
  PROVE  SumOf(r) = g[k]
<1> DEFINE n == Len(s)  h == [i \in 0..k |-> g[i]]
<1>1. n \in Nat /\ k \in 0..n /\ k \in Nat /\ k = Len(r)
  BY LenProperties
<1>2. /\ g[0] = 0 /\ \A i \in 0..n : g[i] \in Int
      /\ \A i \in 1..n : g[i] = g[i - 1] + s[i]
  BY AddsUp
<1> HIDE DEF n
<1>3. h \in [0..k -> Int] /\ h[0] = 0 /\ h[k] = g[k]
  BY <1>1, <1>2
<1>4. ASSUME NEW i \in 1..k  PROVE h[i] = h[i - 1] + r[i]
  <2>1. h[i] = g[i] /\ h[i - 1] = g[i - 1] /\ i \in 1..n
    BY <1>1
  <2>2. r[i] = s[i] /\ g[i] = g[i - 1] + s[i]
    BY <1>2, <2>1
  <2> HIDE DEF h
  <2> QED  BY <2>1, <2>2, Zenon
<1> HIDE DEF h
<1>5. SumOf(r) = h[k]
  BY <1>1, <1>3, <1>4, AddsIf, ZenonT(60)
<1> QED  BY <1>3, <1>5

\* What slot o claims of what is left, when the percentages before it passed on
\* are those of the orders that were not placed.
Claimed(slots, placed, left, o) ==
  ((slots[o].pct + SumOf(PassedOn(slots, placed, o - 1)))
    * (left - SumOf(SubSeq(placed, 1, o - 1)))) \div Whole

\* Place gives every order its claim, if that is above the minimum, and all
\* together no more than there is.
LEMMA PlaceMatches ==
  ASSUME NEW slots \in Seq(Slot), NEW mins, \A o \in 1..Len(slots) : mins[o] \in Nat,
         NEW left \in Nat, SumOf([o \in 1..Len(slots) |-> slots[o].pct]) <= Whole
  PROVE  LET placed == Place(slots, mins, left)
         IN /\ SumOf(placed) <= left
            /\ \A o \in 1..Len(slots) :
                 placed[o] = IF slots[o] # Inactive /\ Claimed(slots, placed, left, o) > mins[o]
                             THEN Claimed(slots, placed, left, o) ELSE 0
            /\ \A o \in 1..Len(slots) : Claimed(slots, placed, left, o) \in Int
<1> DEFINE n == Len(slots)  placed == Place(slots, mins, left)
           pcts(k) == [o \in 1..k |-> slots[o].pct]
<1>1. PICK g : Turns(g, slots, mins, left) /\ placed = g[n].placed
  BY PlaceIs
<1>2. n \in Nat /\ \A o \in 1..n : slots[o].pct \in Nat
  BY LenProperties, ElementOfSeq DEF Slot, Inactive
<1>3. \A t \in 1..n : TurnTypes(g, slots, mins, t)
  BY <1>1, TurnCases
<1>4. \A t \in 1..n : \E x, l, e : TurnsInto(g, slots, mins, n, t, x, l, e)
  BY <1>1, TurnCases
<1>5. g[0] = [placed |-> <<>>, left |-> left, extra |-> 0]
  BY <1>1, Zenon DEF Turns
<1>6. \A t \in 1..n : SumOf(pcts(t)) <= Whole
  <2> SUFFICES ASSUME NEW t \in 1..n  PROVE SumOf(pcts(t)) <= Whole
    OBVIOUS
  <2> DEFINE all == pcts(n)  some == pcts(t)
  <2>1. all = [o \in 1..n |-> slots[o].pct] /\ some = [o \in 1..t |-> slots[o].pct]
    OBVIOUS
  <2>2. SumOf(all) <= Whole
    OBVIOUS
  <2> HIDE DEF n, all, some
  <2>3. t \in 0..n /\ n \in 0..n /\ \A o \in 1..t : o \in 1..n
    BY <1>2
  <2>4. /\ all \in Seq(Int) /\ Len(all) = n /\ some \in Seq(Int) /\ Len(some) = t
        /\ (\A o \in 1..n : all[o] >= 0) /\ \A o \in 1..t : some[o] = all[o]
    BY <1>2, <2>1, <2>3
  <2>5. PICK q : Adds(q, all)
    BY <2>4, PartialSums
  <2>6. SumOf(all) = q[n] /\ SumOf(some) = q[t]
    BY <2>3, <2>4, <2>5, PrefixSum, SumIs, ZenonT(60)
  <2>7. q[t] <= q[n] /\ q[t] \in Int /\ q[n] \in Int
    BY <2>3, <2>4, <2>5, AddsGrow, AddsUp
  <2> QED  BY <2>2, <2>6, <2>7, WholeAssumption DEF some
<1> DEFINE T == {t \in 0..n : Along(g, slots, left, t) /\ \A o \in 1..t : g[t].placed[o] = g[o].placed[o]}
<1>7. 0 \in T
  <2> DEFINE none == PassedOn(slots, g[0].placed, 0)
  <2>1. g[0].placed = <<>> /\ g[0].left = left /\ g[0].extra = 0
    BY <1>5
  <2>2. <<>> \in Seq(Int) /\ Len(<<>>) = 0
    BY EmptySeq
  <2>3. pcts(0) \in Seq(Int) /\ Len(pcts(0)) = 0
    OBVIOUS
  <2>4. none \in Seq(Int) /\ Len(none) = 0
    BY DEF PassedOn
  <2> HIDE DEF none, pcts
  <2>5. SumOf(<<>>) = 0 /\ SumOf(pcts(0)) = 0 /\ SumOf(none) = 0
    BY <2>2, <2>3, <2>4, SumType
  <2>6. Along(g, slots, left, 0)
    <3>1. left = left - 0
      OBVIOUS
    <3> QED  BY <2>1, <2>5, <3>1 DEF Along, pcts, none
  <2> QED  BY <1>2, <2>6
<1>8. ASSUME NEW t \in 1..n, t - 1 \in T  PROVE t \in T
  <2>1. Along(g, slots, left, t - 1) /\ \A o \in 1..(t - 1) : g[t - 1].placed[o] = g[o].placed[o]
    BY <1>8
  <2>2. Along(g, slots, left, t) /\ \A o \in 1..(t - 1) : g[t].placed[o] = g[t - 1].placed[o]
    <3>1. SumOf([o \in 1..t |-> slots[o].pct]) <= Whole
      BY <1>6
    <3> HIDE DEF pcts
    <3> QED  BY <1>1, <2>1, <3>1, AlongStep
  <2> HIDE DEF n
  <2>3. \A o \in 1..t : g[t].placed[o] = g[o].placed[o]
    <3> SUFFICES ASSUME NEW o \in 1..t  PROVE g[t].placed[o] = g[o].placed[o]
      OBVIOUS
    <3>1. o = t \/ o \in 1..(t - 1)
      BY <1>2
    <3> QED  BY <2>1, <2>2, <3>1
  <2>4. t \in 0..n
    BY <1>2
  <2> QED  BY <2>2, <2>3, <2>4
<1>9. \A t \in 0..n : t \in T
  <2> HIDE DEF T, n
  <2> QED  BY <1>2, <1>7, <1>8, Induction
<1> HIDE DEF n, placed, pcts
<1>10. \A t \in 0..n : Along(g, slots, left, t) /\ \A o \in 1..t : g[t].placed[o] = g[o].placed[o]
  BY <1>9
<1>11. \A o \in 1..n : placed[o] = g[o].placed[o]
  BY <1>1, <1>2, <1>10
<1>12. placed \in Seq(Int) /\ Len(placed) = n
  <2>1. CASE n = 0
    <3>1. placed = <<>>
      BY <1>1, <1>5, <2>1
    <3> QED  BY <2>1, <3>1, EmptySeq
  <2>2. CASE n # 0
    <3>1. TurnTypes(g, slots, mins, n)
      BY <1>2, <1>3, <2>2
    <3> QED  BY <1>1, <3>1, Zenon DEF TurnTypes
  <2> QED  BY <2>1, <2>2
<1>13. SumOf(placed) <= left
  <2>1. g[n].left = left - SumOf(placed) /\ g[n].left >= 0
    <3>1. n \in 0..n
      BY <1>2
    <3> QED  BY <1>1, <1>10, <3>1, Zenon DEF Along
  <2>2. SumOf(placed) \in Int
    BY <1>12, SumType
  <2> QED  BY <2>1, <2>2
<1>14. ASSUME NEW o \in 1..n
       PROVE  /\ Claimed(slots, placed, left, o) \in Int
              /\ placed[o] = IF slots[o] # Inactive /\ Claimed(slots, placed, left, o) > mins[o]
                             THEN Claimed(slots, placed, left, o) ELSE 0
  <2> DEFINE s == g[o - 1].placed
  <2>1. o - 1 \in 0..n /\ o - 1 \in Nat /\ o - 1 < n /\ o \in 0..n
    BY <1>2
  <2>2. TurnTypes(g, slots, mins, o)
    BY <1>3
  <2>3. s \in Seq(Int) /\ Len(s) = o - 1 /\ g[o].placed \in Seq(Int) /\ Len(g[o].placed) = o
        /\ Claim(g, slots, o) \in Int /\ mins[o] \in Nat
    BY <2>2, Zenon DEF TurnTypes
  <2>4. \A j \in 1..(o - 1) : s[j] = placed[j]
    <3> SUFFICES ASSUME NEW j \in 1..(o - 1)  PROVE s[j] = placed[j]
      OBVIOUS
    <3>1. j \in 1..n
      BY <1>2
    <3>2. s[j] = g[j].placed[j]
      BY <1>10, <2>1
    <3> HIDE DEF s
    <3> QED  BY <1>11, <3>1, <3>2
  <2> HIDE DEF s
  <2>5. SubSeq(placed, 1, o - 1) = s
    <3> DEFINE m == o - 1  b == SubSeq(placed, 1, m)
    <3>1. m \in Nat /\ 1 \in Int /\ m \in Int /\ \A i \in 1..m : placed[i] \in Int
      BY <1>2, <1>12, <2>1, LenProperties
    <3>2. \A i \in 1..m : s[i] = placed[i]
      BY <2>4
    <3>3. s \in Seq(Int) /\ Len(s) = m
      BY <2>3
    <3> HIDE DEF m
    <3>4. b \in Seq(Int) /\ Len(b) = (IF 1 <= m THEN m - 1 + 1 ELSE 0)
          /\ \A i \in 1..(m - 1 + 1) : b[i] = placed[1 + i - 1]
      BY <3>1, SubSeqProperties
    <3>5. Len(b) = m /\ \A i \in 1..m : b[i] = placed[i]
      BY <3>1, <3>4
    <3> HIDE DEF b
    <3>6. b = s
      BY <3>2, <3>3, <3>4, <3>5, SeqEqual
    <3> QED  BY <3>6 DEF b, m
  <2>6. PassedOn(slots, placed, o - 1) = PassedOn(slots, s, o - 1)
    BY <2>4 DEF PassedOn
  <2>7. g[o - 1].left = left - SumOf(s) /\ g[o - 1].extra = SumOf(PassedOn(slots, s, o - 1))
    BY <1>10, <2>1, Zenon DEF Along, s, n
  <2>8. Claimed(slots, placed, left, o) = Claim(g, slots, o)
    BY <2>5, <2>6, <2>7, Zenon DEF Claimed, Claim
  <2>9. PICK x, l, e : TurnsInto(g, slots, mins, n, o, x, l, e)
    BY <1>4
  <2>10. placed[o] = x
    <3>1. g[o].placed = Append(s, x) /\ x \in Int
      BY <2>9 DEF TurnsInto, s
    <3>2. Append(s, x)[Len(s) + 1] = x
      BY <2>3, <3>1, AppendProperties
    <3>3. Len(s) + 1 = o
      BY <2>3
    <3> QED  BY <1>11, <3>1, <3>2, <3>3, Zenon
  <2>11. x = IF slots[o] # Inactive /\ Claim(g, slots, o) > mins[o] THEN Claim(g, slots, o) ELSE 0
    BY <2>9 DEF TurnsInto
  <2> QED  BY <2>3, <2>8, <2>10, <2>11, Zenon
<1> QED  BY <1>13, <1>14 DEF placed, n

\* What is computed is the allocation of the input, whose percentages are no
\* more than the whole.
AllocationInv ==
  input.kind = "allocation" =>
    /\ input.slots \in Seq(Slot) /\ input.filled \in Seq(Int) /\ input.controlled \in Int
    /\ input.min \in Nat /\ SumOf([o \in DOMAIN input.slots |-> input.slots[o].pct]) <= Whole
    /\ result.computed =>
         Value = RecalculateAllocation(input.slots, input.filled,
                                       [o \in DOMAIN input.slots |-> input.min],
                                       input.controlled, input.min)

\* The allocation of such an input matches its definition.
LEMMA AllocationMatches ==
  ASSUME AllocationInv
  PROVE  MatchesDefinition
<1> SUFFICES ASSUME Computed("allocation")  PROVE MatchesDefinition
  BY DEF MatchesDefinition
<1> DEFINE slots == input.slots  min == input.min  left == input.controlled - SumOf(input.filled)
           n == Len(slots)  mins == [o \in DOMAIN slots |-> min]
<1>1. /\ slots \in Seq(Slot) /\ input.filled \in Seq(Int) /\ input.controlled \in Int /\ min \in Nat
      /\ SumOf([o \in DOMAIN slots |-> slots[o].pct]) <= Whole
      /\ Value = RecalculateAllocation(slots, input.filled, mins, input.controlled, min)
  BY DEF Computed, AllocationInv
<1>2. n \in Nat /\ DOMAIN slots = 1..n /\ \A o \in 1..n : mins[o] = min
  BY <1>1, LenProperties
<1>3. left \in Int /\ Left(input.controlled, input.filled) = left
  BY <1>1, SumType DEF Left
<1> DEFINE P == Value.placed
           claim(o) == (Share(o) * (left - SumOf(SubSeq(P, 1, o - 1)))) \div Whole
<1>4. SUFFICES /\ SumOf(P) <= IF Value.in_play THEN left ELSE 0
               /\ Value.in_play => \A o \in 1..n : IF slots[o] = Inactive \/ claim(o) <= min
                                                   THEN P[o] = 0 ELSE P[o] = claim(o)
  <2>1. ASSUME NEW o \in 1..n  PROVE Placed(o) <=> P[o] # 0
    BY DEF Placed, NotPlaced
  <2> HIDE DEF claim, n, P
  <2>2. ASSUME NEW o \in 1..n, IF slots[o] = Inactive \/ claim(o) <= min THEN P[o] = 0 ELSE P[o] = claim(o)
        PROVE  IF slots[o] = Inactive \/ claim(o) <= min THEN ~Placed(o) ELSE P[o] = claim(o)
    BY <2>1, <2>2
  <2> QED  BY <1>2, <2>2 DEF MatchesDefinition, claim, P
<1>5. CASE left < min
  <2>1. P = [o \in 1..n |-> 0] /\ Value.in_play = FALSE
    BY <1>1, <1>2, <1>3, <1>5 DEF RecalculateAllocation, NotPlaced
  <2> HIDE DEF P, n
  <2>2. P \in Seq(Int) /\ Len(P) = n /\ \A o \in 1..n : P[o] = 0
    BY <1>2, <2>1
  <2>3. SumOf(P) = 0
    BY <2>2, SumOfZeros
  <2> QED  BY <2>1, <2>3
<1>6. CASE ~ (left < min)
  <2>1. P = Place(slots, mins, left) /\ Value.in_play = TRUE
    BY <1>1, <1>3, <1>6 DEF RecalculateAllocation
  <2>2. left \in Nat /\ SumOf([o \in 1..n |-> slots[o].pct]) <= Whole /\ \A o \in 1..n : mins[o] \in Nat
    BY <1>1, <1>2, <1>3, <1>6
  <2> HIDE DEF mins, left, slots
  <2>3. /\ SumOf(P) <= left
        /\ \A o \in 1..n : P[o] = IF slots[o] # Inactive /\ Claimed(slots, P, left, o) > mins[o]
                                  THEN Claimed(slots, P, left, o) ELSE 0
        /\ \A o \in 1..n : Claimed(slots, P, left, o) \in Int
    <3> HIDE DEF P
    <3> QED  BY <1>1, <2>1, <2>2, PlaceMatches
  <2>4. ASSUME NEW o \in 1..n  PROVE claim(o) = Claimed(slots, P, left, o)
    <3>1. Share(o) = slots[o].pct + SumOf(PassedOn(slots, P, o - 1))
      BY DEF Share, PassedOn, Placed, NotPlaced, slots
    <3> QED  BY <3>1, Zenon DEF Claimed
  <2> HIDE DEF P, claim, min
  <2>5. ASSUME NEW o \in 1..n
        PROVE  IF slots[o] = Inactive \/ claim(o) <= min THEN P[o] = 0 ELSE P[o] = claim(o)
    <3>1. claim(o) \in Int /\ mins[o] = min /\ min \in Nat
          /\ P[o] = IF slots[o] # Inactive /\ claim(o) > mins[o] THEN claim(o) ELSE 0
      BY <1>1, <1>2, <2>3, <2>4
    <3> QED  BY <3>1
  <2> QED  BY <2>1, <2>3, <2>5
<1> QED  BY <1>3, <1>5, <1>6

\* Every order of a protocol is placed with what its percentage, and those it
\* inherits from skipped orders, claim of what the orders before it have left,
\* and all of them together with no more than the protocol has left.
THEOREM AllocationIsRight == AlgorithmsSpec => []MatchesDefinition
<1>1. AlgorithmsInit => AllocationInv
  <2> SUFFICES ASSUME AlgorithmsInit  PROVE AllocationInv
    OBVIOUS
  <2>1. ~result.computed
    BY DEF AlgorithmsInit, NotComputed
  <2>2. CASE ChooseAllocation
    <3>1. PICK n \in 1..MaxSlots : \E s \in [1..n -> Slots], f \in [1..n -> FillSizes],
                                      m \in MinQties, c \in Notionals :
            /\ Requestable(s)
            /\ input = [kind |-> "allocation", slots |-> s, filled |-> f, min |-> m, controlled |-> c]
      BY <2>2 DEF ChooseAllocation
    <3>2. PICK s \in [1..n -> Slots], f \in [1..n -> FillSizes], m \in MinQties, c \in Notionals :
            /\ Requestable(s)
            /\ input = [kind |-> "allocation", slots |-> s, filled |-> f, min |-> m, controlled |-> c]
      BY <3>1
    <3>3. n \in Nat /\ Slots \subseteq Slot /\ FillSizes \subseteq Int /\ MinQties \subseteq Nat /\ Notionals \subseteq Int
      BY AllocationInputs DEF Slots, Slot
    <3>4. s \in Seq(Slot) /\ f \in Seq(Int)
      <4>1. s \in [1..n -> Slot] /\ f \in [1..n -> Int]
        BY <3>3
      <4> QED  BY <3>3, <4>1, SeqDef
    <3>5. SumOf([o \in DOMAIN s |-> s[o].pct]) <= Whole
      <4> DEFINE asked == SumOf([o \in DOMAIN s |-> s[o].pct])
      <4>1. asked \in 1..Whole
        BY <3>2 DEF Requestable
      <4> HIDE DEF asked
      <4>2. asked <= Whole
        BY <4>1, WholeAssumption
      <4> QED  BY <4>2 DEF asked
    <3>6. input.slots = s /\ input.filled = f /\ input.min = m /\ input.controlled = c
      BY <3>2
    <3> QED  BY <2>1, <3>3, <3>4, <3>5, <3>6 DEF AllocationInv
  <2>3. CASE ~ChooseAllocation
    <3>1. input.kind \in {"sizing", "moves"}
      BY <2>3 DEF AlgorithmsInit, ChooseSizing, ChooseMoves
    <3> QED  BY <3>1 DEF AllocationInv
  <2> QED  BY <2>2, <2>3
<1>2. AllocationInv /\ [AlgorithmsNext]_algorithmVars => AllocationInv'
  <2> SUFFICES ASSUME AllocationInv, [AlgorithmsNext]_algorithmVars  PROVE AllocationInv'
    OBVIOUS
  <2>1. CASE Allocate
    BY <2>1 DEF Allocate, Computes, AllocationInv, Value
  <2>2. CASE SizeTrade \/ MeasureMoves
    BY <2>2 DEF SizeTrade, MeasureMoves, Computes, AllocationInv
  <2>3. CASE UNCHANGED algorithmVars
    BY <2>3 DEF algorithmVars, AllocationInv, Value
  <2> QED  BY <2>1, <2>2, <2>3 DEF AlgorithmsNext
<1> QED  BY <1>1, <1>2, AllocationMatches, PTL DEF AlgorithmsSpec
-----------------------------------------------------------------------------
(***************************************************************************)
(* The sizing: what rounding adds, and what the layers take.               *)
(***************************************************************************)
\* The sizes that Magnitude has a scale of.
Sizable == {v \in Nat : 100 <= v /\ v < 100000000}

\* A size has a magnitude, of which the scales of the candidates are parts.
LEMMA MagnitudeIs ==
  ASSUME NEW v \in Sizable
  PROVE  LET m == Magnitude(v)
         IN /\ m \in {100, 1000, 10000, 100000, 1000000, 10000000} /\ m <= v
            /\ {10 * m, 5 * m, m, m \div 2, m \div 10, m \div 20, m \div 100} \subseteq Nat \ {0}
            /\ 100 * (m \div 100) = m
<1> DEFINE Scales == {100, 1000, 10000, 100000, 1000000, 10000000}  m == Magnitude(v)
<1>1. v \in Nat /\ \E x \in Scales : x <= v /\ v < 10 * x
  BY SMT DEF Sizable
<1>2. m \in Scales /\ m <= v /\ v < 10 * m
  BY <1>1, SMT DEF Magnitude
<1> HIDE DEF m
<1>3. ASSUME NEW x \in Scales
      PROVE  /\ {10 * x, 5 * x, x, x \div 2, x \div 10, x \div 20, x \div 100} \subseteq Nat \ {0}
             /\ 100 * (x \div 100) = x
  BY SMT
<1> QED  BY <1>2, <1>3, SMT DEF m

\* What a quotient is.
LEMMA DivisionIs ==
  ASSUME NEW a \in Int, NEW w \in Nat \ {0}
  PROVE  LET q == a \div w IN q \in Int /\ w * q <= a /\ a < w * q + w
OBVIOUS

\* It is not negative if what is divided is not.
LEMMA QuotientIs ==
  ASSUME NEW a \in Nat, NEW w \in Nat \ {0}
  PROVE  LET q == a \div w IN q \in Nat /\ w * q <= a /\ a < w * q + w
<1> DEFINE q == a \div w
<1>1. q \in Int /\ w * q <= a /\ a < w * q + w
  BY DivisionIs
<1> HIDE DEF q
<1>2. q >= 0
  <2>1. SUFFICES ASSUME q + 1 <= 0  PROVE FALSE
    BY <1>1
  <2>2. (q + 1) * w <= 0 * w
    BY <1>1, <2>1, ProductsGrow
  <2> QED  BY <1>1, <2>2
<1> QED  BY <1>1, <1>2 DEF q

\* The nearest multiple is half a step away at most.
LEMMA NearestIs ==
  ASSUME NEW v \in Nat, NEW step \in Nat \ {0}
  PROVE  LET c == NearestMultiple(v, step)
         IN c \in Nat /\ 2 * (c - v) <= step /\ 2 * (v - c) <= step
<1> DEFINE a == 2 * v + step  b == 2 * step  q == a \div b
<1>1. a \in Nat /\ b \in Nat \ {0} /\ b = 2 * step /\ a = 2 * v + step
  OBVIOUS
<1>2. q \in Nat /\ b * q <= a /\ a < b * q + b
  BY <1>1, QuotientIs
<1> HIDE DEF a, b, q
<1> DEFINE c == q * step
<1>3. c \in Nat /\ b * q = 2 * c
  BY <1>1, <1>2
<1>4. c = NearestMultiple(v, step)
  BY DEF NearestMultiple, q, a, b
<1> HIDE DEF c
<1>5. 2 * (c - v) <= step /\ 2 * (v - c) <= step
  BY <1>1, <1>2, <1>3
<1> QED  BY <1>3, <1>4, <1>5

\* The closest of the round numbers is half a percent away at most, the finest
\* of the scales being a hundredth of the magnitude.
LEMMA ClosestIs ==
  ASSUME NEW v \in Sizable
  PROVE  LET c == ClosestRound(v) IN c \in Nat /\ 200 * (c - v) <= v /\ 200 * (v - c) <= v
<1> DEFINE m == Magnitude(v)  C == Candidates(v)  fine == NearestMultiple(v, m \div 100)
           Steps == {10 * m, 5 * m, m, m \div 2, m \div 10, m \div 20, m \div 100}
           T == {Distance(c, v) : c \in C}
<1>1. m \in Nat /\ m <= v /\ Steps \subseteq Nat \ {0} /\ 100 * (m \div 100) = m /\ v \in Nat
  <2>1. v \in Nat
    BY SMT DEF Sizable
  <2> QED  BY <2>1, MagnitudeIs, SMT
<1>2. C = {NearestMultiple(v, step) : step \in Steps} \ {0} /\ m \div 100 \in Steps
  BY DEF Candidates
<1> HIDE DEF m, C
<1>3. /\ fine \in Nat /\ 200 * (fine - v) <= v /\ 200 * (v - fine) <= v
  <2> DEFINE s == m \div 100
  <2>1. s \in Nat \ {0} /\ 100 * s <= v
    BY <1>1
  <2> HIDE DEF s
  <2>2. fine \in Nat /\ 2 * (fine - v) <= s /\ 2 * (v - fine) <= s
    BY <1>1, <2>1, NearestIs DEF s
  <2> HIDE DEF fine
  <2> QED  BY <1>1, <2>1, <2>2
<1>4. ASSUME NEW c \in C  PROVE c \in Nat
  <2>1. PICK step \in Steps : c = NearestMultiple(v, step)
    BY <1>2
  <2>2. step \in Nat \ {0}
    BY <1>1
  <2> HIDE DEF Steps
  <2> QED  BY <1>1, <2>1, <2>2, NearestIs
<1>5. fine \in C
  <2>1. fine # 0
    <3> HIDE DEF fine
    <3>1. v \in Nat /\ v > 0
      BY SMT DEF Sizable
    <3> QED  BY <1>3, <3>1
  <2> QED  BY <1>2, <2>1
<1> HIDE DEF fine
<1>6. \E c \in C : \A d \in C : Distance(c, v) <= Distance(d, v)
  <2>1. T \subseteq Nat /\ T # {}
    BY <1>1, <1>4, <1>5 DEF Distance
  <2>2. PICK x \in T : \A y \in T : x <= y
    <3> HIDE DEF T
    <3> QED  BY <2>1, LeastOf
  <2> QED  BY <2>2
<1> DEFINE c == ClosestRound(v)
<1>7. c \in C /\ Distance(c, v) <= Distance(fine, v)
  BY <1>5, <1>6 DEF ClosestRound, C
<1> HIDE DEF c
<1>8. c \in Nat /\ 200 * (c - v) <= v /\ 200 * (v - c) <= v
  BY <1>1, <1>3, <1>4, <1>7 DEF Distance
<1> QED  BY <1>8 DEF c

\* A size moves by the bias of that, in hundredths.
LEMMA RoundsWithin ==
  ASSUME NEW v \in Sizable, NEW bias \in Nat, bias <= 100
  PROVE  LET size == RoundBiased(v, bias)
         IN /\ size \in Int /\ 200 * (size - 100 * v) <= v * bias /\ 200 * (100 * v - size) <= v * bias
<1> DEFINE c == ClosestRound(v)  d == c - v  x == d * bias
<1>1. c \in Nat /\ 200 * (c - v) <= v /\ 200 * (v - c) <= v
  BY ClosestIs
<1>2. d \in Int /\ 200 * d <= v /\ 200 * (-d) <= v /\ v \in Nat /\ v # 0 /\ bias \in Nat
  BY <1>1, SMT DEF Sizable
<1>3. RoundBiased(v, bias) = 100 * v + x
  BY <1>2 DEF RoundBiased
<1> HIDE DEF d
<1>4. x \in Int /\ 200 * x <= v * bias /\ 200 * (-x) <= v * bias
  <2>1. (200 * d) * bias <= v * bias /\ (200 * (-d)) * bias <= v * bias
    BY <1>2, ProductsGrow
  <2>2. (200 * d) * bias = 200 * x /\ (200 * (-d)) * bias = 200 * (-x) /\ x \in Int
    BY <1>2
  <2> QED  BY <2>1, <2>2
<1> HIDE DEF x
<1> DEFINE y == v * bias
<1>5. y \in Int
  BY <1>2
<1> HIDE DEF y
<1>6. 200 * x <= y /\ 200 * (-x) <= y
  BY <1>4 DEF y
<1>7. 200 * ((100 * v + x) - 100 * v) <= y /\ 200 * (100 * v - (100 * v + x)) <= y
  BY <1>2, <1>4, <1>5, <1>6
<1> QED  BY <1>2, <1>3, <1>4, <1>7 DEF y

\* Every tier but the test tier loses something, the more the nearer to A: at
\* most half as much as the tier above.
LEMMA PowersFall ==
  \A t \in 0..7 : /\ PowersOfE[t + 1] \in Nat /\ 9 <= PowersOfE[t + 1] /\ PowersOfE[t + 1] <= 10000
                  /\ \A u \in 0..7 : t < u => 2 * PowersOfE[u + 1] <= PowersOfE[t + 1]
<1>1. /\ PowersOfE[0 + 1] = 10000 /\ PowersOfE[1 + 1] = 3679 /\ PowersOfE[2 + 1] = 1353
      /\ PowersOfE[3 + 1] = 498 /\ PowersOfE[4 + 1] = 183 /\ PowersOfE[5 + 1] = 67
      /\ PowersOfE[6 + 1] = 25 /\ PowersOfE[7 + 1] = 9
  BY DEF PowersOfE
<1>2. ASSUME NEW t \in 0..7
      PROVE  t = 0 \/ t = 1 \/ t = 2 \/ t = 3 \/ t = 4 \/ t = 5 \/ t = 6 \/ t = 7
  OBVIOUS
<1> DEFINE P(t) == PowersOfE[t + 1]
<1>3. P(0) = 10000 /\ P(1) = 3679 /\ P(2) = 1353 /\ P(3) = 498 /\ P(4) = 183 /\ P(5) = 67 /\ P(6) = 25 /\ P(7) = 9
  BY <1>1
<1> HIDE DEF P
<1>4. \A t \in 0..7 : P(t) \in Nat /\ 9 <= P(t) /\ P(t) <= 10000 /\ \A u \in 0..7 : t < u => 2 * P(u) <= P(t)
  BY <1>2, <1>3
<1> QED  BY <1>4 DEF P

\* What the sizing is for: everything known to be held.
Held(in) == SumOf([n \in DOMAIN in.answers |-> in.answers[n].total]) + in.other

\* The size before rounding.
Unrounded(total, tier) == (RiskOf(total, tier, 2) * 100) \div 5

\* The totals that are known to be held: what is held elsewhere and at most two
\* of the balances.
Balances == {b \in Nat : b <= 100000000}
Totals == {t \in Nat : 500000 <= t /\ t <= 200500000}

\* It has a magnitude, loses no more than the risk, and halves from tier to tier.
LEMMA UnroundedIs ==
  ASSUME NEW total \in Totals, NEW t \in 0..7
  PROVE  /\ Unrounded(total, t) \in Sizable /\ 5 * Unrounded(total, t) <= 2 * total
         /\ \A u \in 0..7 : t < u => 2 * Unrounded(total, u) <= Unrounded(total, t)
<1> DEFINE k == (total * 2) \div 100  r(u) == (k * PowersOfE[u + 1]) \div 10000
<1>1. k \in Nat /\ 10000 <= k /\ k <= 4010000 /\ total \in Nat /\ 100 * k <= 2 * total
  BY SMT DEF Totals
<1> HIDE DEF k
<1>2. ASSUME NEW u \in 0..7
      PROVE  /\ RiskOf(total, u, 2) = r(u) /\ r(u) \in Nat /\ 9 <= r(u) /\ r(u) <= k
             /\ 10000 * r(u) <= k * PowersOfE[u + 1] /\ k * PowersOfE[u + 1] < 10000 * r(u) + 10000
             /\ k * PowersOfE[u + 1] \in Nat
  <2> DEFINE p == PowersOfE[u + 1]  x == k * p
  <2>1. p \in Nat /\ 9 <= p /\ p <= 10000 /\ k \in Nat
    BY <1>1, PowersFall, SMT
  <2> HIDE DEF p
  <2>2. x \in Nat /\ x <= 10000 * k /\ x >= 90000
    <3>1. p * k <= 10000 * k /\ 9 * k <= p * k
      BY <2>1, ProductsGrow, SMT
    <3>2. p * k = x /\ x \in Nat /\ 9 * k >= 90000
      BY <1>1, <2>1, SMT
    <3> HIDE DEF x
    <3> QED  BY <2>1, <3>1, <3>2, SMT
  <2> HIDE DEF x
  <2> DEFINE q == x \div 10000
  <2>3. q \in Nat /\ 10000 * q <= x /\ x < 10000 * q + 10000
    BY <2>2, SMT
  <2>4. q = r(u) /\ u # TestTier
    BY DEF x, p, TestTier
  <2>5. RiskOf(total, u, 2) = q
    BY <2>4 DEF RiskOf, k
  <2> HIDE DEF q
  <2>6. 9 <= q /\ q <= k
    BY <2>1, <2>2, <2>3, SMT
  <2> HIDE DEF r
  <2>7. k * PowersOfE[u + 1] = x
    BY DEF x, p
  <2> QED  BY <2>2, <2>3, <2>4, <2>5, <2>6, <2>7, SMT
<1> HIDE DEF r
<1>3. ASSUME NEW u \in 0..7  PROVE Unrounded(total, u) = 20 * r(u) /\ r(u) \in Nat
  <2>1. r(u) \in Nat /\ RiskOf(total, u, 2) = r(u)
    BY <1>1, <1>2, SMT
  <2>2. (r(u) * 100) \div 5 = 20 * r(u)
    BY <2>1, SMT
  <2> QED  BY <2>1, <2>2, SMT DEF Unrounded
<1>4. Unrounded(total, t) \in Sizable /\ 5 * Unrounded(total, t) <= 2 * total
  BY <1>1, <1>2, <1>3, SMT DEF Sizable
<1>5. ASSUME NEW u \in 0..7, t < u  PROVE 2 * Unrounded(total, u) <= Unrounded(total, t)
  <2> DEFINE p == PowersOfE[t + 1]  s == PowersOfE[u + 1]  a == k * p  b == k * s
  <2>1. p \in Nat /\ s \in Nat /\ 2 * s <= p /\ k \in Nat
    BY <1>1, <1>5, PowersFall, SMT
  <2>2. 10000 * r(u) <= b /\ a < 10000 * r(t) + 10000 /\ r(u) \in Nat /\ r(t) \in Nat
    BY <1>2, <1>3, SMT
  <2> HIDE DEF p, s
  <2>3. a \in Nat /\ b \in Nat /\ 2 * b <= a
    <3>1. (2 * s) * k <= p * k
      BY <2>1, ProductsGrow
    <3> QED  BY <2>1, <3>1
  <2> HIDE DEF a, b
  <2>4. 2 * r(u) <= r(t)
    BY <2>2, <2>3, SMT
  <2> QED  BY <1>3, <2>4, SMT
<1> QED  BY <1>4, <1>5

\* The sum of one or two amounts.
LEMMA TotalWithin ==
  ASSUME NEW s \in Seq(Balances), Len(s) <= 2
  PROVE  OtherBalances + SumOf(s) \in Totals
<1> DEFINE n == Len(s)
<1>1. n \in 0..2 /\ \A i \in 1..n : s[i] \in Balances
  <2>1. n \in Nat /\ s \in [1..n -> Balances]
    BY LenProperties
  <2> HIDE DEF n
  <2>2. n \in 0..2
    BY <2>1 DEF n
  <2> QED  BY <2>1, <2>2
<1>2. s \in Seq(Int)
  <2>1. s \in [1..n -> Balances] /\ Balances \subseteq Int
    BY LenProperties, SMT DEF Balances
  <2>2. s \in [1..n -> Int]
    BY <2>1
  <2> QED  BY <1>1, <2>2, SeqDef
<1>3. PICK g : Adds(g, s)
  BY <1>2, PartialSums
<1>4. SumOf(s) = g[n]
  BY <1>2, <1>3, SumIs
<1>5. g[0] = 0 /\ \A i \in 1..n : g[i] = g[i - 1] + s[i]
  BY <1>2, <1>3, AddsUp
<1> HIDE DEF n
<1>6. CASE n = 0
  BY <1>4, <1>5, <1>6, SMT DEF Totals, OtherBalances
<1>7. CASE n = 1
  <2>1. g[1] = g[0] + s[1] /\ s[1] \in Balances
    BY <1>1, <1>5, <1>7
  <2> QED  BY <1>4, <1>5, <1>7, <2>1, SMT DEF Totals, Balances, OtherBalances
<1>8. CASE n = 2
  <2>1. g[1] = g[0] + s[1] /\ s[1] \in Balances /\ g[2] = g[1] + s[2] /\ s[2] \in Balances
    BY <1>1, <1>5, <1>8
  <2> QED  BY <1>4, <1>5, <1>8, <2>1, SMTT(60) DEF Totals, Balances, OtherBalances
<1> QED  BY <1>1, <1>6, <1>7, <1>8

-----------------------------------------------------------------------------
\* The inputs of the sizing.
Layerings == UNION {{m \o p : p \in Proximity} : m \in Manual}
Sizings ==
  [kind : {"sizing"}, quality : DOMAIN Tier, manual : Manual,
   layers : Layerings, answers : {s \in Seq(Answers) : Len(s) \in 1..2},
   other : {OtherBalances}, abs_max_risk : {2}, sl_percent : {5}, bias : Biases]

\* What is computed is the size of the input.
SizingInv ==
  input.kind = "sizing" =>
    /\ input \in Sizings /\ \E p \in Proximity : input.layers = input.manual \o p
    /\ result.computed => Value = Size(input)

\* A sizing has one of the configured inputs, and its result is that input's size.
LEMMA SizingInvariant == AlgorithmsSpec => []SizingInv
<1>1. AlgorithmsInit => SizingInv
  <2> SUFFICES ASSUME AlgorithmsInit  PROVE SizingInv
    OBVIOUS
  <2>1. ~result.computed
    BY DEF AlgorithmsInit, NotComputed
  <2>2. CASE ChooseSizing
    <3>1. PICK q \in DOMAIN Tier, m \in Manual, p \in Proximity,
               a \in BoundedSeq(Answers, 2) \ {<<>>}, b \in Biases :
            input = [kind |-> "sizing", quality |-> q, manual |-> m, layers |-> m \o p, answers |-> a,
                     other |-> OtherBalances, abs_max_risk |-> 2, sl_percent |-> 5, bias |-> b]
      BY <2>2 DEF ChooseSizing
    <3>2. a \in Seq(Answers) /\ Len(a) \in 1..2
      <4>1. PICK n \in 0..2 : a \in [1..n -> Answers]
        BY DEF BoundedSeq, SeqOf
      <4>2. a \in Seq(Answers) /\ Len(a) = n
        BY <4>1, SeqDef, LenProperties
      <4>3. n # 0
        <5>1. a # <<>> => Len(a) # 0
          BY <4>2, EmptySeq
        <5> QED  BY <4>2, <5>1
      <4> QED  BY <4>2, <4>3
    <3>3. m \o p \in Layerings /\ OtherBalances \in {OtherBalances}
      BY DEF Layerings
    <3>4. input \in Sizings
      BY <3>1, <3>2, <3>3, Zenon DEF Sizings
    <3>5. input.layers = input.manual \o p
      BY <3>1
    <3> QED  BY <2>1, <3>4, <3>5 DEF SizingInv
  <2>3. CASE ~ChooseSizing
    <3>1. input.kind \in {"allocation", "moves"}
      BY <2>3 DEF AlgorithmsInit, ChooseAllocation, ChooseMoves
    <3> QED  BY <3>1 DEF SizingInv
  <2> QED  BY <2>2, <2>3
<1>2. SizingInv /\ [AlgorithmsNext]_algorithmVars => SizingInv'
  <2> SUFFICES ASSUME SizingInv, [AlgorithmsNext]_algorithmVars  PROVE SizingInv'
    OBVIOUS
  <2>1. CASE SizeTrade
    BY <2>1 DEF SizeTrade, Computes, SizingInv, Value
  <2>2. CASE Allocate \/ MeasureMoves
    BY <2>2 DEF Allocate, MeasureMoves, Computes, SizingInv
  <2>3. CASE UNCHANGED algorithmVars
    BY <2>3 DEF algorithmVars, SizingInv, Value
  <2> QED  BY <2>1, <2>2, <2>3 DEF AlgorithmsNext
<1> QED  BY <1>1, <1>2, PTL DEF AlgorithmsSpec

\* What is known of an input: its total, and the bias.
LEMMA SizingIs ==
  ASSUME NEW in \in Sizings
  PROVE  /\ in.bias \in Nat /\ in.bias <= 100 /\ in.abs_max_risk = 2 /\ in.sl_percent = 5
         /\ Held(in) \in Totals
         /\ LET collected == CollectBalances(in.answers)
            IN /\ collected.ok <=> \A n \in DOMAIN in.answers : in.answers[n].answer # "unauthorized"
               /\ collected.ok => TotalBalance(collected.balances, in.other) = Held(in)
<1> DEFINE a == in.answers  totals == [n \in DOMAIN a |-> a[n].total]
           counted == [n \in DOMAIN a |-> IF a[n].answer = "ok" THEN a[n].total ELSE 0]
<1>1. /\ a \in Seq(Answers) /\ Len(a) <= 2 /\ in.other = OtherBalances
      /\ in.abs_max_risk = 2 /\ in.sl_percent = 5 /\ in.bias \in Biases
  <2>1. in.answers \in {s \in Seq(Answers) : Len(s) \in 1..2}
    BY DEF Sizings
  <2>2. in.other \in {OtherBalances} /\ in.bias \in Biases
    BY Zenon DEF Sizings
  <2>3. in.abs_max_risk = 2 /\ in.sl_percent = 5
    BY DEF Sizings
  <2>4. in.answers \in Seq(Answers) /\ Len(in.answers) <= 2
    <3> DEFINE l == Len(in.answers)
    <3>1. in.answers \in Seq(Answers) /\ l \in 1..2
      BY <2>1
    <3> HIDE DEF l
    <3>2. l <= 2
      BY <3>1
    <3> QED  BY <3>1, <3>2 DEF l
  <2> QED  BY <2>2, <2>3, <2>4
<1>2. ASSUME NEW n \in DOMAIN a
      PROVE  a[n].total \in Balances /\ (a[n].answer # "ok" => a[n].total = 0)
  <2>1. a[n] \in Answers
    BY <1>1
  <2>2. CASE a[n] \in [answer : {"ok"}, total : Amounts]
    <3>1. a[n].total \in Amounts /\ a[n].answer = "ok"
      BY <2>2
    <3>2. \A x \in Amounts : x \in Nat /\ x <= 100000000
      BY SizingInputs, SMT
    <3>3. Amounts \subseteq Balances
      BY <3>2, SMT DEF Balances
    <3> QED  BY <3>1, <3>3
  <2>3. CASE a[n] \in [answer : {"unauthorized", "failed"}, total : {0}]
    <3>1. a[n].total = 0
      BY <2>3
    <3> QED  BY <3>1, SMT DEF Balances
  <2> QED  BY <2>1, <2>2, <2>3 DEF Answers
<1>3. counted = totals
  BY <1>2
<1>4. totals \in Seq(Balances) /\ Len(totals) <= 2
  <2> DEFINE l == Len(a)
  <2>1. l \in Nat /\ DOMAIN a = 1..l /\ l <= 2
    BY <1>1, LenProperties
  <2> HIDE DEF l
  <2>2. totals \in [1..l -> Balances]
    BY <1>2, <2>1
  <2> HIDE DEF totals
  <2>3. totals \in Seq(Balances)
    BY <2>1, <2>2, SeqDef
  <2>4. Len(totals) = l
    BY <2>1, <2>2, <2>3, LenProperties
  <2> QED  BY <2>1, <2>3, <2>4
<1>5. Held(in) = OtherBalances + SumOf(totals) /\ Held(in) \in Totals
  <2> DEFINE s == SumOf(totals)
  <2>1. OtherBalances + s \in Totals
    BY <1>4, TotalWithin
  <2>2. s \in Int
    <3>1. Balances \subseteq Int
      BY SMT DEF Balances
    <3> QED  BY <1>4, <3>1, SeqMonotonic, SumType
  <2>3. Held(in) = s + OtherBalances
    BY <1>1 DEF Held
  <2>4. OtherBalances \in Int
    BY SMT DEF OtherBalances
  <2> HIDE DEF s
  <2> QED  BY <2>1, <2>2, <2>3, <2>4 DEF s
<1>6. LET collected == CollectBalances(a)
      IN /\ collected.ok <=> \A n \in DOMAIN a : a[n].answer # "unauthorized"
         /\ collected.ok => collected.balances = counted
  BY DEF CollectBalances
<1>7. in.bias \in Nat /\ in.bias <= 100
  <2>1. \A b \in Biases : b \in Nat /\ b <= 100
    BY SizingInputs, SMT
  <2> QED  BY <1>1, <2>1
<1> QED  BY <1>1, <1>3, <1>5, <1>6, <1>7 DEF TotalBalance

\* The tier is on the scale.
LEMMA MovedTierIs ==
  ASSUME NEW tier \in 0..8, NEW shift \in Int
  PROVE  MovedTier(tier, shift) \in 0..8 /\ Rounded(shift) \in Int
<1>1. Rounded(shift) \in Int
  BY DEF Rounded
<1> QED  BY <1>1 DEF MovedTier, Within, TestTier

\* What the layers add up to, with the manual ones and without.
Shift(layers) == SumOf([n \in DOMAIN layers |-> Adjustment(layers[n])])

\* The layers the sizing knows: those that take a tier, and the stop's proximity.
Lowering == {Layer("from_phone", 0), Layer("lost_last_trade", 0)}
Layers == Lowering \union {Layer("stop_loss_proximity", hours) : hours \in DOMAIN LnMul}

\* A layer moves the tier by some thousandths, those of the proximity by no
\* half tier.
LEMMA AdjustmentIs ==
  /\ \A x \in Lowering : Adjustment(x) = -1000
  /\ \A hours \in DOMAIN LnMul : /\ Adjustment(Layer("stop_loss_proximity", hours)) = LnMul[hours]
                                 /\ LnMul[hours] \in Int /\ LnMul[hours] % 1000 # 500
  /\ \A x \in Layers : Adjustment(x) \in Int
<1>1. ASSUME NEW x \in Lowering  PROVE Adjustment(x) = -1000
  BY DEF Lowering, Layer, Adjustment
<1>2. ASSUME NEW hours \in DOMAIN LnMul
      PROVE  /\ Adjustment(Layer("stop_loss_proximity", hours)) = LnMul[hours]
             /\ LnMul[hours] \in Int /\ LnMul[hours] % 1000 # 500
  <2>1. Adjustment(Layer("stop_loss_proximity", hours)) = LnMul[hours]
    BY DEF Adjustment, Layer
  <2>2. LnMul[hours] \in Int
    BY RiskSizingAssumption
  <2>3. LnMul[hours] % 1000 # 500
    BY NoHalfTiers
  <2> QED  BY <2>1, <2>2, <2>3
<1>3. ASSUME NEW x \in Layers  PROVE Adjustment(x) \in Int
  BY <1>1, <1>2 DEF Layers
<1> QED  BY <1>1, <1>2, <1>3

\* The terms of a shift.
LEMMA LayersAre ==
  ASSUME NEW layers \in Seq(Layers)
  PROVE  LET c == [n \in DOMAIN layers |-> Adjustment(layers[n])]
         IN c \in Seq(Int) /\ Len(c) = Len(layers)
<1> DEFINE l == Len(layers)  c == [n \in DOMAIN layers |-> Adjustment(layers[n])]
<1>1. l \in Nat /\ DOMAIN layers = 1..l /\ \A n \in 1..l : layers[n] \in Layers
  BY LenProperties, ElementOfSeq
<1> HIDE DEF l
<1>2. c \in [1..l -> Int]
  BY <1>1, AdjustmentIs
<1> HIDE DEF c
<1>3. c \in Seq(Int)
  BY <1>1, <1>2, SeqDef
<1>4. Len(c) = l
  BY <1>1, <1>2, <1>3, LenProperties
<1> QED  BY <1>3, <1>4 DEF c, l

\* No layers, no shift.
LEMMA NoShift == Shift(<<>>) = 0
<1> DEFINE none == <<>>  z == [n \in DOMAIN none |-> Adjustment(none[n])]
<1>1. none \in Seq(Layers) /\ Len(none) = 0
  BY EmptySeq
<1> HIDE DEF none
<1>2. z \in Seq(Int) /\ Len(z) = 0
  BY <1>1, LayersAre
<1> HIDE DEF z
<1>3. SumOf(z) = 0
  BY <1>2, SumType
<1> QED  BY <1>3 DEF Shift, z, none

\* One more layer.
LEMMA ShiftGrows ==
  ASSUME NEW x \in Layers, NEW layers \in Seq(Layers)
  PROVE  /\ <<x>> \o layers \in Seq(Layers) /\ Shift(layers) \in Int
         /\ Shift(<<x>> \o layers) = Adjustment(x) + Shift(layers)
<1> DEFINE more == <<x>> \o layers
           c == [n \in DOMAIN layers |-> Adjustment(layers[n])]
           d == [n \in DOMAIN more |-> Adjustment(more[n])]
<1>1. <<x>> \in Seq(Layers) /\ Len(<<x>>) = 1 /\ <<x>>[1] = x
  BY SMT
<1>2. /\ more \in Seq(Layers) /\ Len(more) = 1 + Len(layers) /\ Len(layers) \in Nat
      /\ \A i \in 1..(1 + Len(layers)) : more[i] = IF i <= 1 THEN <<x>>[i] ELSE layers[i - 1]
  <2> DEFINE one == <<x>>
  <2>1. one \in Seq(Layers) /\ Len(one) = 1
    BY <1>1
  <2> HIDE DEF one
  <2>2. /\ one \o layers \in Seq(Layers) /\ Len(one \o layers) = Len(one) + Len(layers)
        /\ \A i \in 1..(Len(one) + Len(layers)) :
             (one \o layers)[i] = IF i <= Len(one) THEN one[i] ELSE layers[i - Len(one)]
    BY <2>1, ConcatProperties
  <2>3. Len(layers) \in Nat
    BY LenProperties
  <2> QED  BY <2>1, <2>2, <2>3, Zenon DEF one
<1> HIDE DEF more
<1>3. c \in Seq(Int) /\ Len(c) = Len(layers) /\ d \in Seq(Int) /\ Len(d) = Len(more)
  BY <1>2, LayersAre
<1>4. DOMAIN layers = 1..Len(layers) /\ DOMAIN more = 1..Len(more)
  BY <1>2, LenProperties
<1> DEFINE l == Len(layers)
<1>5. l \in Nat /\ Len(more) = l + 1 /\ DOMAIN layers = 1..l /\ DOMAIN more = 1..(l + 1)
      /\ \A i \in 1..(l + 1) : more[i] = IF i <= 1 THEN <<x>>[i] ELSE layers[i - 1]
  BY <1>2, <1>4
<1> HIDE DEF l
<1>6. \A i \in 1..l : more[i + 1] = layers[i] /\ i + 1 \in 1..(l + 1)
  BY <1>5
<1>7. \A i \in 1..l : d[i + 1] = c[i]
  BY <1>5, <1>6
<1>8. d[1] = Adjustment(x)
  BY <1>1, <1>5
<1> HIDE DEF c, d
<1>9. Len(d) = Len(c) + 1 /\ \A i \in 1..Len(c) : c[i] = d[i + 1]
  BY <1>3, <1>5, <1>7 DEF l
<1>10. SumOf(d) = d[1] + SumOf(c)
  BY <1>3, <1>9, SumShifts
<1>11. SumOf(c) \in Int
  BY <1>3, SumType
<1> QED  BY <1>2, <1>8, <1>10, <1>11 DEF Shift, c, d, more

\* Manual layers come first, and take a tier each; what is left is the shift of
\* the stop's proximity.
LEMMA LayeringIs ==
  ASSUME NEW m \in Manual, NEW p \in Proximity
  PROVE  /\ m \o p \in Seq(Layers) /\ p \in Seq(Layers) /\ Len(m) \in 0..2
         /\ SubSeq(m \o p, Len(m) + 1, Len(m \o p)) = p
         /\ Shift(p) \in Int /\ Shift(p) % 1000 # 500
         /\ Shift(m \o p) = Shift(p) - 1000 * Len(m)
<1> DEFINE phone == Layer("from_phone", 0)  lately == Layer("lost_last_trade", 0)
<1>1. phone \in Lowering /\ lately \in Lowering /\ phone \in Layers /\ lately \in Layers
  BY DEF Lowering, Layers
<1>2. m = <<>> \/ m = <<phone>> \/ m = <<lately>> \/ m = <<phone, lately>>
  BY DEF Manual
<1>3. Adjustment(phone) = -1000 /\ Adjustment(lately) = -1000
  BY <1>1, AdjustmentIs
<1>4. p \in Seq(Layers) /\ Shift(p) \in Int /\ Shift(p) % 1000 # 500
  <2>1. CASE p = <<>>
    <3>1. p \in Seq(Layers)
      BY <2>1, EmptySeq
    <3> QED  BY <2>1, <3>1, NoShift
  <2>2. CASE p # <<>>
    <3>1. PICK hours \in DOMAIN LnMul : p = <<Layer("stop_loss_proximity", hours)>>
      BY <2>2 DEF Proximity
    <3> DEFINE x == Layer("stop_loss_proximity", hours)
    <3>2. x \in Layers /\ Adjustment(x) = LnMul[hours] /\ LnMul[hours] \in Int /\ LnMul[hours] % 1000 # 500
      BY AdjustmentIs DEF Layers
    <3> HIDE DEF x
    <3> DEFINE none == <<>>
    <3>3. none \in Seq(Layers) /\ <<x>> \in Seq(Layers)
      BY <3>2, EmptySeq
    <3>4. <<x>> \o none = <<x>>
      BY <3>3, ConcatEmptySeq
    <3>5. Shift(<<x>> \o none) = Adjustment(x) + Shift(none) /\ Shift(none) = 0
      <4>1. Shift(none) = 0
        BY NoShift
      <4> HIDE DEF none
      <4> QED  BY <3>2, <3>3, <4>1, ShiftGrows
    <3> HIDE DEF none
    <3>6. p = <<x>>
      BY <3>1 DEF x
    <3>7. Shift(p) = Adjustment(x) + 0
      BY <3>4, <3>5, <3>6
    <3>8. Shift(p) = LnMul[hours]
      BY <3>2, <3>7
    <3> QED  BY <3>2, <3>3, <3>6, <3>8
  <2> QED  BY <2>1, <2>2
<1> HIDE DEF phone, lately
<1>5. /\ m \in Seq(Layers) /\ m \o p \in Seq(Layers) /\ Len(m) \in 0..2
      /\ Shift(m \o p) = Shift(p) - 1000 * Len(m)
  <2>1. CASE m = <<>>
    <3>1. m \in Seq(Layers) /\ Len(m) = 0 /\ m \o p = p
      BY <1>4, <2>1, EmptySeq, ConcatEmptySeq
    <3> QED  BY <1>4, <3>1
  <2>2. ASSUME NEW x \in Layers, Adjustment(x) = -1000
        PROVE  /\ <<x>> \in Seq(Layers) /\ Len(<<x>>) = 1 /\ <<x>> \o p \in Seq(Layers)
               /\ Shift(<<x>> \o p) = Shift(p) - 1000
    <3>1. <<x>> \in Seq(Layers) /\ Len(<<x>>) = 1
      BY SMT
    <3>2. <<x>> \o p \in Seq(Layers) /\ Shift(<<x>> \o p) = Adjustment(x) + Shift(p)
      BY <1>4, ShiftGrows
    <3>3. Shift(<<x>> \o p) = Shift(p) - 1000
      BY <1>4, <2>2, <3>2
    <3> QED  BY <3>1, <3>2, <3>3
  <2>3. CASE m = <<phone>> \/ m = <<lately>>
    <3>1. PICK x \in Layers : m = <<x>> /\ Adjustment(x) = -1000
      BY <1>1, <1>3, <2>3
    <3> DEFINE l == Len(m)
    <3>2. m \in Seq(Layers) /\ l = 1 /\ m \o p \in Seq(Layers) /\ Shift(m \o p) = Shift(p) - 1000
      BY <2>2, <3>1
    <3> HIDE DEF l
    <3>3. l \in 0..2 /\ Shift(m \o p) = Shift(p) - 1000 * l
      BY <1>4, <3>2
    <3> QED  BY <3>2, <3>3 DEF l
  <2>4. CASE m = <<phone, lately>>
    <3> DEFINE l == Len(m)  rest == <<lately>> \o p
    <3>1. m \in Seq(Layers) /\ l = 2
      BY <1>1, <2>4, SMT
    <3>2. /\ rest \in Seq(Layers) /\ Shift(rest) = Shift(p) - 1000
          /\ <<lately>> \in Seq(Layers) /\ <<phone>> \in Seq(Layers)
      BY <1>1, <1>3, <2>2
    <3>3. m = <<phone>> \o <<lately>>
      <4>1. m = Append(<<phone>>, lately)
        BY <2>4, SMT
      <4> QED  BY <1>1, <3>2, <4>1, AppendIsConcat
    <3>4. m \o p = <<phone>> \o rest
      BY <1>4, <3>2, <3>3, ConcatAssociative
    <3> HIDE DEF rest, l
    <3>5. <<phone>> \o rest \in Seq(Layers) /\ Shift(<<phone>> \o rest) = Adjustment(phone) + Shift(rest)
      BY <1>1, <3>2, ShiftGrows
    <3>6. Shift(m \o p) = Adjustment(phone) + Shift(rest) /\ m \o p \in Seq(Layers)
      BY <3>4, <3>5
    <3>7. l \in 0..2 /\ Shift(m \o p) = Shift(p) - 1000 * l
      BY <1>3, <1>4, <3>1, <3>2, <3>6
    <3> QED  BY <3>1, <3>6, <3>7 DEF l
  <2> QED  BY <1>2, <2>1, <2>3, <2>4
<1>6. SubSeq(m \o p, Len(m) + 1, Len(m \o p)) = p
  <2> DEFINE s == m \o p  l == Len(m)  k == Len(p)  r == SubSeq(s, l + 1, l + k)
  <2>1. /\ s \in Seq(Layers) /\ Len(s) = l + k /\ l \in Nat /\ k \in Nat
        /\ \A i \in 1..(l + k) : s[i] = IF i <= l THEN m[i] ELSE p[i - l]
    BY <1>4, <1>5, ConcatProperties, LenProperties
  <2>2. \A i \in 1..(l + k) : s[i] \in Layers
    BY <2>1, ElementOfSeq
  <2> HIDE DEF s, l, k
  <2>3. /\ r \in Seq(Layers) /\ Len(r) = IF l + 1 <= l + k THEN (l + k) - (l + 1) + 1 ELSE 0
        /\ \A i \in 1..((l + k) - (l + 1) + 1) : r[i] = s[l + 1 + i - 1]
    <3> DEFINE b == l + 1  e == l + k
    <3>1. b \in Int /\ e \in Int /\ \A i \in b..e : s[i] \in Layers
      BY <2>1, <2>2
    <3> HIDE DEF b, e
    <3>2. /\ SubSeq(s, b, e) \in Seq(Layers) /\ Len(SubSeq(s, b, e)) = IF b <= e THEN e - b + 1 ELSE 0
          /\ \A i \in 1..(e - b + 1) : SubSeq(s, b, e)[i] = s[b + i - 1]
      BY <3>1, SubSeqProperties
    <3> QED  BY <3>2, Zenon DEF b, e, r
  <2> HIDE DEF r
  <2>4. Len(r) = k /\ \A i \in 1..k : r[i] = p[i]
    <3>1. Len(r) = k
      BY <2>1, <2>3
    <3>2. ASSUME NEW i \in 1..k  PROVE r[i] = p[i]
      <4>1. r[i] = s[l + i] /\ l + i \in 1..(l + k) /\ ~(l + i <= l) /\ l + i - l = i
        BY <2>1, <2>3
      <4> QED  BY <2>1, <4>1
    <3> QED  BY <3>1, <3>2
  <2>5. r = p
    <3>1. p \in Seq(Layers) /\ Len(p) = k
      BY <1>4 DEF k
    <3> QED  BY <2>3, <2>4, <3>1, SeqEqual
  <2>6. Len(s) = l + k
    BY <2>1
  <2> QED  BY <2>5, <2>6, Zenon DEF s, l, r
<1> QED  BY <1>4, <1>5, <1>6

\* The size of an input.
LEMMA SizeIs ==
  ASSUME NEW in \in Sizings
  PROVE  LET tier == ApplyRiskLayers(in.quality, in.layers)
         IN /\ tier \in 0..8
            /\ tier = MovedTier(Tier[in.quality], Shift(in.layers))
            /\ Tier[in.quality] \in 0..8
            /\ Size(in).ok <=> \A n \in DOMAIN in.answers : in.answers[n].answer # "unauthorized"
            /\ Size(in).ok =>
                 /\ Size(in).tier = tier
                 /\ Size(in).size = IF tier = TestTier THEN 0
                                    ELSE RoundBiased(Unrounded(Held(in), tier), in.bias)
<1> DEFINE tier == ApplyRiskLayers(in.quality, in.layers)  collected == CollectBalances(in.answers)
<1>1. Tier[in.quality] \in 0..8
  <2>1. in.quality \in DOMAIN Tier
    BY Zenon DEF Sizings
  <2> QED  BY <2>1 DEF Tier
<1>2. Shift(in.layers) \in Int
  <2>1. in.layers \in Layerings
    BY Zenon DEF Sizings
  <2>2. PICK m \in Manual, p \in Proximity : in.layers = m \o p
    BY <2>1 DEF Layerings
  <2>3. Shift(p) \in Int /\ Len(m) \in 0..2 /\ Shift(in.layers) = Shift(p) - 1000 * Len(m)
    BY <2>2, LayeringIs
  <2> DEFINE l == Len(m)
  <2>4. l \in Int
    BY <2>3
  <2> HIDE DEF l
  <2> QED  BY <2>3, <2>4 DEF l
<1>3. tier = MovedTier(Tier[in.quality], Shift(in.layers))
  BY DEF ApplyRiskLayers, Shift
<1>4. tier \in 0..8
  BY <1>1, <1>2, <1>3, MovedTierIs
<1> HIDE DEF tier
<1>5. /\ in.abs_max_risk = 2 /\ in.sl_percent = 5
      /\ collected.ok <=> \A n \in DOMAIN in.answers : in.answers[n].answer # "unauthorized"
      /\ collected.ok => TotalBalance(collected.balances, in.other) = Held(in)
  BY SizingIs
<1>6. /\ Size(in).ok <=> collected.ok
      /\ Size(in).ok =>
           /\ Size(in).tier = tier
           /\ Size(in).size = IF tier = TestTier THEN 0
                              ELSE RoundBiased((RiskOf(TotalBalance(collected.balances, in.other), tier,
                                                       in.abs_max_risk) * 100) \div in.sl_percent, in.bias)
  <2> HIDE DEF collected
  <2>1. CASE ~collected.ok
    BY <2>1, Zenon DEF Size, collected, tier
  <2>2. CASE collected.ok /\ tier = TestTier
    BY <2>2 DEF Size, collected, tier
  <2>3. CASE collected.ok /\ tier # TestTier
    BY <2>3 DEF Size, collected, tier
  <2> QED  BY <2>1, <2>2, <2>3
<1> HIDE DEF collected
<1>7. Size(in).ok => Size(in).size = IF tier = TestTier THEN 0
                                     ELSE RoundBiased(Unrounded(Held(in), tier), in.bias)
  BY <1>5, <1>6 DEF Unrounded
<1> QED  BY <1>1, <1>3, <1>4, <1>5, <1>6, <1>7 DEF tier

\* At the stop a trade loses no more than is risked of what is known to be held,
\* plus what rounding adds.
THEOREM LossAtStop == AlgorithmsSpec => []LossAtStopBounded
<1>1. SizingInv => LossAtStopBounded
  <2> SUFFICES ASSUME SizingInv, Computed("sizing")  PROVE LossAtStopBounded
    BY DEF LossAtStopBounded
  <2> DEFINE risk == Held(input) * 2  tier == ApplyRiskLayers(input.quality, input.layers)
  <2>1. input \in Sizings /\ Value = Size(input)
    BY DEF SizingInv, Computed
  <2>2. Held(input) \in Totals /\ input.bias \in Nat /\ input.bias <= 100
        /\ input.abs_max_risk = 2 /\ input.sl_percent = 5
    BY <2>1, SizingIs
  <2>3. /\ tier \in 0..8
        /\ Value.ok <=> \A n \in DOMAIN input.answers : input.answers[n].answer # "unauthorized"
        /\ Value.ok => Value.size = IF tier = TestTier THEN 0
                                    ELSE RoundBiased(Unrounded(Held(input), tier), input.bias)
    BY <2>1, SizeIs
  <2> HIDE DEF tier
  <2>4. ASSUME Value.ok  PROVE Value.size * 5 <= 100 * risk + (risk * input.bias) \div 200
    <3> DEFINE total == Held(input)  bias == input.bias  q == risk * bias  d == q \div 200  size == Value.size
    <3>1. total \in Nat /\ bias \in Nat
      BY <2>2, SMT DEF Totals
    <3>2. risk \in Nat /\ risk = 2 * total
      BY <3>1
    <3> HIDE DEF total, bias, risk
    <3>3. q \in Nat
      BY <3>1, <3>2
    <3> HIDE DEF q
    <3>4. d \in Nat /\ q < 200 * d + 200
      BY <3>3
    <3> HIDE DEF d
    <3>5. CASE tier = TestTier
      <4>1. size = 0
        BY <2>3, <2>4, <3>5
      <4> HIDE DEF size
      <4>2. size * 5 <= 100 * risk + d
        BY <3>2, <3>4, <4>1
      <4> QED  BY <4>2 DEF size, d, q, bias
    <3>6. CASE tier # TestTier
      <4> DEFINE v == Unrounded(total, tier)  y == v * bias
      <4>1. tier \in 0..7
        BY <2>3, <3>6 DEF TestTier
      <4>2. v \in Sizable /\ 5 * v <= 2 * total
        BY <2>2, <4>1, UnroundedIs DEF total
      <4>3. v \in Nat
        BY <4>2, SMT DEF Sizable
      <4> HIDE DEF v
      <4>4. RoundBiased(v, bias) \in Int /\ 200 * (RoundBiased(v, bias) - 100 * v) <= v * bias
        BY <2>2, <4>2, RoundsWithin DEF bias
      <4>5. size = RoundBiased(v, bias)
        BY <2>3, <2>4, <3>6 DEF v, total, bias
      <4> HIDE DEF size
      <4>6. 5 * y <= q /\ y \in Int
        <5>1. (5 * v) * bias <= risk * bias
          BY <3>1, <3>2, <4>2, <4>3, ProductsGrow
        <5> QED  BY <3>1, <4>3, <5>1 DEF q
      <4>7. size \in Int /\ 200 * (size - 100 * v) <= y
        BY <4>4, <4>5
      <4> HIDE DEF y
      <4>8. 200 * (5 * size) <= 200 * (100 * risk) + q
        BY <3>2, <3>3, <4>2, <4>3, <4>6, <4>7
      <4>9. size * 5 <= 100 * risk + d
        BY <3>2, <3>3, <3>4, <4>7, <4>8
      <4> QED  BY <4>9 DEF size, d, q, bias
    <3> QED  BY <3>5, <3>6
  <2>5. Held(input) = SumOf([n \in DOMAIN input.answers |-> input.answers[n].total]) + input.other
    BY DEF Held
  <2> QED  BY <2>2, <2>3, <2>4, <2>5 DEF LossAtStopBounded
<1> QED  BY <1>1, SizingInvariant, PTL

\* Rounding to a tier is even-handed but for half tiers, which are rounded away
\* from zero.
LEMMA RoundedSteps ==
  ASSUME NEW shift \in Int, shift % 1000 # 500, NEW steps \in 0..2
  PROVE  Rounded(shift - 1000 * steps) = Rounded(shift) - steps /\ Rounded(shift) \in Int
<1> DEFINE r == Rounded(shift)  lower == shift - 1000 * steps
<1>1. r \in Int /\ 1000 * r - 500 <= shift /\ shift < 1000 * r + 500
  <2>1. CASE shift >= 0
    BY <2>1 DEF Rounded
  <2>2. CASE shift < 0
    BY <2>2 DEF Rounded
  <2> QED  BY <2>1, <2>2
<1>2. shift # 1000 * r - 500
  <2> HIDE DEF r
  <2>1. SUFFICES ASSUME shift = 1000 * r - 500  PROVE FALSE
    OBVIOUS
  <2>2. shift % 1000 = 500
    BY <1>1, <2>1
  <2> QED  BY <2>2
<1> HIDE DEF r
<1>3. lower \in Int /\ 1000 * (r - steps) - 500 < lower /\ lower < 1000 * (r - steps) + 500
  BY <1>1, <1>2
<1> HIDE DEF lower
<1>4. ASSUME NEW s \in Int, 1000 * s - 500 < lower, lower < 1000 * s + 500
      PROVE  Rounded(lower) = s
  <2>1. CASE lower >= 0
    BY <1>3, <1>4, <2>1 DEF Rounded
  <2>2. CASE lower < 0
    BY <1>3, <1>4, <2>2 DEF Rounded
  <2> QED  BY <1>3, <2>1, <2>2
<1>5. Rounded(lower) = r - steps
  BY <1>1, <1>3, <1>4
<1> QED  BY <1>1, <1>5 DEF r, lower

\* A lower tier has no larger size.
LEMMA SizesFall ==
  ASSUME NEW total \in Totals, NEW bias \in Nat, bias <= 100, NEW t \in 0..7, NEW u \in 0..7, t <= u
  PROVE  RoundBiased(Unrounded(total, u), bias) <= RoundBiased(Unrounded(total, t), bias)
<1> DEFINE v == Unrounded(total, t)  w == Unrounded(total, u)
           x == RoundBiased(v, bias)  y == RoundBiased(w, bias)
<1>1. v \in Sizable /\ w \in Sizable
  BY UnroundedIs
<1>2. /\ x \in Int /\ 200 * (100 * v - x) <= v * bias
      /\ y \in Int /\ 200 * (y - 100 * w) <= w * bias
  <2> HIDE DEF v, w
  <2> QED  BY <1>1, RoundsWithin
<1>3. CASE t = u
  <2>1. x = y
    BY <1>3
  <2> HIDE DEF x, y
  <2> QED  BY <1>2, <2>1 DEF x, y
<1>4. CASE t < u
  <2>1. 2 * w <= v
    BY <1>4, UnroundedIs
  <2>2. v \in Nat /\ w \in Nat
    BY <1>1, SMT DEF Sizable
  <2> HIDE DEF v, w
  <2>3. v * bias <= 100 * v /\ w * bias <= 100 * w /\ v * bias \in Int /\ w * bias \in Int
    <3>1. bias * v <= 100 * v /\ bias * w <= 100 * w
      BY <2>2, ProductsGrow
    <3> QED  BY <2>2, <3>1
  <2> DEFINE a == v * bias  b == w * bias
  <2> HIDE DEF a, b, x, y
  <2>4. 200 * (100 * v - x) <= 100 * v /\ 200 * (y - 100 * w) <= 100 * w
    <3>1. a \in Int /\ b \in Int /\ a <= 100 * v /\ b <= 100 * w
      BY <2>3 DEF a, b
    <3>2. 200 * (100 * v - x) <= a /\ 200 * (y - 100 * w) <= b
      BY <1>2 DEF a, b
    <3> QED  BY <1>2, <2>2, <3>1, <3>2
  <2>5. y <= x
    BY <1>2, <2>1, <2>2, <2>4
  <2> QED  BY <2>5 DEF x, y, v, w
<1> QED  BY <1>3, <1>4

\* Every manual layer takes a tier, unless an end of the scale absorbs it, and
\* none makes the trade larger.
THEOREM LayersOnlyLower == AlgorithmsSpec => []LayersStepDown
<1>1. SizingInv => LayersStepDown
  <2> SUFFICES ASSUME SizingInv, Computed("sizing"), Value.ok  PROVE LayersStepDown
    BY DEF LayersStepDown
  <2>1. input \in Sizings /\ Value = Size(input)
    BY DEF SizingInv, Computed
  <2>2. PICK p \in Proximity : input.layers = input.manual \o p
    BY DEF SizingInv, Computed
  <2> DEFINE m == input.manual  q == Tier[input.quality]  steps == Len(m)  bare == [input EXCEPT !.layers = p]
             tier == ApplyRiskLayers(input.quality, input.layers)
             free == ApplyRiskLayers(bare.quality, bare.layers)
  <2>3. m \in Manual /\ input.layers = m \o p
    BY <2>1, <2>2, Zenon DEF Sizings
  <2> HIDE DEF m
  <2>4. /\ SubSeq(input.layers, Len(m) + 1, Len(input.layers)) = p /\ steps \in 0..2 /\ p \in Seq(Layers)
        /\ Shift(p) \in Int /\ Shift(p) % 1000 # 500
        /\ Shift(input.layers) = Shift(p) - 1000 * steps
    <3>1. /\ SubSeq(m \o p, Len(m) + 1, Len(m \o p)) = p /\ Len(m) \in 0..2 /\ p \in Seq(Layers)
          /\ Shift(p) \in Int /\ Shift(p) % 1000 # 500 /\ Shift(m \o p) = Shift(p) - 1000 * Len(m)
      BY <2>3, LayeringIs
    <3> DEFINE ends(s) == SubSeq(s, Len(m) + 1, Len(s)) = p /\ Shift(s) = Shift(p) - 1000 * Len(m)
    <3>2. ends(m \o p)
      BY <3>1
    <3> HIDE DEF ends
    <3>3. ends(input.layers)
      BY <2>3, <3>2, Zenon
    <3> QED  BY <3>1, <3>3 DEF ends
  <2>5. bare \in Sizings /\ bare.layers = p /\ bare.quality = input.quality /\ bare.answers = input.answers
        /\ bare.bias = input.bias /\ Held(bare) = Held(input)
    <3>1. p \in Layerings
      <4>1. <<>> \in Manual
        BY DEF Manual
      <4>2. <<>> \o p = p
        BY <2>4, ConcatEmptySeq
      <4> DEFINE none == <<>>  some == {none \o y : y \in Proximity}
      <4>3. p \in some
        BY <4>2
      <4>4. some \in {{x \o y : y \in Proximity} : x \in Manual}
        BY <4>1
      <4> QED  BY <4>3, <4>4 DEF Layerings
    <3>2. bare \in Sizings
      BY <2>1, <3>1 DEF Sizings
    <3>3. bare.layers = p /\ bare.quality = input.quality /\ bare.answers = input.answers
          /\ bare.bias = input.bias /\ bare.other = input.other
      BY <2>1 DEF Sizings
    <3> QED  BY <3>2, <3>3 DEF Held
  <2>6. /\ tier \in 0..8 /\ tier = MovedTier(q, Shift(input.layers)) /\ q \in 0..8
        /\ Value.tier = tier
        /\ Value.size = IF tier = TestTier THEN 0
                        ELSE RoundBiased(Unrounded(Held(input), tier), input.bias)
        /\ \A n \in DOMAIN input.answers : input.answers[n].answer # "unauthorized"
    BY <2>1, SizeIs
  <2>7. /\ free \in 0..8 /\ free = MovedTier(q, Shift(p)) /\ Size(bare).tier = free
        /\ Size(bare).size = IF free = TestTier THEN 0
                             ELSE RoundBiased(Unrounded(Held(input), free), input.bias)
    <3> HIDE DEF bare
    <3> QED  BY <2>5, <2>6, SizeIs
  <2> HIDE DEF tier, free, bare, m, steps
  <2>8. Rounded(Shift(input.layers)) = Rounded(Shift(p)) - steps /\ Rounded(Shift(p)) \in Int
    <3> DEFINE x == Shift(p)  y == Shift(input.layers)
    <3>1. x \in Int /\ x % 1000 # 500 /\ steps \in 0..2 /\ y = x - 1000 * steps
      BY <2>4
    <3> HIDE DEF x, y
    <3>2. Rounded(x - 1000 * steps) = Rounded(x) - steps /\ Rounded(x) \in Int
      BY <3>1, RoundedSteps
    <3> QED  BY <3>1, <3>2 DEF x, y
  <2> DEFINE r == Rounded(Shift(p))
  <2>9. r \in Int /\ q \in 0..8 /\ steps \in 0..2
        /\ free = Within(q - r, 0, TestTier) /\ tier = Within(q - (r - steps), 0, TestTier)
    BY <2>4, <2>6, <2>7, <2>8 DEF MovedTier
  <2> HIDE DEF r, q
  <2>10. /\ tier \in free..(free + steps)
         /\ q - r >= 0 /\ (q - r) + steps <= TestTier => tier = free + steps
    BY <2>9 DEF Within, TestTier
  <2>11. ASSUME tier # TestTier  PROVE Value.size <= Size(bare).size
    <3>1. free \in 0..7 /\ tier \in 0..7 /\ free <= tier /\ free # TestTier
      BY <2>6, <2>7, <2>9, <2>10, <2>11 DEF TestTier
    <3>2. Held(input) \in Totals /\ input.bias \in Nat /\ input.bias <= 100
      BY <2>1, SizingIs
    <3>3. RoundBiased(Unrounded(Held(input), tier), input.bias)
            <= RoundBiased(Unrounded(Held(input), free), input.bias)
      BY <3>1, <3>2, SizesFall
    <3> QED  BY <2>6, <2>7, <2>11, <3>1, <3>3
  <2> DEFINE without(proximity) == Size([input EXCEPT !.layers = proximity])
             unclamped(proximity) == Tier[input.quality] - Rounded(SumOf([n \in DOMAIN proximity |->
                                       Adjustment(proximity[n])]))
             holds(proximity) ==
               /\ Value.tier \in without(proximity).tier..(without(proximity).tier + Len(input.manual))
               /\ unclamped(proximity) >= 0 /\ unclamped(proximity) + Len(input.manual) <= TestTier
                    => Value.tier = without(proximity).tier + Len(input.manual)
               /\ Value.tier # TestTier => Value.size <= without(proximity).size
  <2>12. without(p) = Size(bare) /\ unclamped(p) = q - r /\ Len(input.manual) = steps
    BY DEF bare, q, r, Shift, steps, m
  <2> HIDE DEF without, unclamped
  <2>13. holds(p)
    BY <2>6, <2>7, <2>10, <2>11, <2>12, Zenon
  <2>14. holds(SubSeq(input.layers, Len(input.manual) + 1, Len(input.layers)))
    BY <2>4, <2>13, Zenon DEF m
  <2> QED  BY <2>14, Zenon DEF LayersStepDown, without, unclamped
<1> QED  BY <1>1, SizingInvariant, PTL
-----------------------------------------------------------------------------
(***************************************************************************)
(* The times of the moves.                                                 *)
(***************************************************************************)
\* The times found so far, and where the search goes on.
Searches == [times : Seq(Int), prev_time : Int, low : Int, high : Int]

\* The history of a venue, and how far a move goes.
IsHistory(in) == in.prices \in Seq(Int) /\ Len(in.prices) >= 1 /\ in.down \in Int /\ in.up \in Int

\* The klines of a timeframe open one timeframe after the other.
LEMMA SeriesIs ==
  ASSUME NEW prices \in Seq(Int), NEW tf \in Nat \ {0}
  PROVE  LET s == Series(prices, tf)
         IN Len(s) \in Nat /\ \A k \in 1..Len(s) : s[k].open = (k - 1) * tf
<1> DEFINE s == Series(prices, tf)  a == Len(prices) + tf - 1  n == a \div tf
<1>1. n \in Nat
  <2>1. a \in Nat
    <3>1. Len(prices) \in Nat
      BY LenProperties
    <3> QED  BY <3>1
  <2> HIDE DEF a
  <2> QED  BY <2>1, QuotientIs
<1>2. DOMAIN s = 1..n /\ s = [k \in 1..n |-> s[k]] /\ \A k \in 1..n : s[k].open = (k - 1) * tf
  BY DEF Series
<1> HIDE DEF s, n
<1> DEFINE K == {s[k] : k \in 1..n}
<1>3. s \in [1..n -> K]
  BY <1>2
<1> HIDE DEF K
<1>4. s \in Seq(K)
  BY <1>1, <1>3, SeqDef
<1>5. Len(s) = n
  BY <1>1, <1>2, <1>4, LenProperties
<1> QED  BY <1>1, <1>2, <1>5 DEF s

\* A new anchor changes neither the times nor where the search goes on.
LEMMA AnchoredIs ==
  ASSUME NEW acc \in Searches, NEW price \in Int, NEW down \in Int, NEW up \in Int
  PROVE  LET x == Anchored(acc, price, down, up)
         IN x \in Searches /\ x.times = acc.times /\ x.prev_time = acc.prev_time
<1>1. price - down \in Int /\ price + up \in Int
  OBVIOUS
<1> QED  BY <1>1 DEF Anchored, Searches

\* Looking at a kline adds the time since it, or nothing.
LEMMA CheckIs ==
  ASSUME NEW acc \in Searches, NEW k, k.open \in Int, NEW in, IsHistory(in)
  PROVE  LET r == CheckIfSatisfies(acc, k, in)
         IN /\ r \in Searches
            /\ \/ r = acc
               \/ r.times = Append(acc.times, acc.prev_time - k.open) /\ r.prev_time = k.open
<1> DEFINE since == acc.prev_time - k.open
           moved == [acc EXCEPT !.times = Append(@, since), !.prev_time = k.open]
           r == CheckIfSatisfies(acc, k, in)
<1>1. acc.times \in Seq(Int) /\ acc.prev_time \in Int /\ acc.low \in Int /\ acc.high \in Int /\ since \in Int
  BY DEF Searches
<1>2. Append(acc.times, since) \in Seq(Int)
  <2> HIDE DEF since
  <2> QED  BY <1>1, AppendProperties
<1>3. moved \in Searches /\ moved.times = Append(acc.times, since) /\ moved.prev_time = k.open
  <2> HIDE DEF since
  <2> QED  BY <1>1, <1>2 DEF Searches
<1>4. r = acc \/ r = Anchored(moved, acc.low, in.down, in.up) \/ r = Anchored(moved, acc.high, in.down, in.up)
  BY DEF CheckIfSatisfies, TimeSince
<1> HIDE DEF moved, r
<1>5. ASSUME NEW price \in Int
      PROVE  LET x == Anchored(moved, price, in.down, in.up)
             IN x \in Searches /\ x.times = moved.times /\ x.prev_time = moved.prev_time
  BY <1>3, AnchoredIs DEF IsHistory
<1>6. \/ r = acc
      \/ r \in Searches /\ r.times = moved.times /\ r.prev_time = moved.prev_time
  BY <1>1, <1>4, <1>5
<1> QED  BY <1>3, <1>6 DEF r

\* The times found are at most n, add up to the time since the last one, and
\* none is negative.
Tallied(acc, n, now) ==
  /\ acc \in Searches /\ Len(acc.times) <= n /\ SumOf(acc.times) = now - acc.prev_time
  /\ \A i \in 1..Len(acc.times) : acc.times[i] >= 0

\* So they stay when a kline is looked at that is not newer than the last one.
LEMMA CheckTallies ==
  ASSUME NEW n \in Nat, NEW now \in Int, NEW acc, Tallied(acc, n, now), Len(acc.times) # n,
         NEW k, k.open \in Int, k.open <= acc.prev_time, NEW in, IsHistory(in)
  PROVE  LET r == CheckIfSatisfies(acc, k, in)
         IN /\ Tallied(r, n, now) /\ Len(r.times) >= Len(acc.times)
            /\ r.prev_time = acc.prev_time \/ r.prev_time = k.open
<1> DEFINE s == acc.times  since == acc.prev_time - k.open  r == CheckIfSatisfies(acc, k, in)  l == Len(s)
<1>1. acc \in Searches /\ s \in Seq(Int) /\ acc.prev_time \in Int /\ since \in Int /\ since >= 0
  <2>1. acc \in Searches
    BY DEF Tallied
  <2>2. s \in Seq(Int) /\ acc.prev_time \in Int
    BY <2>1 DEF Searches
  <2> QED  BY <2>1, <2>2
<1>2. l \in Nat /\ l <= n /\ l # n /\ SumOf(s) = now - acc.prev_time /\ \A i \in 1..l : s[i] >= 0
  BY <1>1, LenProperties DEF Tallied
<1>3. /\ r \in Searches
      /\ r = acc \/ (r.times = Append(s, since) /\ r.prev_time = k.open)
  BY <1>1, CheckIs
<1> HIDE DEF r
<1>4. CASE r = acc
  <2>1. Len(r.times) = l /\ r.prev_time = acc.prev_time /\ Tallied(r, n, now)
    BY <1>4
  <2> HIDE DEF l
  <2>2. Len(r.times) >= l
    BY <1>2, <2>1
  <2> QED  BY <2>1, <2>2 DEF r, l
<1>5. CASE r.times = Append(s, since) /\ r.prev_time = k.open
  <2> DEFINE t == Append(s, since)
  <2>1. /\ t \in Seq(Int) /\ Len(t) = l + 1 /\ (\A i \in 1..l : t[i] = s[i]) /\ t[l + 1] = since
    <3> HIDE DEF since, s
    <3> QED  BY <1>1, AppendProperties
  <2> HIDE DEF t, l
  <2>2. SumOf(t) = SumOf(s) + t[l + 1]
    <3>1. Len(t) = Len(s) + 1 /\ \A i \in 1..Len(s) : t[i] = s[i]
      BY <2>1 DEF l
    <3> HIDE DEF s
    <3>2. SumOf(t) = SumOf(s) + t[Len(s) + 1]
      BY <1>1, <2>1, <3>1, SumGrows
    <3> QED  BY <3>2 DEF l
  <2>3. SumOf(t) = now - k.open
    BY <1>1, <1>2, <2>1, <2>2
  <2>4. ASSUME NEW i \in 1..(l + 1)  PROVE t[i] >= 0
    <3>1. CASE i = l + 1
      BY <1>1, <2>1, <3>1
    <3>2. CASE i # l + 1
      <4>1. i \in 1..l
        BY <1>2, <3>2
      <4> QED  BY <1>2, <2>1, <4>1
    <3> QED  BY <3>1, <3>2
  <2>5. l + 1 <= n /\ l + 1 >= l
    BY <1>2
  <2>6. r.times = t /\ r.prev_time = k.open
    BY <1>5 DEF t
  <2>7. Tallied(r, n, now)
    BY <1>3, <2>1, <2>3, <2>4, <2>5, <2>6 DEF Tallied
  <2> QED  BY <2>1, <2>5, <2>6, <2>7 DEF r, l
<1> QED  BY <1>3, <1>4, <1>5

\* Going through a timeframe from the newest kline to the oldest, all looked at
\* having opened by the last time, leaves no time negative.
LEMMA ScanTallies ==
  ASSUME NEW n \in Nat, NEW in, IsHistory(in), NEW now \in Int, NEW acc, Tallied(acc, n, now),
         NEW tf \in Nat \ {0}, NEW from, NEW to \in Int, to <= acc.prev_time
  PROVE  LET r == Scan(acc, tf, from, to, n, in)
         IN Tallied(r, n, now) /\ Len(r.times) >= Len(acc.times)
<1> DEFINE klines == Series(in.prices, tf)  l == Len(klines)
           look(i, before) == LET k == klines[l - (i - 1)]
                              IN IF Len(before.times) = n \/ k.open < from \/ to < k.open THEN before
                                 ELSE CheckIfSatisfies(before, k, in)
           step == [i \in 1..l |-> [before \in Searches |-> look(i, before)]]
<1>1. l \in Nat /\ \A k \in 1..l : klines[k].open = (k - 1) * tf
  BY SeriesIs DEF IsHistory
<1> HIDE DEF klines, l
<1>2. ASSUME NEW i \in 1..l
      PROVE  LET k == klines[l - (i - 1)] IN k.open \in Int /\ k.open = (l - i) * tf
  <2>1. l - (i - 1) \in 1..l /\ (l - (i - 1)) - 1 = l - i
    BY <1>1
  <2>2. klines[l - (i - 1)].open = ((l - (i - 1)) - 1) * tf
    BY <1>1, <2>1
  <2>3. (l - i) * tf \in Int
    BY <1>1
  <2> QED  BY <2>1, <2>2, <2>3
<1>3. ASSUME NEW i \in 1..l, NEW before \in Searches  PROVE look(i, before) \in Searches
  BY <1>2, CheckIs
<1>4. step \in [1..l -> [Searches -> Searches]]
  <2> HIDE DEF look
  <2> QED  BY <1>3
<1>5. acc \in Searches
  BY DEF Tallied
<1>6. PICK g : StepsThrough(g, Searches, l, acc, step)
  <2> HIDE DEF step
  <2> QED  BY <1>1, <1>4, <1>5, Recursion
<1>7. g = [i \in 0..l |-> IF i = 0 THEN acc ELSE look(i, g[i - 1])]
  <2>1. g \in [0..l -> Searches] /\ g[0] = acc /\ \A i \in 1..l : g[i] = step[i][g[i - 1]]
    <3> HIDE DEF step
    <3> QED  BY <1>6 DEF StepsThrough
  <2>2. ASSUME NEW i \in 1..l  PROVE g[i] = look(i, g[i - 1])
    <3>1. i - 1 \in 0..l /\ g[i - 1] \in Searches
      BY <1>1, <2>1
    <3> HIDE DEF look
    <3> QED  BY <2>1, <3>1
  <2> HIDE DEF look, step
  <2>3. \A i \in 0..l : g[i] = IF i = 0 THEN acc ELSE look(i, g[i - 1])
    BY <1>1, <2>1, <2>2
  <2> QED  BY <2>1, <2>3
<1> DEFINE scanned[i \in 0..l] == IF i = 0 THEN acc ELSE look(i, scanned[i - 1])
<1>8. scanned = CHOOSE f : f = [i \in 0..l |-> IF i = 0 THEN acc ELSE look(i, f[i - 1])]
  OBVIOUS
<1>9. Scan(acc, tf, from, to, n, in) = scanned[l]
  BY Zenon DEF Scan, l, klines
<1> HIDE DEF scanned, look
<1>10. scanned = [i \in 0..l |-> IF i = 0 THEN acc ELSE look(i, scanned[i - 1])]
  BY <1>7, <1>8
<1> USE DEF look
<1> DEFINE T == {i \in 0..l : /\ Tallied(scanned[i], n, now) /\ Len(scanned[i].times) >= Len(acc.times)
                              /\ to <= scanned[i].prev_time \/ (l - i) * tf <= scanned[i].prev_time}
<1>11. 0 \in T
  <2>1. scanned[0] = acc
    BY <1>1, <1>10
  <2>2. Len(acc.times) \in Nat
    <3>1. acc.times \in Seq(Int)
      BY <1>5 DEF Searches
    <3> QED  BY <3>1, LenProperties
  <2> DEFINE a == Len(acc.times)
  <2> HIDE DEF a
  <2>3. a >= a
    BY <2>2 DEF a
  <2> QED  BY <1>1, <2>1, <2>3 DEF a
<1>12. ASSUME NEW i \in 1..l, i - 1 \in T  PROVE i \in T
  <2> DEFINE before == scanned[i - 1]  k == klines[l - (i - 1)]  r == scanned[i]
             a == Len(acc.times)  b == Len(before.times)  c == Len(r.times)
             reach == (l - i) * tf
  <2>1. r = look(i, before)
    <3> HIDE DEF look
    <3> QED  BY <1>1, <1>10
  <2>2. /\ Tallied(before, n, now) /\ b >= a
        /\ to <= before.prev_time \/ (l - (i - 1)) * tf <= before.prev_time
    BY <1>12
  <2>3. k.open \in Int /\ k.open = reach /\ reach \in Int
    BY <1>1, <1>2
  <2>4. (l - (i - 1)) * tf = reach + tf /\ i \in 0..l
    BY <1>1
  <2>5. before \in Searches /\ before.prev_time \in Int /\ before.times \in Seq(Int)
    BY <2>2 DEF Tallied, Searches
  <2>6. a \in Nat /\ b \in Nat
    <3>1. acc.times \in Seq(Int)
      BY <1>5 DEF Searches
    <3> QED  BY <2>5, <3>1, LenProperties
  <2>7. r = before \/ (b # n /\ k.open <= to /\ r = CheckIfSatisfies(before, k, in))
    BY <2>1, <2>3
  <2> HIDE DEF before, k, r, a, b, c, reach, look
  <2>8. CASE r = before
    <3>1. c = b
      BY <2>8 DEF c, b
    <3>2. to <= r.prev_time \/ reach <= r.prev_time
      BY <2>2, <2>3, <2>4, <2>5, <2>8
    <3>3. Tallied(r, n, now) /\ c >= a
      BY <2>2, <2>8, <3>1
    <3> QED  BY <2>4, <3>2, <3>3 DEF r, c, a, reach
  <2>9. CASE b # n /\ k.open <= to /\ r = CheckIfSatisfies(before, k, in)
    <3>1. k.open <= before.prev_time
      BY <2>2, <2>3, <2>4, <2>5, <2>9
    <3>2. /\ Tallied(r, n, now) /\ c >= b
          /\ r.prev_time = before.prev_time \/ r.prev_time = k.open
      <4>1. Len(before.times) # n
        BY <2>9 DEF b
      <4> QED  BY <2>2, <2>3, <2>9, <3>1, <4>1, CheckTallies DEF c, b
    <3>3. c >= a
      <4>1. c \in Nat
        <5>1. r.times \in Seq(Int)
          BY <3>2 DEF Tallied, Searches
        <5> QED  BY <5>1, LenProperties DEF c
      <4> QED  BY <2>2, <2>6, <3>2, <4>1
    <3>4. reach <= r.prev_time
      BY <2>3, <2>5, <3>1, <3>2
    <3> QED  BY <2>4, <3>2, <3>3, <3>4 DEF r, c, a, reach
  <2> QED  BY <2>7, <2>8, <2>9
<1>13. l \in T
  <2> HIDE DEF T
  <2>1. \A i \in 0..l : i \in T
    BY <1>1, <1>11, <1>12, Induction
  <2> QED  BY <1>1, <2>1
<1> QED  BY <1>9, <1>13

\* So do the requests for more of a timeframe, from the last time back.
LEMMA RoundsTally ==
  ASSUME NEW in, IsHistory(in), NEW now \in Int, NEW acc, Tallied(acc, RunTimes, now), NEW tf \in Nat \ {0}
  PROVE  LET r == MoreTimes(acc, tf, in)
         IN Tallied(r, RunTimes, now) /\ Len(r.times) >= Len(acc.times)
<1> DEFINE more(before) == LET since == before.prev_time
                           IN Scan(before, tf, since - (Window - 1) * tf, since, RunTimes, in)
           S == {x \in Searches : Tallied(x, RunTimes, now) /\ Len(x.times) >= Len(acc.times)}
           step == [i \in 1..MaxFetches |-> [before \in S |-> more(before)]]
<1>1. RunTimes \in Nat /\ MaxFetches \in Nat /\ Window \in Nat
  BY RiskSizingAssumption
<1>2. ASSUME NEW before \in S  PROVE more(before) \in S
  <2> DEFINE since == before.prev_time  from == since - (Window - 1) * tf  r == more(before)
             a == Len(acc.times)  b == Len(before.times)  c == Len(r.times)
  <2>1. Tallied(before, RunTimes, now) /\ b >= a /\ before \in Searches
    BY <1>2
  <2>2. since \in Int /\ since <= before.prev_time
    BY <2>1 DEF Searches
  <2>3. r = Scan(before, tf, from, since, RunTimes, in)
    OBVIOUS
  <2> HIDE DEF since, from, r
  <2>4. Tallied(r, RunTimes, now) /\ c >= b
    BY <1>1, <2>1, <2>2, <2>3, ScanTallies
  <2>5. acc.times \in Seq(Int) /\ before.times \in Seq(Int) /\ r.times \in Seq(Int) /\ r \in Searches
    BY <2>1, <2>4 DEF Tallied, Searches
  <2>6. a \in Nat /\ b \in Nat /\ c \in Nat
    BY <2>5, LenProperties
  <2> HIDE DEF a, b, c
  <2>7. c >= a
    BY <2>1, <2>4, <2>6
  <2> QED  BY <2>4, <2>5, <2>7 DEF r, a, c
<1>3. acc \in S
  <2> DEFINE a == Len(acc.times)
  <2>1. acc \in Searches /\ acc.times \in Seq(Int)
    BY DEF Tallied, Searches
  <2>2. a \in Nat
    BY <2>1, LenProperties
  <2> HIDE DEF a
  <2>3. a >= a
    BY <2>2
  <2> QED  BY <2>1, <2>3 DEF a
<1> HIDE DEF S, more
<1>4. step \in [1..MaxFetches -> [S -> S]]
  BY <1>2
<1>5. PICK g : StepsThrough(g, S, MaxFetches, acc, step)
  <2> HIDE DEF step
  <2> QED  BY <1>1, <1>3, <1>4, Recursion
<1>6. g = [i \in 0..MaxFetches |-> IF i = 0 THEN acc ELSE more(g[i - 1])]
  <2>1. g \in [0..MaxFetches -> S] /\ g[0] = acc /\ \A i \in 1..MaxFetches : g[i] = step[i][g[i - 1]]
    <3> HIDE DEF step
    <3> QED  BY <1>5 DEF StepsThrough
  <2>2. ASSUME NEW i \in 1..MaxFetches  PROVE g[i] = more(g[i - 1])
    <3>1. i - 1 \in 0..MaxFetches /\ g[i - 1] \in S
      BY <1>1, <2>1
    <3> QED  BY <2>1, <3>1
  <2> HIDE DEF step
  <2>3. \A i \in 0..MaxFetches : g[i] = IF i = 0 THEN acc ELSE more(g[i - 1])
    BY <1>1, <2>1, <2>2
  <2> QED  BY <2>1, <2>3
<1> DEFINE rounds[i \in 0..MaxFetches] == IF i = 0 THEN acc ELSE more(rounds[i - 1])
<1>7. rounds = CHOOSE f : f = [i \in 0..MaxFetches |-> IF i = 0 THEN acc ELSE more(f[i - 1])]
  OBVIOUS
<1>8. MoreTimes(acc, tf, in) = rounds[MaxFetches]
  BY Zenon DEF MoreTimes, more
<1> HIDE DEF rounds
<1>9. rounds = [i \in 0..MaxFetches |-> IF i = 0 THEN acc ELSE more(rounds[i - 1])]
  BY <1>6, <1>7
<1> DEFINE T == {i \in 0..MaxFetches : rounds[i] \in S}
<1>10. 0 \in T
  BY <1>1, <1>3, <1>9
<1>11. ASSUME NEW i \in 1..MaxFetches, i - 1 \in T  PROVE i \in T
  <2>1. rounds[i] = more(rounds[i - 1]) /\ i \in 0..MaxFetches
    BY <1>1, <1>9
  <2> QED  BY <1>2, <1>11, <2>1
<1>12. MaxFetches \in T
  <2> HIDE DEF T
  <2>1. \A i \in 0..MaxFetches : i \in T
    BY <1>1, <1>10, <1>11, Induction
  <2> QED  BY <1>1, <2>1
<1> QED  BY <1>8, <1>12 DEF S

\* The weights of the average, from 1 up, add up to half the product.
LEMMA WeightsAddUp ==
  ASSUME NEW n \in Nat, NEW c \in Int
  PROVE  LET s == [i \in 1..n |-> i * c]
         IN /\ s \in Seq(Int) /\ Len(s) = n /\ ((n + 1) * n) \div 2 \in Nat
            /\ SumOf(s) = c * (((n + 1) * n) \div 2)
<1> DEFINE s == [i \in 1..n |-> i * c]  half(i) == ((i + 1) * i) \div 2  g == [i \in 0..n |-> c * half(i)]
<1>1. s \in Seq(Int) /\ Len(s) = n
  <2>1. s \in [1..n -> Int]
    OBVIOUS
  <2>2. DOMAIN s = 1..n
    OBVIOUS
  <2> HIDE DEF s
  <2>3. s \in Seq(Int)
    BY <2>1, SeqDef
  <2> QED  BY <2>2, <2>3, LenProperties
<1>2. ASSUME NEW i \in Nat  PROVE half(i) \in Nat
  <2> DEFINE x == (i + 1) * i
  <2>1. x \in Nat
    OBVIOUS
  <2> HIDE DEF x
  <2>2. x \div 2 \in Nat
    BY <2>1
  <2> QED  BY <2>2 DEF x
<1>3. ASSUME NEW i \in 1..n  PROVE half(i) = half(i - 1) + i
  <2> DEFINE x == ((i - 1) + 1) * (i - 1)  y == (i + 1) * i
  <2>1. x \in Int /\ y = x + 2 * i /\ i \in Int
    OBVIOUS
  <2> HIDE DEF x, y
  <2>2. y \div 2 = x \div 2 + i
    BY <2>1
  <2> QED  BY <2>2 DEF x, y
<1> HIDE DEF half
<1>4. \A i \in 0..n : half(i) \in Int /\ c * half(i) \in Int
  BY <1>2
<1>5. g \in [0..n -> Int]
  BY <1>4
<1>6. half(0) = 0
  BY DEF half
<1>7. g[0] = 0
  BY <1>6
<1>8. ASSUME NEW i \in 1..n  PROVE g[i] = g[i - 1] + s[i]
  <2>1. i - 1 \in 0..n /\ i \in 0..n /\ half(i - 1) \in Int /\ half(i) = half(i - 1) + i /\ i \in Int
    BY <1>3, <1>4
  <2>2. c * (half(i - 1) + i) = c * half(i - 1) + i * c
    <3> DEFINE h == half(i - 1)
    <3>1. h \in Int
      BY <2>1
    <3> HIDE DEF h
    <3>2. c * (h + i) = c * h + i * c
      BY <2>1, <3>1
    <3> QED  BY <3>2 DEF h
  <2>3. g[i] = c * half(i) /\ g[i - 1] = c * half(i - 1) /\ s[i] = i * c
    BY <2>1
  <2> QED  BY <2>1, <2>2, <2>3
<1> HIDE DEF s, g
<1>9. SumOf(s) = g[n]
  BY <1>1, <1>5, <1>7, <1>8, AddsIf
<1>10. g[n] = c * half(n)
  BY DEF g
<1> QED  BY <1>1, <1>2, <1>9, <1>10 DEF half, s

\* The average lies among the times.
LEMMA EmaAmong ==
  ASSUME NEW times \in Seq(Int), Len(times) >= 1
  PROVE  /\ \E i \in 1..Len(times) : times[i] <= Ema(times)
         /\ \E i \in 1..Len(times) : times[i] >= Ema(times)
<1> DEFINE n == Len(times)  weighted == [i \in DOMAIN times |-> i * times[i]]  total == SumOf(weighted)
           w == ((n + 1) * n) \div 2  e == total \div w
           level(c) == [i \in 1..n |-> i * c]
<1>1. n \in Nat /\ n >= 1 /\ DOMAIN times = 1..n /\ \A i \in 1..n : times[i] \in Int
  BY LenProperties, ElementOfSeq
<1>2. Ema(times) = e
  BY DEF Ema
<1> HIDE DEF n
<1>3. weighted \in Seq(Int) /\ Len(weighted) = n /\ total \in Int /\ \A i \in 1..n : weighted[i] = i * times[i]
  <2>1. \A i \in 1..n : i * times[i] \in Int
    BY <1>1
  <2>2. weighted \in [1..n -> Int] /\ \A i \in 1..n : weighted[i] = i * times[i]
    BY <1>1, <2>1
  <2> HIDE DEF weighted
  <2>3. weighted \in Seq(Int)
    BY <1>1, <2>2, SeqDef
  <2>4. Len(weighted) = n
    BY <1>1, <2>2, <2>3, LenProperties
  <2> QED  BY <2>2, <2>3, <2>4, SumType
<1>4. w \in Nat \ {0}
  <2> DEFINE x == (n + 1) * n
  <2>1. x \in Nat /\ x >= 2
    <3>1. 2 * n <= (n + 1) * n
      <4>1. 2 \in Int /\ n + 1 \in Int /\ 2 <= n + 1 /\ n \in Nat
        BY <1>1
      <4> DEFINE m == n + 1
      <4> HIDE DEF m
      <4>2. 2 * n <= m * n
        BY <4>1, ProductsGrow DEF m
      <4> QED  BY <4>2 DEF m
    <3>2. x \in Nat /\ 2 * n >= 2 /\ 2 * n \in Int
      BY <1>1
    <3> QED  BY <3>1, <3>2
  <2> HIDE DEF x
  <2>2. x \div 2 \in Nat \ {0}
    BY <2>1
  <2> QED  BY <2>2 DEF x
<1> HIDE DEF weighted, total, w
<1>5. e \in Int /\ w * e <= total /\ total < w * e + w
  BY <1>3, <1>4, DivisionIs
<1> HIDE DEF e
<1>6. ASSUME NEW c \in Int
      PROVE  level(c) \in Seq(Int) /\ Len(level(c)) = n /\ SumOf(level(c)) = c * w
             /\ \A i \in 1..n : level(c)[i] = i * c
  BY <1>1, WeightsAddUp DEF w
<1> HIDE DEF level
<1>7. ASSUME NEW c \in Int, NEW i \in 1..n
      PROVE  /\ times[i] <= c => weighted[i] <= level(c)[i]
             /\ c <= times[i] => level(c)[i] <= weighted[i]
  <2> DEFINE t == times[i]
  <2>1. t \in Int /\ i \in Nat /\ weighted[i] = i * t /\ level(c)[i] = i * c
    <3>1. t \in Int /\ i \in Nat
      BY <1>1
    <3>2. weighted[i] = i * t
      BY <1>3
    <3>3. level(c)[i] = i * c
      BY <1>6
    <3> QED  BY <3>1, <3>2, <3>3
  <2> HIDE DEF t
  <2>2. (t <= c => t * i <= c * i) /\ (c <= t => c * i <= t * i)
    BY <2>1, ProductsGrow
  <2>3. t * i = i * t /\ c * i = i * c
    BY <2>1
  <2> QED  BY <2>1, <2>2, <2>3 DEF t
<1>8. ASSUME \A i \in 1..n : ~ (times[i] <= e)  PROVE FALSE
  <2>1. e + 1 \in Int /\ \A i \in 1..n : e + 1 <= times[i]
    BY <1>1, <1>5, <1>8
  <2> DEFINE c == e + 1
  <2>2. c = e + 1 /\ c \in Int /\ \A i \in 1..n : c <= times[i]
    BY <2>1
  <2> HIDE DEF c
  <2>3. \A i \in 1..n : level(c)[i] <= weighted[i]
    BY <1>7, <2>2
  <2>4. c * w <= total
    <3>1. level(c) \in Seq(Int) /\ Len(weighted) = Len(level(c)) /\ SumOf(level(c)) = c * w
          /\ \A i \in 1..Len(level(c)) : level(c)[i] <= weighted[i]
      BY <1>3, <1>6, <2>2, <2>3
    <3>2. SumOf(level(c)) <= SumOf(weighted)
      BY <1>3, <3>1, SumMonotone
    <3> QED  BY <3>1, <3>2 DEF total
  <2>5. c * w = w * e + w
    BY <1>4, <1>5, <2>2
  <2>6. w * e \in Int
    BY <1>4, <1>5
  <2> QED  BY <1>3, <1>4, <1>5, <2>4, <2>5, <2>6
<1>9. ASSUME \A i \in 1..n : ~ (times[i] >= e)  PROVE FALSE
  <2>1. e - 1 \in Int /\ \A i \in 1..n : times[i] <= e - 1
    BY <1>1, <1>5, <1>9
  <2> DEFINE c == e - 1
  <2>2. c = e - 1 /\ c \in Int /\ \A i \in 1..n : times[i] <= c
    BY <2>1
  <2> HIDE DEF c
  <2>3. \A i \in 1..n : weighted[i] <= level(c)[i]
    BY <1>7, <2>2
  <2>4. total <= c * w
    <3>1. level(c) \in Seq(Int) /\ Len(level(c)) = Len(weighted) /\ SumOf(level(c)) = c * w
          /\ \A i \in 1..Len(weighted) : weighted[i] <= level(c)[i]
      BY <1>3, <1>6, <2>2, <2>3
    <3>2. SumOf(weighted) <= SumOf(level(c))
      BY <1>3, <3>1, SumMonotone
    <3> QED  BY <3>1, <3>2 DEF total
  <2>5. c * w = w * e - w
    BY <1>4, <1>5, <2>2
  <2>6. w * e \in Int
    BY <1>4, <1>5
  <2> QED  BY <1>3, <1>4, <1>5, <2>4, <2>5, <2>6
<1> QED  BY <1>2, <1>8, <1>9 DEF n

-----------------------------------------------------------------------------
\* What is computed is the times of the input.
MovesInv ==
  input.kind = "moves" =>
    /\ IsHistory(input)
    /\ result.computed => Value = TimesForSameMove(input)

\* The search starts now, with nothing found.
LEMMA TimesAre ==
  ASSUME NEW in, IsHistory(in), ~TimesForSameMove(in).panics
  PROVE  LET r == TimesForSameMove(in)
         IN \E acc : /\ Tallied(acc, RunTimes, Len(in.prices)) /\ Len(acc.times) >= 1
                     /\ r.times = acc.times /\ r.prev_time = acc.prev_time /\ r.ema = Ema(acc.times)
<1> DEFINE now == Len(in.prices)
           start == Anchored([times |-> <<>>, prev_time |-> now, low |-> 0, high |-> 0],
                             Last(in.prices), in.down, in.up)
           first(n) == LET tf == Timeframes[n]
                       IN Scan(start, tf, (Len(Series(in.prices, tf)) - Window) * tf, now, 1, in)
           found == {n \in DOMAIN Timeframes : first(n).times # <<>>}
           n == CHOOSE m \in found : \A l \in found : m <= l
           acc == MoreTimes(first(n), Timeframes[n], in)
<1>1. now \in Nat /\ now >= 1 /\ in.prices[now] \in Int /\ in.down \in Int /\ in.up \in Int
  <2>1. in.prices \in Seq(Int) /\ now >= 1 /\ in.down \in Int /\ in.up \in Int
    BY DEF IsHistory
  <2>2. now \in Nat
    BY <2>1, LenProperties
  <2>3. now \in 1..Len(in.prices)
    BY <2>1, <2>2
  <2>4. in.prices[now] \in Int
    BY <2>1, <2>3, ElementOfSeq
  <2> QED  BY <2>1, <2>2, <2>4
<1>2. Tallied(start, 1, now) /\ start.prev_time = now
  <2> DEFINE price == Last(in.prices)  none == <<>>
  <2>1. price \in Int /\ price - in.down \in Int /\ price + in.up \in Int
    <3>1. price \in Int
      BY <1>1 DEF Last
    <3> HIDE DEF price
    <3> QED  BY <1>1, <3>1
  <2>2. none \in Seq(Int) /\ Len(none) = 0 /\ SumOf(none) = 0
    BY EmptySeq, SumType
  <2> DEFINE zero == [times |-> none, prev_time |-> now, low |-> 0, high |-> 0]
  <2>3. start = Anchored(zero, price, in.down, in.up) /\ zero.times = none /\ zero.prev_time = now
    OBVIOUS
  <2> HIDE DEF start, price, none, now
  <2>4. start \in Searches /\ start.times = none /\ start.prev_time = now
    <3>1. zero \in Searches
      BY <1>1, <2>2 DEF Searches
    <3> HIDE DEF zero
    <3> QED  BY <1>1, <2>1, <2>3, <3>1, AnchoredIs
  <2>5. Len(start.times) <= 1 /\ SumOf(start.times) = now - start.prev_time
        /\ \A i \in 1..Len(start.times) : start.times[i] >= 0
    BY <1>1, <2>2, <2>4
  <2> QED  BY <2>4, <2>5 DEF Tallied
<1>3. ASSUME NEW m \in DOMAIN Timeframes
      PROVE  Timeframes[m] \in Nat \ {0} /\ m \in Nat /\ Tallied(first(m), 1, now)
  <2>1. Timeframes \in Seq(Nat \ {0})
    BY RiskSizingAssumption
  <2>2. m \in 1..Len(Timeframes) /\ Len(Timeframes) \in Nat
    BY <2>1, LenProperties
  <2> DEFINE tf == Timeframes[m]  from == (Len(Series(in.prices, tf)) - Window) * tf
  <2>3. tf \in Nat \ {0} /\ m \in Nat
    BY <2>1, <2>2, ElementOfSeq
  <2>4. now <= start.prev_time /\ now \in Int
    BY <1>1, <1>2
  <2> HIDE DEF start, now, from
  <2>5. Tallied(Scan(start, tf, from, now, 1, in), 1, now)
    BY <1>2, <2>3, <2>4, ScanTallies
  <2> QED  BY <2>3, <2>5 DEF from
<1>4. /\ found # {}
      /\ LET r == TimesForSameMove(in)
         IN r.times = acc.times /\ r.prev_time = acc.prev_time /\ r.ema = Ema(acc.times)
  <2> DEFINE late == [panics |-> FALSE, times |-> acc.times, ema |-> Ema(acc.times), prev_time |-> acc.prev_time]
             none == [panics |-> TRUE, times |-> <<>>, ema |-> 0, prev_time |-> now]
  <2>1. TimesForSameMove(in) = IF found = {} THEN none ELSE late
    BY Zenon DEF TimesForSameMove
  <2> HIDE DEF found, acc
  <2>2. found # {}
    BY <2>1
  <2> QED  BY <2>1, <2>2
<1>5. n \in found
  <2>1. found \subseteq Nat
    BY <1>3
  <2> HIDE DEF found, first
  <2>2. \E m \in found : \A l \in found : m <= l
    BY <1>4, <2>1, LeastOf
  <2> QED  BY <2>2
<1> HIDE DEF n
<1>6. n \in DOMAIN Timeframes /\ first(n).times # <<>>
  BY <1>5
<1> DEFINE f == first(n)
<1>7. Tallied(f, RunTimes, now) /\ Len(f.times) >= 1 /\ Timeframes[n] \in Nat \ {0}
  <2>1. Tallied(f, 1, now) /\ Timeframes[n] \in Nat \ {0} /\ f.times # <<>>
    BY <1>3, <1>6
  <2> HIDE DEF f, now
  <2>2. f.times \in Seq(Int)
    BY <2>1 DEF Tallied, Searches
  <2>3. RunTimes \in Nat \ {0}
    BY RiskSizingAssumption
  <2> DEFINE l == Len(f.times)
  <2>4. l \in Nat \ {0} /\ l <= 1
    BY <2>1, <2>2, EmptySeq DEF Tallied
  <2> HIDE DEF l
  <2>5. l <= RunTimes /\ l >= 1
    BY <2>3, <2>4
  <2> QED  BY <2>1, <2>5 DEF Tallied, l
<1> HIDE DEF f
<1>8. Tallied(acc, RunTimes, now) /\ Len(acc.times) >= 1
  <2>1. acc = MoreTimes(f, Timeframes[n], in)
    BY DEF f
  <2> HIDE DEF acc
  <2>2. Tallied(acc, RunTimes, now) /\ Len(acc.times) >= Len(f.times)
    <3>1. now \in Int
      BY <1>1
    <3> HIDE DEF now
    <3> QED  BY <1>7, <2>1, <3>1, RoundsTally
  <2>3. acc.times \in Seq(Int) /\ f.times \in Seq(Int)
    BY <1>7, <2>2 DEF Tallied, Searches
  <2> DEFINE a == Len(acc.times)  b == Len(f.times)
  <2>4. a \in Nat /\ b \in Nat /\ a >= b /\ b >= 1
    BY <1>7, <2>2, <2>3, LenProperties
  <2> HIDE DEF a, b
  <2>5. a >= 1
    BY <2>4
  <2> QED  BY <2>2, <2>5 DEF a
<1> HIDE DEF acc
<1> QED  BY <1>4, <1>8

\* The times measured are those between successive moves back from now.
THEOREM MovesAreMeasured == AlgorithmsSpec => []EmaOfMoves
<1>1. AlgorithmsInit => MovesInv
  <2> SUFFICES ASSUME AlgorithmsInit  PROVE MovesInv
    OBVIOUS
  <2>1. ~result.computed
    BY DEF AlgorithmsInit, NotComputed
  <2>2. CASE ChooseMoves
    <3>1. PICK prices \in [1..History -> Moves] :
            input = [kind |-> "moves", prices |-> prices, down |-> 2, up |-> 1]
      BY <2>2 DEF ChooseMoves
    <3>2. prices \in Seq(Int) /\ Len(prices) >= 1
      <4>1. prices \in [1..History -> Int] /\ History \in Nat /\ History >= 1
        <5>1. Moves \subseteq Int /\ History \in Nat \ {0}
          BY MovesInputs
        <5>2. prices \in [1..History -> Int]
          BY <5>1
        <5> QED  BY <5>1, <5>2
      <4>2. prices \in Seq(Int)
        BY <4>1, SeqDef
      <4>3. Len(prices) = History
        BY <4>1, <4>2, LenProperties
      <4> QED  BY <4>1, <4>2, <4>3
    <3>3. input.prices = prices /\ input.down = 2 /\ input.up = 1
      BY <3>1
    <3>4. IsHistory(input)
      BY <3>2, <3>3 DEF IsHistory
    <3> QED  BY <2>1, <3>4 DEF MovesInv
  <2>3. CASE ~ChooseMoves
    <3>1. input.kind \in {"allocation", "sizing"}
      BY <2>3 DEF AlgorithmsInit, ChooseAllocation, ChooseSizing
    <3> QED  BY <3>1 DEF MovesInv
  <2> QED  BY <2>2, <2>3
<1>2. MovesInv /\ [AlgorithmsNext]_algorithmVars => MovesInv'
  <2> SUFFICES ASSUME MovesInv, [AlgorithmsNext]_algorithmVars  PROVE MovesInv'
    OBVIOUS
  <2>1. CASE MeasureMoves
    BY <2>1 DEF MeasureMoves, Computes, MovesInv, Value, IsHistory
  <2>2. CASE Allocate \/ SizeTrade
    BY <2>2 DEF Allocate, SizeTrade, Computes, MovesInv
  <2>3. CASE UNCHANGED algorithmVars
    BY <2>3 DEF algorithmVars, MovesInv, Value, IsHistory
  <2> QED  BY <2>1, <2>2, <2>3 DEF AlgorithmsNext
<1>3. MovesInv => EmaOfMoves
  <2> SUFFICES ASSUME MovesInv, Computed("moves"), ~Value.panics  PROVE EmaOfMoves
    BY DEF EmaOfMoves
  <2>1. IsHistory(input) /\ Value = TimesForSameMove(input)
    BY DEF MovesInv, Computed
  <2> DEFINE r == TimesForSameMove(input)
  <2>2. PICK acc : /\ Tallied(acc, RunTimes, Len(input.prices)) /\ Len(acc.times) >= 1
                   /\ r.times = acc.times /\ r.prev_time = acc.prev_time /\ r.ema = Ema(acc.times)
    BY <2>1, TimesAre
  <2>3. Value.times = acc.times /\ Value.prev_time = acc.prev_time /\ Value.ema = Ema(acc.times)
    BY <2>1, <2>2
  <2> HIDE DEF r
  <2> DEFINE times == acc.times  n == Len(times)
  <2>4. times \in Seq(Int)
    BY <2>2 DEF Tallied, Searches
  <2>5. DOMAIN times = 1..n /\ n \in Nat
    BY <2>4, LenProperties
  <2>6. n \in 1..RunTimes
    <3>1. n <= RunTimes /\ n >= 1 /\ RunTimes \in Nat
      BY <2>2, RiskSizingAssumption DEF Tallied
    <3> HIDE DEF n
    <3> QED  BY <2>5, <3>1
  <2>7. SumOf(times) = Len(input.prices) - acc.prev_time /\ \A i \in 1..n : times[i] >= 0
    BY <2>2 DEF Tallied
  <2>8. (\E i \in 1..n : times[i] <= Ema(times)) /\ \E i \in 1..n : times[i] >= Ema(times)
    BY <2>2, <2>4, EmaAmong
  <2> HIDE DEF times, n
  <2> DEFINE values == {times[i] : i \in DOMAIN times}
  <2>9. /\ \A t \in values : t >= 0
        /\ \E t \in values : t <= Ema(times)
        /\ \E t \in values : t >= Ema(times)
    BY <2>5, <2>7, <2>8
  <2>10. Value.times = times /\ Len(Value.times) = n
    BY <2>3 DEF times, n
  <2> QED  BY <2>3, <2>6, <2>7, <2>9, <2>10 DEF EmaOfMoves, times
<1> QED  BY <1>1, <1>2, <1>3, PTL DEF AlgorithmsSpec
=============================================================================
