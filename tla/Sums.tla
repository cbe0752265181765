-------------------------------- MODULE Sums --------------------------------
(***************************************************************************)
(* What the code's iterators add up.                                       *)
(***************************************************************************)
EXTENDS Integers, Sequences

SumOf(s) ==
  LET part[n \in 0..Len(s)] == IF n = 0 THEN 0 ELSE part[n - 1] + s[n]
  IN part[Len(s)]
=============================================================================
