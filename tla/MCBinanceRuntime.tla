-------------------------- MODULE MCBinanceRuntime --------------------------
(***************************************************************************)
(* Small instances of BinanceRuntime for TLC.                              *)
(***************************************************************************)
EXTENDS BinanceRuntime, TLC

\* Order names are interchangeable; used by the safety runs only.
Symmetry == Permutations(OrderNames)
=============================================================================
