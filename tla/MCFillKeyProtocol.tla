------------------------- MODULE MCFillKeyProtocol -------------------------
(***************************************************************************)
(* Small instances of FillKeyProtocol for TLC.                             *)
(***************************************************************************)
EXTENDS FillKeyProtocol, TLC

\* The positions are interchangeable; used by the safety runs only.
Symmetry == Permutations(Positions)
=============================================================================
