---------------------------- MODULE MCAlgorithms ----------------------------
EXTENDS Algorithms

MCLnMul ==
  0 :> -1609 @@ 1 :> -1532 @@ 2 :> -1221 @@ 5 :> -862 @@ 10 :> -616 @@ 24 :> -327 @@ 99 :> 107 @@
  500 :> 570 @@ 5000 :> 1194 @@ 40000 :> 1738

MCTimeframes == <<1, 2>>
=============================================================================
