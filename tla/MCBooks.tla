------------------------------- MODULE MCBooks --------------------------------
\* A limit that is turned round, doubled and moved.
EXTENDS Books

MCParameters == {[side |-> "Buy", limit |-> 1, size |-> 1],
                 [side |-> "Buy", limit |-> 2, size |-> 2],
                 [side |-> "Sell", limit |-> 2, size |-> 2]}
=============================================================================
