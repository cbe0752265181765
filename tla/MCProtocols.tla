----------------------------- MODULE MCProtocols ------------------------------
\* A parabolic or a trailing stop beside a market order.
EXTENDS Protocols

MCMixes == {[p |-> "sar", q |-> "dummy"], [p |-> "ts", q |-> "dummy"]}
=============================================================================
