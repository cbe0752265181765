----------------------------- MODULE MCPosition -----------------------------
(***************************************************************************)
(* Small instances of Position for TLC.  With a target of 4, a minimum of  *)
(* 1 and fills in steps of 2 all quantities are even, and so the shares of *)
(* two protocols and all percentages are exact.                            *)
(***************************************************************************)
EXTENDS Position

Market == <<[pct |-> Whole, kind |-> "Market", price |-> 0]>>
Stop(price) == <<[pct |-> Whole, kind |-> "StopMarket", price |-> price]>>

\* Whatever is chosen to run: "m", "n" are markets, "s", "t" trailing stops.
AllTypes == [m |-> "StopEntry", n |-> "StopEntry", s |-> "Momentum", t |-> "Momentum"]
AllUpdates == [m |-> {Market}, n |-> {Market},
               s |-> {Stop(1), Stop(2)}, t |-> {Stop(3)}]

MCTypeOf == [p \in Protocols |-> AllTypes[p]]
MCUpdates == [p \in Protocols |-> AllUpdates[p]]

\* Updates docs/spec/protocol.md allows: two slots, of which one is inactive.
SlotUpdates == [p \in Protocols |-> {Market \o <<Inactive>>, <<Inactive>> \o Market}]
=============================================================================
