------------------------------ MODULE TradingMC ------------------------------
(* Small instances of Trading for TLC. *)
EXTENDS Trading

CONSTANTS alice, bob, treasury

MCUsers == {alice, bob}
MCPrices == {100, 101}
MCQuantities == {1, 2}
MCInitialCash == [u \in MCUsers |-> IF u = alice THEN 420 ELSE 210]
MCInitialUnits == [p \in MCUsers \cup {treasury} |-> IF p = alice THEN 1 ELSE 2]
MCBuyerCash == [u \in MCUsers |-> IF u = alice THEN 306 ELSE 0]
MCSellerUnits == [p \in MCUsers \cup {treasury} |-> IF p = bob THEN 2 ELSE 0]
MCNobody == {}
=============================================================================
