------------------------------ MODULE PreSaleMC ------------------------------
(* A small instance of PreSale for TLC: two buyers want more of one sale than it  *)
(* offers; one of them is in another sale too, with cash for one of the two.      *)
EXTENDS PreSale

CONSTANTS first, second, ann, bea, two, one, late, other

MCSaleOf == [c \in Commitments |-> IF c = other THEN second ELSE first]
MCBuyerOf == [c \in Commitments |-> IF c \in {one, late} THEN bea ELSE ann]

\* At 50 pence and 1 % the fee of two units is a penny; of one unit, half a penny.
MCUnits == [c \in Commitments |-> IF c = one THEN 1 ELSE 2]
MCOpening == [b \in Buyers |-> IF b = ann THEN 150 ELSE 160]
=============================================================================
