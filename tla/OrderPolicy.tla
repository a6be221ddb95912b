----------------------------- MODULE OrderPolicy -----------------------------
(***************************************************************************)
(* Order arithmetic of the trading domain: trading/domain/order.ts and     *)
(* trading/domain/trading-policy.ts.  Money is in minor units (pence),     *)
(* fees in basis points.                                                   *)
(***************************************************************************)
EXTENDS Integers

\* checkedGross: the notional of an order or of a fill.
Gross(price, units) == price * units

\* feeMinor: a fee of bps basis points, rounded UP to the next minor unit.
FeeMinor(gross, bps) == (gross * bps + 9999) \div 10000

\* crosses: a bid meets an ask.
Crosses(buyPrice, sellPrice) == buyPrice >= sellPrice

\* Faulty variant: the younger order sets the price.
TakerPrice(buyPriority, sellPriority, buyPrice, sellPrice) ==
    IF buyPriority < sellPriority THEN sellPrice ELSE buyPrice

\* makerPrice: the older of the two orders sets the execution price.
MakerPrice(buyPriority, sellPriority, buyPrice, sellPrice) ==
    IF buyPriority < sellPriority THEN buyPrice ELSE sellPrice

LesserOf(a, b) == IF a < b THEN a ELSE b
=============================================================================
