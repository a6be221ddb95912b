------------------------- MODULE TradingSafetyProofs -------------------------
(* The safety of reservations and funds in Trading, for all values of its   *)
(* constants, from the inductive invariant BookInv of TradingProofs.        *)
EXTENDS TradingProofs

----------------------------------------------------------------------------
(* Terminal orders *)

\* Orders that are not placed yet have no status.
UnplacedAhead == \A o \in OrderId : o >= nextPriority => order[o].status = "NONE"

\* The orders a step may change: active ones, or the one it places.
LEMMA OnlyActiveChange ==
    ASSUME BookInv, [Next]_vars, NEW q \in OrderId, order'[q] # order[q]
    PROVE  Active(q) \/ (q = nextPriority /\ nextPriority' = nextPriority + 1)
  <1>1. CASE QuietStep \/ UNCHANGED vars
    BY <1>1, QuietKeeps
  <1>2. CASE ClosingStep
    <2>1. PICK o \in OrderId, status \in {"CANCELLED", "EXPIRED"} :
            Active(o) /\ CloseAndRelease(o, status)
      BY <1>2 DEF ClosingStep
    <2>2. QED BY <2>1, Closing
  <1>3. CASE PlacingStep
    <2>1. PICK p \in Principals, side \in {"BUY", "SELL"}, tif \in {"GTC", "IOC"},
               limit \in Nat, units \in Nat \ {0} :
            (side = "BUY" => p \in Users) /\ OpenOrder(p, side, tif, limit, units)
      BY <1>3 DEF PlacingStep
    <2>2. QED BY <2>1, Opening
  <1>4. CASE SettlingStep
    <2>1. PICK c \in OrderId : MatchSettle(c)
      BY <1>4 DEF SettlingStep
    <2>2. q \in {match.buy, match.sell}
      BY <2>1, Settling
    <2>3. QED BY <2>1, <2>2 DEF MatchSettle, StillMatches
  <1>5. QED BY <1>1, <1>2, <1>3, <1>4, StepKinds

\* Priorities are handed out one by one and never taken back.
LEMMA NextPriorityGrows ==
    ASSUME BookInv, [Next]_vars
    PROVE  nextPriority' \in {nextPriority, nextPriority + 1}
  <1>1. CASE QuietStep \/ UNCHANGED vars
    BY <1>1, QuietKeeps
  <1>2. CASE ClosingStep
    BY <1>2 DEF ClosingStep, CloseAndRelease
  <1>3. CASE PlacingStep
    BY <1>3 DEF PlacingStep, OpenOrder
  <1>4. CASE SettlingStep
    BY <1>4 DEF SettlingStep, MatchSettle
  <1>5. QED BY <1>1, <1>2, <1>3, <1>4, StepKinds

\* Orders at or beyond the next priority are never placed.
LEMMA UnplacedAheadInvariant == Spec => []UnplacedAhead
  <1>1. Init => UnplacedAhead
    BY DEF Init, UnplacedAhead, Unplaced
  <1>2. ASSUME BookInv, UnplacedAhead, [Next]_vars
        PROVE  UnplacedAhead'
    <2> SUFFICES ASSUME NEW q \in OrderId, q >= nextPriority'
                 PROVE  order'[q].status = "NONE"
      BY DEF UnplacedAhead
    <2>1. nextPriority \in Nat /\ q \in Nat
      BY <1>2 DEF BookInv, BookTypeOK, OrderId
    <2>2. q >= nextPriority /\ (nextPriority' = nextPriority + 1 => q # nextPriority)
      BY <1>2, <2>1, NextPriorityGrows
    <2>3. order[q].status = "NONE"
      BY <1>2, <2>2 DEF UnplacedAhead
    <2>4. order'[q] = order[q]
      BY <1>2, <2>2, <2>3, OnlyActiveChange DEF Active, ActiveStatuses
    <2>5. QED BY <2>3, <2>4
  <1>3. QED BY <1>1, <1>2, BookInvariant, PTL DEF Spec

\* A filled, cancelled or expired order never changes again, whatever
\* cancellation, sweep or matching transaction had read it before.
THEOREM TerminalOrdersStay == Spec => TerminalIsFinal
  <1>1. ASSUME BookInv, UnplacedAhead, [Next]_vars
        PROVE  [\A o \in OrderId :
                  order[o].status \in TerminalStatuses => order'[o] = order[o]]_vars
    <2> SUFFICES ASSUME NEW o \in OrderId, order[o].status \in TerminalStatuses
                 PROVE  order'[o] = order[o]
      OBVIOUS
    <2>1. ~Active(o)
      BY DEF Active, ActiveStatuses, TerminalStatuses
    <2>2. o # nextPriority
      BY <1>1 DEF UnplacedAhead, TerminalStatuses, BookInv, BookTypeOK, OrderId
    <2>3. QED BY <1>1, <2>1, <2>2, OnlyActiveChange
  <1>2. QED BY <1>1, BookInvariant, UnplacedAheadInvariant, PTL DEF Spec, TerminalIsFinal

----------------------------------------------------------------------------
(* Reservations *)

ReservationExact(o) ==
    /\ Active(o) <=> order[o].reservation.status = "ACTIVE"
    /\ Active(o) /\ order[o].side = "SELL" =>
           order[o].reservation.amount = order[o].remaining

\* Every step keeps reservations with their orders, and sell reservations exact.
LEMMA ReservationsStep ==
    ASSUME BookInv, UnitReservationsExact, [Next]_vars
    PROVE  UnitReservationsExact'
  <1> SUFFICES ASSUME NEW q \in OrderId
               PROVE  ReservationExact(q)'
    BY DEF UnitReservationsExact, ReservationExact
  <1>1. ReservationExact(q)
    BY DEF UnitReservationsExact, ReservationExact
  <1>2. CASE order'[q] = order[q]
    BY <1>1, <1>2 DEF ReservationExact, Active
  <1>3. CASE ClosingStep
    <2>1. PICK o \in OrderId, status \in {"CANCELLED", "EXPIRED"} :
            Active(o) /\ CloseAndRelease(o, status)
      BY <1>3 DEF ClosingStep
    <2>2. CASE q = o
      BY <2>1, <2>2, Closing DEF ReservationExact, Active, ActiveStatuses
    <2>3. CASE q # o
      BY <1>2, <2>1, <2>3, Closing
    <2>4. QED BY <2>2, <2>3
  <1>4. CASE PlacingStep
    <2>1. PICK p \in Principals, side \in {"BUY", "SELL"}, tif \in {"GTC", "IOC"},
               limit \in Nat, units \in Nat \ {0} :
            (side = "BUY" => p \in Users) /\ OpenOrder(p, side, tif, limit, units)
      BY <1>4 DEF PlacingStep
    <2>2. CASE q = nextPriority
      <3>1. /\ order'[q].status = "OPEN" /\ order'[q].side = side
            /\ order'[q].remaining = units
        BY <2>1, <2>2, Opening
      <3>2. /\ order'[q].reservation.status = "ACTIVE"
            /\ side = "SELL" => order'[q].reservation.amount = units
        BY <2>1, <2>2, Opening
      <3>3. QED BY <3>1, <3>2 DEF ReservationExact, Active, ActiveStatuses
    <2>3. CASE q # nextPriority
      BY <1>2, <2>1, <2>3, Opening
    <2>4. QED BY <2>2, <2>3
  <1>5. CASE SettlingStep
    <2>1. PICK c \in OrderId : MatchSettle(c)
      BY <1>5 DEF SettlingStep
    <2> DEFINE u == FillUnits(match.buy, match.sell)
    <2>2. /\ match.caller = c /\ StillMatches(match.buy, match.sell)
          /\ Active(match.buy) /\ Active(match.sell)
      BY <2>1 DEF MatchSettle, StillMatches
    <2>3. order[match.buy].side = "BUY" /\ order[match.sell].side = "SELL"
      BY <2>2, MatchedOrders
    <2>4. CASE q \notin {match.buy, match.sell}
      BY <1>2, <2>1, <2>4, Settling
    <2>5. CASE q \in {match.buy, match.sell}
      <3>1. FillEffect(order[q], order'[q], u, FillPrice(match.buy, match.sell))
        BY <2>1, <2>5, Settling
      <3>2. order[q].reservation.status = "ACTIVE" /\ order[q] \in OrderType
        BY <1>1, <2>2, <2>5 DEF ReservationExact, BookInv, BookTypeOK
      <3>3. ASSUME order[q].side = "SELL", order'[q].status \in ActiveStatuses
            PROVE  order'[q].reservation.amount = order'[q].remaining
        <4>1. q = match.sell /\ u # order[q].remaining
          BY <2>3, <2>5, <3>1, <3>3 DEF FillEffect, ActiveStatuses
        <4>2. order'[q].reservation.amount = order[q].reservation.amount - u
          BY <2>1, <4>1, Settling
        <4>3. order[q].reservation.amount = order[q].remaining
          BY <1>1, <2>2, <2>5, <3>3 DEF ReservationExact
        <4>4. QED BY <3>1, <4>2, <4>3 DEF FillEffect
      <3>4. QED BY <3>1, <3>2, <3>3 DEF ReservationExact, Active, ActiveStatuses, FillEffect
    <2>6. QED BY <2>4, <2>5
  <1>6. CASE QuietStep \/ UNCHANGED vars
    BY <1>2, <1>6, QuietKeeps
  <1>7. QED BY <1>3, <1>4, <1>5, <1>6, StepKinds

\* An order holds an ACTIVE reservation exactly while it is active, and a SELL
\* order's is for exactly its remaining units.
THEOREM ReservationsExact == Spec => []UnitReservationsExact
  <1>1. Init => UnitReservationsExact
    BY DEF Init, UnitReservationsExact, Unplaced, Active, ActiveStatuses
  <1>2. BookInv /\ UnitReservationsExact /\ [Next]_vars => UnitReservationsExact'
    BY ReservationsStep
  <1>3. QED BY <1>1, <1>2, BookInvariant, PTL DEF Spec

----------------------------------------------------------------------------
(* Units *)

\* Every step keeps reserved units between zero and the settled units.
LEMMA UnitsStep ==
    ASSUME BookInv, UnitsCovered, [Next]_vars
    PROVE  UnitsCovered'
  <1> SUFFICES ASSUME NEW p \in Principals
               PROVE  0 <= reservedUnits'[p] /\ reservedUnits'[p] <= settled'[p]
    BY DEF UnitsCovered
  <1>1. /\ 0 <= reservedUnits[p] /\ reservedUnits[p] <= settled[p]
        /\ settled \in [Principals -> Int] /\ reservedUnits \in [Principals -> Int]
    BY DEF UnitsCovered, BookInv, BookTypeOK
  <1>2. CASE ClosingStep
    <2>1. PICK o \in OrderId, status \in {"CANCELLED", "EXPIRED"} :
            Active(o) /\ CloseAndRelease(o, status)
      BY <1>2 DEF ClosingStep
    <2> DEFINE r == order[o]
    <2>2. settled' = settled
      BY <2>1 DEF CloseAndRelease
    <2>3. r.remaining \in Nat /\ r.principal \in Principals
      BY DEF BookInv, BookTypeOK, OrderType
    <2>4. \/ reservedUnits' = reservedUnits
          \/ /\ reservedUnits' = [reservedUnits EXCEPT ![r.principal] = @ - r.remaining]
             /\ reservedUnits[r.principal] >= r.remaining
      BY <2>1 DEF CloseAndRelease, CanRelease
    <2> HIDE DEF r
    <2>5. QED BY <1>1, <2>2, <2>3, <2>4
  <1>3. CASE PlacingStep
    <2>1. PICK pl \in Principals, side \in {"BUY", "SELL"}, tif \in {"GTC", "IOC"},
               limit \in Nat, units \in Nat \ {0} :
            (side = "BUY" => pl \in Users) /\ OpenOrder(pl, side, tif, limit, units)
      BY <1>3 DEF PlacingStep
    <2>2. settled' = settled
      BY <2>1 DEF OpenOrder
    <2>3. \/ reservedUnits' = reservedUnits
          \/ /\ reservedUnits' = [reservedUnits EXCEPT ![pl] = @ + units]
             /\ settled[pl] - reservedUnits[pl] >= units
      BY <2>1 DEF OpenOrder, AvailableUnits
    <2>4. QED BY <1>1, <2>2, <2>3
  <1>4. CASE SettlingStep
    <2>1. PICK c \in OrderId : MatchSettle(c)
      BY <1>4 DEF SettlingStep
    <2> DEFINE b == match.buy
               s == match.sell
               u == FillUnits(b, s)
               buyer == order[b].principal
               seller == order[s].principal
    <2>2. /\ u \in Nat /\ buyer \in Principals /\ seller \in Principals /\ buyer # seller
      BY <2>1, MatchedOrders DEF MatchSettle, SelfTrade, OrderType
    <2>3. /\ settled' = [settled EXCEPT ![seller] = @ - u, ![buyer] = @ + u]
          /\ reservedUnits' = [reservedUnits EXCEPT ![seller] = @ - u]
          /\ reservedUnits[seller] >= u
      BY <2>1 DEF MatchSettle, Settles, OwnershipSettles
    <2> HIDE DEF u, buyer, seller
    <2>4. /\ settled'[p] = (IF p = seller THEN settled[p] - u
                            ELSE IF p = buyer THEN settled[p] + u ELSE settled[p])
          /\ reservedUnits'[p] = (IF p = seller THEN reservedUnits[p] - u ELSE reservedUnits[p])
      BY <1>1, <2>2, <2>3
    <2>5. QED BY <1>1, <2>2, <2>3, <2>4
  <1>5. CASE QuietStep \/ UNCHANGED vars
    BY <1>1, <1>5, QuietKeeps
  <1>6. QED BY <1>2, <1>3, <1>4, <1>5, StepKinds

\* No unit is sold twice: whatever orders compete, a principal's reserved units
\* stay between zero and the settled units of the position.
THEOREM UnitsStayCovered == Spec => []UnitsCovered
  <1>1. Init => UnitsCovered
    BY TradingAssumption DEF Init, UnitsCovered
  <1>2. BookInv /\ UnitsCovered /\ [Next]_vars => UnitsCovered'
    BY UnitsStep
  <1>3. QED BY <1>1, <1>2, BookInvariant, PTL DEF Spec

----------------------------------------------------------------------------
(* Cash *)

\* A fee of at most 1000 basis points is never more than the notional.
LEMMA FeeWithinGross ==
    ASSUME NEW gross \in Nat, NEW bps \in 0 .. 1000
    PROVE  FeeMinor(gross, bps) <= gross
  <1>1. gross * bps \in Nat /\ gross * bps <= gross * 1000
    BY ProductNat, ProductMonotone
  <1>2. QED BY <1>1 DEF FeeMinor

\* What a settlement moves, and how much of it was reserved.
LEMMA SettledCash ==
    ASSUME BookInv, NEW c \in OrderId, MatchSettle(c), MakerFeeBps <= TakerFeeBps,
           NEW u \in Users
    PROVE  LET buyer     == order[match.buy].principal
               seller    == order[match.sell].principal
               reduction == ReserveReduction(match.buy, match.sell)
           IN  /\ reduction \in Nat
               /\ u = buyer  => /\ reservedCash'[u] = reservedCash[u] - reduction
                                /\ reduction <= reservedCash[u]
                                /\ cash'[u] >= cash[u] - reduction
               /\ u # buyer  => reservedCash'[u] = reservedCash[u] /\ cash'[u] >= cash[u]
               /\ cash'[u] \in Int
  <1> DEFINE b == match.buy
             s == match.sell
             n == FillUnits(b, s)
             price == FillPrice(b, s)
             buyer == order[b].principal
             seller == order[s].principal
             gross == Gross(price, n)
             paid == gross + BuyerFee(b, s)
             received == gross - SellerFee(b, s)
             fees == BuyerFee(b, s) + SellerFee(b, s)
             reduction == ReserveReduction(b, s)
  <1>1. /\ StillMatches(b, s) /\ match.caller = c /\ ~SelfTrade(b, s) /\ CashSettles(b, s)
    BY DEF MatchSettle, Settles
  <1>2. /\ b \in OrderId /\ s \in OrderId
        /\ order[b] \in OrderType /\ order[s] \in OrderType
        /\ n \in Nat /\ price \in Nat
    BY <1>1, MatchedOrders
  <1>3. /\ order[b].limit \in Nat /\ order[s].limit \in Nat
        /\ buyer \in Principals /\ seller \in Principals /\ buyer # seller
        /\ FeeRevenue \notin Principals
    BY <1>1, <1>2, TradingAssumption DEF OrderType, SelfTrade
  <1>4. price <= order[b].limit
    BY <1>1, <1>3 DEF StillMatches, Crossing, Crosses, FillPrice, MakerPrice
  <1>5. gross \in Nat /\ reduction \in Nat
    BY <1>2, <1>3, ReserveNat DEF ReserveReduction
  <1>6. MakerFeeBps \in 0 .. 1000 /\ TakerFeeBps \in 0 .. 1000
    BY TradingAssumption
  <1>7. PICK bps \in {MakerFeeBps, TakerFeeBps} : BuyerFee(b, s) = FeeMinor(gross, bps)
    BY DEF BuyerFee
  <1>8. PICK bps2 \in {MakerFeeBps, TakerFeeBps} : SellerFee(b, s) = FeeMinor(gross, bps2)
    BY DEF SellerFee
  <1>9. bps \in Nat /\ bps <= TakerFeeBps /\ bps2 \in Nat /\ bps2 \in 0 .. 1000
    BY <1>6, <1>7, <1>8
  <1>10. paid <= reduction
    BY <1>2, <1>3, <1>4, <1>7, <1>9, BuyerReduction DEF ReserveReduction
  <1>11. BuyerFee(b, s) \in Nat /\ SellerFee(b, s) \in Nat
    <2>1. FeeMinor(gross, bps) \in Nat
      BY <1>5, <1>9, FeeNat
    <2>2. FeeMinor(gross, bps2) \in Nat
      BY <1>5, <1>9, FeeNat
    <2>3. QED BY <1>7, <1>8, <2>1, <2>2
  <1>12. SellerFee(b, s) <= gross
    <2>1. FeeMinor(gross, bps2) <= gross
      BY <1>5, <1>9, FeeWithinGross
    <2>2. QED BY <1>8, <2>1
  <1>13. paid \in Nat /\ received \in Nat /\ fees \in Nat
    BY <1>5, <1>11, <1>12
  <1>14. /\ cash' = [cash EXCEPT ![buyer] = @ - paid, ![seller] = @ + received,
                                 ![FeeRevenue] = @ + fees]
         /\ reservedCash' = [reservedCash EXCEPT ![buyer] = @ - reduction]
         /\ reservedCash[buyer] >= reduction
    BY <1>1 DEF MatchSettle, CashAfter, CashSettles
  <1>15. /\ cash \in [CashAccounts -> Int] /\ reservedCash \in [Users -> Int]
         /\ u \in CashAccounts /\ u # FeeRevenue
    BY TradingAssumption DEF BookInv, BookTypeOK, CashAccounts, Principals
  <1> HIDE DEF paid, received, fees, reduction, buyer, seller
  <1>16. /\ cash'[u] = (IF u = buyer THEN cash[u] - paid
                        ELSE IF u = seller THEN cash[u] + received ELSE cash[u])
         /\ reservedCash'[u] = (IF u = buyer THEN reservedCash[u] - reduction ELSE reservedCash[u])
    BY <1>3, <1>14, <1>15 DEF CashAccounts
  <1>17. /\ u = buyer => /\ reservedCash'[u] = reservedCash[u] - reduction
                         /\ reduction <= reservedCash[u]
                         /\ cash'[u] >= cash[u] - reduction
         /\ u # buyer => reservedCash'[u] = reservedCash[u] /\ cash'[u] >= cash[u]
         /\ cash'[u] \in Int
    BY <1>5, <1>10, <1>13, <1>14, <1>15, <1>16
  <1>18. QED BY <1>5, <1>17 DEF reduction, buyer, seller

\* Every step keeps posted cash above what is reserved, if makers pay no more.
LEMMA OverdraftStep ==
    ASSUME BookInv, NoOverdraft, [Next]_vars, MakerFeeBps <= TakerFeeBps
    PROVE  NoOverdraft'
  <1> SUFFICES ASSUME NEW u \in Users
               PROVE  0 <= cash'[u] /\ reservedCash'[u] <= cash'[u]
    BY DEF NoOverdraft
  <1>1. /\ 0 <= cash[u] /\ reservedCash[u] <= cash[u]
        /\ cash[u] \in Int /\ reservedCash[u] \in Int
        /\ reservedCash \in [Users -> Int]
    BY DEF NoOverdraft, BookInv, BookTypeOK, CashAccounts, Principals
  <1>2. CASE ClosingStep
    <2>1. PICK o \in OrderId, status \in {"CANCELLED", "EXPIRED"} :
            Active(o) /\ CloseAndRelease(o, status)
      BY <1>2 DEF ClosingStep
    <2>2. cash' = cash
      BY <2>1 DEF CloseAndRelease
    <2>3. ReleasedCash(o) \in Nat
      BY ReserveNat DEF ReleasedCash, BookInv, BookTypeOK, OrderType
    <2> DEFINE p == order[o].principal
    <2>4. \/ reservedCash' = reservedCash
          \/ reservedCash' = [reservedCash EXCEPT ![p] = @ - ReleasedCash(o)]
      BY <2>1 DEF CloseAndRelease
    <2> HIDE DEF p
    <2>5. QED BY <1>1, <2>2, <2>3, <2>4
  <1>3. CASE PlacingStep
    <2>1. PICK p \in Principals, side \in {"BUY", "SELL"}, tif \in {"GTC", "IOC"},
               limit \in Nat, units \in Nat \ {0} :
            (side = "BUY" => p \in Users) /\ OpenOrder(p, side, tif, limit, units)
      BY <1>3 DEF PlacingStep
    <2>2. cash' = cash
      BY <2>1 DEF OpenOrder
    <2> DEFINE reserve == BuyReserve(limit, units)
    <2>3. \/ reservedCash' = reservedCash
          \/ /\ reservedCash' = [reservedCash EXCEPT ![p] = @ + reserve]
             /\ cash[p] - reservedCash[p] >= reserve
      BY <2>1 DEF OpenOrder, AvailableCash
    <2>4. reserve \in Nat
      BY ReserveNat
    <2> HIDE DEF reserve
    <2>5. QED BY <1>1, <2>2, <2>3, <2>4
  <1>4. CASE SettlingStep
    <2>1. PICK c \in OrderId : MatchSettle(c)
      BY <1>4 DEF SettlingStep
    <2> DEFINE reduction == ReserveReduction(match.buy, match.sell)
    <2>2. /\ reduction \in Nat
          /\ \/ /\ reservedCash'[u] = reservedCash[u] - reduction
                /\ reduction <= reservedCash[u]
                /\ cash'[u] >= cash[u] - reduction
             \/ reservedCash'[u] = reservedCash[u] /\ cash'[u] >= cash[u]
          /\ cash'[u] \in Int
      BY <2>1, SettledCash
    <2> HIDE DEF reduction
    <2>3. QED BY <1>1, <2>2
  <1>5. CASE QuietStep \/ UNCHANGED vars
    BY <1>1, <1>5, QuietKeeps
  <1>6. QED BY <1>2, <1>3, <1>4, <1>5, StepKinds

\* As long as makers do not pay more than takers, no interleaving of orders,
\* fills, cancellations and expiries overdraws a customer: posted cash covers
\* what is reserved of it, whatever the fees and their rounding.
THEOREM CashNeverOverdrawn ==
    ASSUME MakerFeeBps <= TakerFeeBps
    PROVE  Spec => []NoOverdraft
  <1>1. Init => NoOverdraft
    BY TradingAssumption DEF Init, NoOverdraft, CashAccounts, Principals
  <1>2. BookInv /\ NoOverdraft /\ [Next]_vars => NoOverdraft'
    BY OverdraftStep
  <1>3. QED BY <1>1, <1>2, BookInvariant, PTL DEF Spec

----------------------------------------------------------------------------
(* Executions *)

\* Executions join orders that were placed before.
ExecutedPlaced ==
    \A i \in DOMAIN executions :
        /\ executions[i].buy < nextPriority
        /\ executions[i].sell < nextPriority

\* The terms of a placed order never change, and its filled units only grow.
LEMMA TermsStay ==
    ASSUME BookInv, [Next]_vars, NEW q \in OrderId, q < nextPriority
    PROVE  /\ order'[q].side = order[q].side
           /\ order'[q].principal = order[q].principal
           /\ order'[q].limit = order[q].limit
           /\ order'[q].tif = order[q].tif
           /\ order'[q].filled >= order[q].filled
  <1>1. order[q] \in OrderType
    BY DEF BookInv, BookTypeOK
  <1>2. CASE order'[q] = order[q]
    BY <1>1, <1>2 DEF OrderType
  <1>3. CASE ClosingStep
    <2>1. PICK o \in OrderId, status \in {"CANCELLED", "EXPIRED"} :
            Active(o) /\ CloseAndRelease(o, status)
      BY <1>3 DEF ClosingStep
    <2>2. CASE q = o
      BY <1>1, <2>1, <2>2, Closing DEF OrderType
    <2>3. CASE q # o
      BY <1>2, <2>1, <2>3, Closing
    <2>4. QED BY <2>2, <2>3
  <1>4. CASE PlacingStep
    <2>1. PICK p \in Principals, side \in {"BUY", "SELL"}, tif \in {"GTC", "IOC"},
               limit \in Nat, units \in Nat \ {0} :
            (side = "BUY" => p \in Users) /\ OpenOrder(p, side, tif, limit, units)
      BY <1>4 DEF PlacingStep
    <2>2. nextPriority \in OrderId /\ q # nextPriority
      BY <2>1, Opening DEF OrderId
    <2>3. QED BY <1>2, <2>1, <2>2, Opening
  <1>5. CASE SettlingStep
    <2>1. PICK c \in OrderId : MatchSettle(c)
      BY <1>5 DEF SettlingStep
    <2>2. FillUnits(match.buy, match.sell) \in Nat
      BY <2>1, MatchedOrders DEF MatchSettle
    <2>3. CASE q \in {match.buy, match.sell}
      BY <1>1, <2>1, <2>2, <2>3, Settling DEF FillEffect, OrderType
    <2>4. CASE q \notin {match.buy, match.sell}
      BY <1>2, <2>1, <2>4, Settling
    <2>5. QED BY <2>3, <2>4
  <1>6. CASE QuietStep \/ UNCHANGED vars
    BY <1>2, <1>6, QuietKeeps
  <1>7. QED BY <1>3, <1>4, <1>5, <1>6, StepKinds

ExecutionSound(e) ==
    /\ order[e.buy].side = "BUY" /\ order[e.sell].side = "SELL"
    /\ order[e.buy].principal # order[e.sell].principal
    /\ e.price = (IF e.buy < e.sell THEN order[e.buy].limit ELSE order[e.sell].limit)
    /\ order[e.sell].limit <= e.price /\ e.price <= order[e.buy].limit
    /\ e.units > 0

\* The half of ExecutionsSound about single executions.
AllExecutionsSound == \A i \in DOMAIN executions : ExecutionSound(executions[i])

\* A step keeps what is known of the executions before it.
LEMMA OldExecutions ==
    ASSUME BookInv, AllExecutionsSound, ExecutedPlaced, [Next]_vars, NEW i \in DOMAIN executions
    PROVE  LET e == executions[i] IN
           /\ order'[e.buy].side = "BUY" /\ order'[e.sell].side = "SELL"
           /\ order'[e.buy].principal # order'[e.sell].principal
           /\ e.price = (IF e.buy < e.sell THEN order'[e.buy].limit ELSE order'[e.sell].limit)
           /\ order'[e.sell].limit <= e.price /\ e.price <= order'[e.buy].limit
           /\ e.units > 0
           /\ e.buy < nextPriority' /\ e.sell < nextPriority'
  <1> DEFINE e == executions[i]
             b == e.buy
             s == e.sell
  <1>1. e \in ExecutionType /\ b \in OrderId /\ s \in OrderId
        /\ e.units \in Nat /\ e.price \in Nat
    <2>1. e \in ExecutionType
      BY DEF BookInv, BookTypeOK
    <2> HIDE DEF e
    <2>2. QED BY <2>1 DEF ExecutionType
  <1>2. ExecutionSound(e) /\ b < nextPriority /\ s < nextPriority
    BY DEF AllExecutionsSound, ExecutedPlaced
  <1>3. /\ order'[b].side = order[b].side /\ order'[b].principal = order[b].principal
        /\ order'[b].limit = order[b].limit
    BY <1>1, <1>2, TermsStay
  <1>4. /\ order'[s].side = order[s].side /\ order'[s].principal = order[s].principal
        /\ order'[s].limit = order[s].limit
    BY <1>1, <1>2, TermsStay
  <1>5. order[b] \in OrderType /\ order[s] \in OrderType
        /\ order'[b] \in OrderType /\ order'[s] \in OrderType
    BY <1>1, BookStep DEF BookInv, BookTypeOK
  <1>6. b < nextPriority' /\ s < nextPriority'
    BY <1>1, <1>2, NextPriorityGrows DEF BookInv, BookTypeOK, OrderId
  <1> HIDE DEF e
  <1>7. QED BY <1>1, <1>2, <1>3, <1>4, <1>5, <1>6 DEF ExecutionSound, OrderType, e

\* The execution a settlement appends.
LEMMA NewExecution ==
    ASSUME BookInv, UnplacedAhead, NEW c \in OrderId, MatchSettle(c)
    PROVE  LET b == match.buy
               s == match.sell
           IN  /\ \E e \in ExecutionType :
                     /\ executions' = Append(executions, e)
                     /\ e.buy = b /\ e.sell = s
                     /\ e.units = FillUnits(b, s) /\ e.price = FillPrice(b, s)
               /\ order'[b].side = "BUY" /\ order'[s].side = "SELL"
               /\ order'[b].principal # order'[s].principal
               /\ FillPrice(b, s) = (IF b < s THEN order'[b].limit ELSE order'[s].limit)
               /\ order'[s].limit <= FillPrice(b, s) /\ FillPrice(b, s) <= order'[b].limit
               /\ FillUnits(b, s) > 0
               /\ b < nextPriority' /\ s < nextPriority'
  <1> DEFINE b == match.buy
             s == match.sell
  <1>1. /\ StillMatches(b, s) /\ match.caller = c /\ ~SelfTrade(b, s)
        /\ nextPriority' = nextPriority
    BY DEF MatchSettle
  <1>2. /\ b \in OrderId /\ s \in OrderId
        /\ order[b] \in OrderType /\ order[s] \in OrderType
        /\ order[b].side = "BUY" /\ order[s].side = "SELL"
        /\ FillUnits(b, s) \in Nat /\ FillUnits(b, s) > 0 /\ FillPrice(b, s) \in Nat
    BY <1>1, MatchedOrders
  <1>3. \E e \in ExecutionType :
           /\ executions' = Append(executions, e)
           /\ e.buy = b /\ e.sell = s
           /\ e.units = FillUnits(b, s) /\ e.price = FillPrice(b, s)
    <2>1. Gross(FillPrice(b, s), FillUnits(b, s)) \in Nat
      BY <1>2, ReserveNat
    <2>2. MakerFeeBps \in Nat /\ TakerFeeBps \in Nat
      BY TradingAssumption
    <2>3. BuyerFee(b, s) \in Nat /\ SellerFee(b, s) \in Nat
      BY <2>1, <2>2, FeeNat DEF BuyerFee, SellerFee
    <2> DEFINE new == [buy |-> b, sell |-> s, price |-> FillPrice(b, s),
                       units |-> FillUnits(b, s),
                       buyerFee |-> BuyerFee(b, s), sellerFee |-> SellerFee(b, s)]
    <2>4. executions' = Append(executions, new)
      BY DEF MatchSettle
    <2>5. new \in ExecutionType
      BY <1>2, <2>3 DEF ExecutionType
    <2>6. QED BY <2>4, <2>5
  <1>4. /\ order'[b].side = order[b].side /\ order'[s].side = order[s].side
        /\ order'[b].principal = order[b].principal /\ order'[s].principal = order[s].principal
        /\ order'[b].limit = order[b].limit /\ order'[s].limit = order[s].limit
    BY <1>2, Settling
  <1>5. /\ FillPrice(b, s) = (IF b < s THEN order[b].limit ELSE order[s].limit)
        /\ order[s].limit <= FillPrice(b, s) /\ FillPrice(b, s) <= order[b].limit
    BY <1>1, <1>2 DEF StillMatches, Crossing, Crosses, FillPrice, MakerPrice, OrderType
  <1>6. b < nextPriority /\ s < nextPriority
    <2>1. order[b].status # "NONE" /\ order[s].status # "NONE"
      BY <1>1 DEF StillMatches, Active, ActiveStatuses
    <2>2. nextPriority \in Int /\ b \in Int /\ s \in Int
      BY <1>2 DEF BookInv, BookTypeOK, OrderId
    <2>3. QED BY <1>2, <2>1, <2>2 DEF UnplacedAhead
  <1>7. order'[b].principal # order'[s].principal
    BY <1>1, <1>4 DEF SelfTrade
  <1> HIDE DEF b, s
  <1>8. QED BY <1>1, <1>2, <1>3, <1>4, <1>5, <1>6, <1>7 DEF b, s

\* Every step keeps all executions sound.
LEMMA ExecutionsStep ==
    ASSUME BookInv, UnplacedAhead, AllExecutionsSound, ExecutedPlaced, [Next]_vars
    PROVE  AllExecutionsSound' /\ ExecutedPlaced'
  <1>1. CASE executions' = executions
    BY <1>1, OldExecutions DEF AllExecutionsSound, ExecutionSound, ExecutedPlaced
  <1>2. CASE SettlingStep
    <2>1. PICK c \in OrderId : MatchSettle(c)
      BY <1>2 DEF SettlingStep
    <2>2. PICK e \in ExecutionType :
            /\ executions' = Append(executions, e)
            /\ e.buy = match.buy /\ e.sell = match.sell
            /\ e.units = FillUnits(match.buy, match.sell)
            /\ e.price = FillPrice(match.buy, match.sell)
      BY <2>1, NewExecution
    <2>3. executions \in Seq(ExecutionType)
      BY DEF BookInv, BookTypeOK
    <2>4. SUFFICES ASSUME NEW i \in DOMAIN executions'
                   PROVE  /\ ExecutionSound(executions[i])'
                          /\ executions'[i].buy < nextPriority'
                          /\ executions'[i].sell < nextPriority'
      BY DEF AllExecutionsSound, ExecutedPlaced
    <2>5. CASE i \in DOMAIN executions
      <3>1. executions'[i] = executions[i]
        BY <2>2, <2>3, <2>5
      <3>2. QED BY <2>5, <3>1, OldExecutions DEF ExecutionSound
    <2>6. CASE i \notin DOMAIN executions
      <3>1. executions'[i] = e
        BY <2>2, <2>3, <2>4, <2>6
      <3>2. QED BY <2>1, <2>2, <3>1, NewExecution DEF ExecutionSound
    <2>7. QED BY <2>5, <2>6
  <1>3. CASE QuietStep \/ UNCHANGED vars
    BY <1>1, <1>3, QuietKeeps
  <1>4. CASE ClosingStep
    BY <1>1, <1>4 DEF ClosingStep, CloseAndRelease
  <1>5. CASE PlacingStep
    BY <1>1, <1>5 DEF PlacingStep, OpenOrder
  <1>6. QED BY <1>2, <1>3, <1>4, <1>5, StepKinds

\* Every execution joins a BUY and a SELL of different principals at the older
\* order's limit, which both limits allow, and was placed before.
LEMMA ExecutionsInvariant == Spec => [](AllExecutionsSound /\ ExecutedPlaced)
  <1>1. Init => AllExecutionsSound /\ ExecutedPlaced
    BY DEF Init, AllExecutionsSound, ExecutedPlaced
  <1>2. BookInv /\ UnplacedAhead /\ AllExecutionsSound /\ ExecutedPlaced /\ [Next]_vars
          => AllExecutionsSound' /\ ExecutedPlaced'
    BY ExecutionsStep
  <1>3. QED BY <1>1, <1>2, BookInvariant, UnplacedAheadInvariant, PTL DEF Spec

----------------------------------------------------------------------------
(* Average prices *)

AverageOk(q) ==
    order[q].filled > 0 =>
        IF order[q].side = "BUY" THEN order[q].average <= order[q].limit
                                 ELSE order[q].average >= order[q].limit

\* Every step keeps average prices within their limits.
LEMMA AverageStep ==
    ASSUME BookInv, AverageWithinLimit, [Next]_vars
    PROVE  AverageWithinLimit'
  <1> SUFFICES ASSUME NEW q \in OrderId
               PROVE  AverageOk(q)'
    BY DEF AverageWithinLimit, AverageOk
  <1>1. AverageOk(q) /\ order[q] \in OrderType
    BY DEF AverageWithinLimit, AverageOk, BookInv, BookTypeOK
  <1>2. CASE order'[q] = order[q]
    BY <1>1, <1>2 DEF AverageOk
  <1>3. CASE ClosingStep
    <2>1. PICK o \in OrderId, status \in {"CANCELLED", "EXPIRED"} :
            Active(o) /\ CloseAndRelease(o, status)
      BY <1>3 DEF ClosingStep
    <2>2. CASE q = o
      BY <1>1, <2>1, <2>2, Closing DEF AverageOk
    <2>3. CASE q # o
      BY <1>2, <2>1, <2>3, Closing
    <2>4. QED BY <2>2, <2>3
  <1>4. CASE PlacingStep
    <2>1. PICK p \in Principals, side \in {"BUY", "SELL"}, tif \in {"GTC", "IOC"},
               limit \in Nat, units \in Nat \ {0} :
            (side = "BUY" => p \in Users) /\ OpenOrder(p, side, tif, limit, units)
      BY <1>4 DEF PlacingStep
    <2>2. CASE q = nextPriority
      BY <2>1, <2>2, Opening DEF AverageOk
    <2>3. CASE q # nextPriority
      BY <1>2, <2>1, <2>3, Opening
    <2>4. QED BY <2>2, <2>3
  <1>5. CASE SettlingStep
    <2>1. PICK c \in OrderId : MatchSettle(c)
      BY <1>5 DEF SettlingStep
    <2> DEFINE b == match.buy
               s == match.sell
               u == FillUnits(b, s)
               price == FillPrice(b, s)
    <2>2. /\ StillMatches(b, s) /\ match.caller = c
      BY <2>1 DEF MatchSettle
    <2>3. /\ b \in OrderId /\ s \in OrderId
          /\ order[b] \in OrderType /\ order[s] \in OrderType
          /\ order[b].side = "BUY" /\ order[s].side = "SELL"
          /\ u \in Nat /\ u > 0 /\ price \in Nat
      BY <2>2, MatchedOrders
    <2>4. order[s].limit <= price /\ price <= order[b].limit
      BY <2>2, <2>3 DEF StillMatches, Crossing, Crosses, FillPrice, MakerPrice, OrderType
    <2>5. CASE q \in {b, s}
      <3>1. FillEffect(order[q], order'[q], u, price)
        BY <2>1, <2>5, Settling
      <3>2. /\ order'[q].average =
                  (order[q].average * order[q].filled + price * u) \div (order[q].filled + u)
            /\ order'[q].side = order[q].side /\ order'[q].limit = order[q].limit
        BY <3>1 DEF FillEffect, AverageAfter
      <3>3. /\ order[q].average \in Nat /\ order[q].filled \in Nat /\ order[q].limit \in Nat
        BY <1>1 DEF OrderType
      <3> HIDE DEF u, price
      <3> DEFINE a == order[q].average
                 f == order[q].filled
                 l == order[q].limit
      <3>4. CASE q = b
        <4>1. (f > 0 => a <= l) /\ price <= l
          BY <1>1, <2>3, <2>4, <3>4 DEF AverageOk
        <4> HIDE DEF a, f, l
        <4>2. (a * f + price * u) \div (f + u) <= l
          BY <2>3, <3>3, <4>1, AverageAtMost DEF a, f, l
        <4>3. order'[q].side = "BUY" /\ order'[q].average <= order'[q].limit
          BY <2>3, <3>2, <3>4, <4>2 DEF a, f, l
        <4>4. QED BY <4>3 DEF AverageOk
      <3>5. CASE q = s
        <4>1. (f > 0 => a >= l) /\ l <= price
          BY <1>1, <2>3, <2>4, <3>5 DEF AverageOk
        <4> HIDE DEF a, f, l
        <4>2. (a * f + price * u) \div (f + u) >= l
          BY <2>3, <3>3, <4>1, AverageAtLeast DEF a, f, l
        <4>3. order'[q].side = "SELL" /\ order'[q].average >= order'[q].limit
          BY <2>3, <3>2, <3>5, <4>2 DEF a, f, l
        <4>4. QED BY <4>3 DEF AverageOk
      <3>6. QED BY <2>5, <3>4, <3>5
    <2>6. CASE q \notin {b, s}
      BY <1>2, <2>1, <2>6, Settling
    <2>7. QED BY <2>5, <2>6
  <1>6. CASE QuietStep \/ UNCHANGED vars
    BY <1>2, <1>6, QuietKeeps
  <1>7. QED BY <1>3, <1>4, <1>5, <1>6, StepKinds

\* However an order is filled, its floored average price stays within its limit.
THEOREM AveragesWithinLimits == Spec => []AverageWithinLimit
  <1>1. Init => AverageWithinLimit
    BY DEF Init, AverageWithinLimit, Unplaced
  <1>2. BookInv /\ AverageWithinLimit /\ [Next]_vars => AverageWithinLimit'
    BY AverageStep
  <1>3. QED BY <1>1, <1>2, BookInvariant, PTL DEF Spec

\* Without a taker fee the worst case is the notional.
LEMMA FreeReserve ==
    ASSUME TakerFeeBps = 0, NEW limit \in Nat, NEW units \in Nat
    PROVE  BuyReserve(limit, units) = limit * units
  <1>1. limit * units \in Nat
    BY ProductNat
  <1>2. QED BY <1>1 DEF BuyReserve, Gross, FeeMinor

----------------------------------------------------------------------------
(* Requests *)

\* How a step may bring a request to its end, or an order into the book.
LEMMA RequestEnds ==
    ASSUME BookInv, [Next]_vars, NEW q \in OrderId, request'[q].phase = "returned"
    PROVE  \/ request[q].phase = "returned"
           \/ AfterMatching(q) = "returned"
           \/ CancelIocRemainder(q)
  <1>1. request \in [OrderId -> RequestType] /\ request[q] \in RequestType
    BY DEF BookInv, BookTypeOK
  <1>2. CASE request'[q] = request[q]
    BY <1>2
  <1>3. ASSUME NEW c \in OrderId, StopMatching(c) \/ CountRound(c) \/ FailRequest(c)
        PROVE  \/ request'[q] = request[q]
               \/ request'[q].phase \in {request[q].phase, AfterMatching(q), "failed"}
    <2>1. CASE c # q
      BY <1>1, <1>3, <2>1 DEF StopMatching, CountRound, FailRequest
    <2>2. CASE c = q
      BY <1>1, <1>3, <2>2 DEF StopMatching, CountRound, FailRequest, RequestType
    <2>3. QED BY <2>1, <2>2
  <1>4. ASSUME NEW c \in OrderId,
               \/ MatchSelect(c) \/ MatchRefused(c) \/ MatchStale(c) \/ MatchSelfTrade(c)
               \/ MatchSettle(c) \/ MatchThrows(c) \/ Interrupt(c)
        PROVE  \/ request'[q] = request[q]
               \/ request'[q].phase \in {request[q].phase, AfterMatching(q), "failed"}
    BY <1>3, <1>4 DEF MatchSelect, MatchRefused, MatchStale, MatchSelfTrade, MatchSettle,
                      MatchThrows, Interrupt
  <1>5. ASSUME NEW c \in OrderId, Replay(c) \/ CancelIocRemainder(c)
        PROVE  \/ request'[q] = request[q] \/ request'[q].phase = "replayed"
               \/ CancelIocRemainder(q)
    BY <1>1, <1>5 DEF Replay, CancelIocRemainder, RequestType
  <1>6. CASE PlacingStep
    BY <1>1, <1>2, <1>6 DEF PlacingStep, OpenOrder
  <1>7. CASE ClosingStep
    <2>1. CASE \E c \in OrderId : MatchSelfTrade(c)
      BY <1>4, <2>1
    <2>2. CASE \E o \in OrderId : Cancel(o) \/ Expire(o)
      BY <1>2, <2>2 DEF Cancel, Expire
    <2>3. CASE \E o \in OrderId : CancelIocRemainder(o)
      BY <1>5, <2>3
    <2>4. QED BY <1>7, <2>1, <2>2, <2>3 DEF ClosingStep
  <1>8. CASE SettlingStep
    BY <1>4, <1>8 DEF SettlingStep
  <1>9. CASE QuietStep
    <2>1. CASE \E c \in OrderId :
                  \/ MatchSelect(c) \/ MatchRefused(c) \/ MatchStale(c)
                  \/ MatchThrows(c) \/ Interrupt(c)
      BY <1>4, <2>1
    <2>2. CASE \E c \in OrderId : Replay(c) \/ CancelIocRemainder(c)
      BY <1>5, <2>2
    <2>3. CASE UNCHANGED request
      BY <1>2, <2>3
    <2>4. QED BY <1>9, <2>1, <2>2, <2>3
              DEF QuietStep, SetMarketStatus, ToggleSuspension, ToggleHold
  <1>10. CASE UNCHANGED vars
    BY <1>2, <1>10 DEF vars
  <1>11. QED BY <1>6, <1>7, <1>8, <1>9, <1>10, StepKinds

\* An order that a step leaves active was active, or the step places it and its
\* request begins to match.
LEMMA ActiveBefore ==
    ASSUME BookInv, [Next]_vars, NEW q \in OrderId, Active(q)'
    PROVE  \/ Active(q) /\ order'[q].tif = order[q].tif
           \/ request'[q].phase = "matching"
  <1>1. CASE order'[q] = order[q]
    BY <1>1 DEF Active
  <1>2. CASE ClosingStep
    <2>1. PICK o \in OrderId, status \in {"CANCELLED", "EXPIRED"} :
            Active(o) /\ CloseAndRelease(o, status)
      BY <1>2 DEF ClosingStep
    <2>2. CASE q = o
      BY <2>1, <2>2, Closing DEF Active, ActiveStatuses
    <2>3. CASE q # o
      BY <1>1, <2>1, <2>3, Closing
    <2>4. QED BY <2>2, <2>3
  <1>3. CASE PlacingStep
    <2>1. PICK p \in Principals, side \in {"BUY", "SELL"}, tif \in {"GTC", "IOC"},
               limit \in Nat, units \in Nat \ {0} :
            (side = "BUY" => p \in Users) /\ OpenOrder(p, side, tif, limit, units)
      BY <1>3 DEF PlacingStep
    <2>2. CASE q = nextPriority
      BY <2>1, <2>2 DEF OpenOrder, BookInv, BookTypeOK
    <2>3. CASE q # nextPriority
      BY <1>1, <2>1, <2>3, Opening
    <2>4. QED BY <2>2, <2>3
  <1>4. CASE SettlingStep
    <2>1. PICK c \in OrderId : MatchSettle(c)
      BY <1>4 DEF SettlingStep
    <2>2. order'[q].tif = order[q].tif
      BY <2>1, Settling
    <2>3. Active(q)
      <3>1. CASE q \in {match.buy, match.sell}
        BY <2>1, <3>1 DEF MatchSettle, StillMatches
      <3>2. CASE q \notin {match.buy, match.sell}
        BY <2>1, <3>2, Settling DEF Active
      <3>3. QED BY <3>1, <3>2
    <2>4. QED BY <2>2, <2>3
  <1>5. CASE QuietStep \/ UNCHANGED vars
    BY <1>1, <1>5, QuietKeeps
  <1>6. QED BY <1>2, <1>3, <1>4, <1>5, StepKinds

\* A placement that ran to its end leaves no IOC order in the book: whichever
\* transaction was its last, and whatever was placed, cancelled or halted meanwhile.
THEOREM IocOrdersLeave == Spec => []IocLeavesTheBook
  <1>1. Init => IocLeavesTheBook
    BY DEF Init, IocLeavesTheBook
  <1>2. ASSUME BookInv, IocLeavesTheBook, [Next]_vars
        PROVE  IocLeavesTheBook'
    <2> SUFFICES ASSUME NEW q \in OrderId, request'[q].phase = "returned",
                        order'[q].tif = "IOC", Active(q)'
                 PROVE  FALSE
      BY DEF IocLeavesTheBook, Active
    <2>1. Active(q) /\ order[q].tif = "IOC"
      BY <1>2, ActiveBefore
    <2>2. request[q].phase # "returned" /\ AfterMatching(q) # "returned"
      BY <1>2, <2>1 DEF IocLeavesTheBook, AfterMatching
    <2>3. CancelIocRemainder(q)
      BY <1>2, <2>2, RequestEnds
    <2>4. CloseAndRelease(q, "CANCELLED")
      BY <2>1, <2>3 DEF CancelIocRemainder
    <2>5. order'[q].status = "CANCELLED"
      BY <1>2, <2>1, <2>4, Closing
    <2>6. QED BY <2>5 DEF Active, ActiveStatuses
  <1>3. QED BY <1>1, <1>2, BookInvariant, PTL DEF Spec
=============================================================================
