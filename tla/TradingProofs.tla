---------------------------- MODULE TradingProofs ----------------------------
(* Theorems about Trading, for all values of its constants. *)
EXTENDS Trading, TLAPS

----------------------------------------------------------------------------
(* Order arithmetic *)

\* Notional amounts are natural numbers.
LEMMA ProductNat ==
    ASSUME NEW a \in Nat, NEW b \in Nat
    PROVE  a * b \in Nat
  OBVIOUS

\* A larger price of more units is a larger notional.
LEMMA ProductMonotone ==
    ASSUME NEW a \in Nat, NEW b \in Nat, NEW c \in Nat, NEW d \in Nat, a <= c, b <= d
    PROVE  a * b <= c * d
  OBVIOUS

\* Rounding down stays in the natural numbers.
LEMMA DivisionNat ==
    ASSUME NEW a \in Nat, NEW b \in Nat, b > 0
    PROVE  a \div b \in Nat
  OBVIOUS

\* Fees are natural numbers.
LEMMA FeeNat ==
    ASSUME NEW gross \in Nat, NEW bps \in Nat
    PROVE  FeeMinor(gross, bps) \in Nat
  BY ProductNat DEF FeeMinor

\* A larger notional at a larger rate has no smaller fee, rounding included.
LEMMA FeeMonotone ==
    ASSUME NEW g \in Nat, NEW h \in Nat, NEW x \in Nat, NEW y \in Nat, g <= h, x <= y
    PROVE  FeeMinor(g, x) <= FeeMinor(h, y)
  <1>1. g * x \in Nat /\ h * y \in Nat /\ g * x <= h * y
    BY ProductNat, ProductMonotone
  <1>2. QED BY <1>1 DEF FeeMinor

\* The floor of a weighted average stays within a bound both prices respect.
LEMMA AverageAtMost ==
    ASSUME NEW a \in Nat, NEW f \in Nat, NEW p \in Nat, NEW u \in Nat, NEW l \in Nat, u > 0,
           f > 0 => a <= l, p <= l
    PROVE  (a * f + p * u) \div (f + u) <= l
  <1>1. a * f <= l * f /\ p * u <= l * u
    OBVIOUS
  <1>2. a * f + p * u <= l * (f + u)
    BY <1>1
  <1>3. QED BY <1>2

\* Flooring a weighted average keeps it at or above a bound both prices respect.
LEMMA AverageAtLeast ==
    ASSUME NEW a \in Nat, NEW f \in Nat, NEW p \in Nat, NEW u \in Nat, NEW l \in Nat, u > 0,
           f > 0 => a >= l, p >= l
    PROVE  (a * f + p * u) \div (f + u) >= l
  <1>1. a * f >= l * f /\ p * u >= l * u
    OBVIOUS
  <1>2. a * f + p * u >= l * (f + u)
    BY <1>1
  <1>3. QED BY <1>2

----------------------------------------------------------------------------
(* The inductive invariant of the book *)

\* A matching transaction has locked a BUY and a SELL, both placed before.
MatchedPair ==
    match # NoMatch =>
        /\ match.buy \in OrderId /\ match.sell \in OrderId
        /\ order[match.buy].side = "BUY" /\ order[match.sell].side = "SELL"

BookInv == BookTypeOK /\ OrderEquation /\ MatchedPair

\* What one fill makes of an order row.
FillEffect(row, new, units, price) ==
    /\ new \in OrderType
    /\ new.remaining = row.remaining - units
    /\ new.filled = row.filled + units
    /\ new.average = AverageAfter(row, units, price)
    /\ new.original = row.original
    /\ new.side = row.side
    /\ new.principal = row.principal
    /\ new.limit = row.limit
    /\ new.tif = row.tif
    /\ new.status = (IF units = row.remaining THEN "FILLED" ELSE "PARTIALLY_FILLED")
    /\ new.reservation.status =
          IF units = row.remaining THEN "CONSUMED" ELSE row.reservation.status

\* Filled has the effect of one fill on an order row and keeps its amount reserved.
LEMMA FilledRow ==
    ASSUME NEW row \in OrderType, NEW units \in Nat, NEW price \in Nat,
           0 < units, units <= row.remaining
    PROVE  /\ FillEffect(row, Filled(row, units, price), units, price)
           /\ Filled(row, units, price).reservation.amount = row.reservation.amount
  <1>1. AverageAfter(row, units, price) \in Nat
    <2>1. /\ row.average * row.filled \in Nat /\ price * units \in Nat
          /\ row.filled + units \in Nat /\ row.filled + units > 0
      BY ProductNat DEF OrderType
    <2>2. row.average * row.filled + price * units \in Nat
      BY <2>1
    <2>3. QED BY <2>1, <2>2, DivisionNat DEF AverageAfter
  <1> DEFINE new == Filled(row, units, price)
  <1>2. row.reservation \in ReservationType
    BY DEF OrderType
  <1>3. /\ new.remaining = row.remaining - units
        /\ new.filled = row.filled + units
        /\ new.average = AverageAfter(row, units, price)
        /\ new.status = (IF units = row.remaining THEN "FILLED" ELSE "PARTIALLY_FILLED")
        /\ new.original = row.original /\ new.side = row.side /\ new.tif = row.tif
        /\ new.principal = row.principal /\ new.limit = row.limit
    BY DEF Filled, Completes, OrderType
  <1>4. new.reservation = [row.reservation EXCEPT
            !.status = IF units = row.remaining THEN "CONSUMED" ELSE @]
    BY DEF Filled, Completes, OrderType
  <1>5. /\ new.reservation \in ReservationType
        /\ new.reservation.amount = row.reservation.amount
        /\ new.reservation.status =
              IF units = row.remaining THEN "CONSUMED" ELSE row.reservation.status
    BY <1>2, <1>4 DEF ReservationType
  <1>6. new \in OrderType
    <2>1. new = [row EXCEPT !.remaining = new.remaining, !.filled = new.filled,
                            !.average = new.average, !.status = new.status,
                            !.reservation = new.reservation]
      BY <1>3, <1>4 DEF Filled, Completes, OrderType
    <2>2. /\ new.remaining \in Nat /\ new.filled \in Nat /\ new.average \in Nat
          /\ new.status \in ActiveStatuses \cup TerminalStatuses
      BY <1>1, <1>3 DEF OrderType, ActiveStatuses, TerminalStatuses
    <2> HIDE DEF new
    <2>3. QED BY <1>5, <2>1, <2>2 DEF OrderType
  <1>7. QED BY <1>3, <1>5, <1>6 DEF FillEffect

\* The pair of a match that still stands: a buy and a sell with units to trade.
LEMMA MatchedOrders ==
    ASSUME BookInv, NEW c \in OrderId, match.caller = c,
           StillMatches(match.buy, match.sell)
    PROVE  /\ match.buy \in OrderId /\ match.sell \in OrderId
           /\ order[match.buy] \in OrderType /\ order[match.sell] \in OrderType
           /\ order[match.buy].side = "BUY" /\ order[match.sell].side = "SELL"
           /\ match.buy # match.sell
           /\ FillUnits(match.buy, match.sell) \in Nat
           /\ 0 < FillUnits(match.buy, match.sell)
           /\ FillUnits(match.buy, match.sell) <= order[match.buy].remaining
           /\ FillUnits(match.buy, match.sell) <= order[match.sell].remaining
           /\ FillPrice(match.buy, match.sell) \in Nat
  <1>1. match # NoMatch
    BY DEF NoMatch, OrderId
  <1>2. /\ match.buy \in OrderId /\ match.sell \in OrderId
        /\ order[match.buy].side = "BUY" /\ order[match.sell].side = "SELL"
    BY <1>1 DEF BookInv, MatchedPair
  <1>3. order[match.buy] \in OrderType /\ order[match.sell] \in OrderType
    BY <1>2 DEF BookInv, BookTypeOK
  <1>4. order[match.buy].remaining > 0 /\ order[match.sell].remaining > 0
    BY <1>2, <1>3 DEF BookInv, OrderEquation, Placed, StillMatches, Active,
                      ActiveStatuses, OrderType
  <1>5. QED BY <1>2, <1>3, <1>4 DEF FillUnits, FillPrice, LesserOf, MakerPrice, OrderType

\* Worst cases are natural numbers.
LEMMA ReserveNat ==
    ASSUME NEW limit \in Nat, NEW units \in Nat
    PROVE  /\ Gross(limit, units) \in Nat
           /\ BuyReserve(limit, units) \in Nat
  <1>1. Gross(limit, units) \in Nat
    BY ProductNat DEF Gross
  <1>2. TakerFeeBps \in Nat
    BY TradingAssumption
  <1>3. FeeMinor(Gross(limit, units), TakerFeeBps) \in Nat
    BY <1>1, <1>2, FeeNat
  <1>4. QED BY <1>1, <1>3 DEF BuyReserve

\* What releasing and closing an order does to the book.
LEMMA Closing ==
    ASSUME BookInv, NEW o \in OrderId, Active(o), NEW status \in {"CANCELLED", "EXPIRED"},
           CloseAndRelease(o, status)
    PROVE  /\ order' \in [OrderId -> OrderType]
           /\ reservedCash' \in [Users -> Int]
           /\ reservedUnits' \in [Principals -> Int]
           /\ \A q \in OrderId \ {o} : order'[q] = order[q]
           /\ order'[o].side = order[o].side
           /\ order'[o].principal = order[o].principal
           /\ order'[o].limit = order[o].limit
           /\ order'[o].tif = order[o].tif
           /\ order'[o].remaining = order[o].remaining
           /\ order'[o].filled = order[o].filled
           /\ order'[o].average = order[o].average
           /\ order'[o].status = status
           /\ order'[o].reservation.status # "ACTIVE"
           /\ order'[o].reservation.amount = order[o].reservation.amount
           /\ OrderEquation'
  <1> DEFINE r == order[o]
  <1>1. r \in OrderType /\ order \in [OrderId -> OrderType]
    BY DEF BookInv, BookTypeOK
  <1>2. r.reservation \in ReservationType /\ r.remaining \in Nat /\ r.limit \in Nat
    BY <1>1 DEF OrderType
  <1>3. ReleasedCash(o) \in Nat
    BY <1>2, ReserveNat DEF ReleasedCash
  <1> DEFINE p == r.principal
  <1>4. reservedCash' \in [Users -> Int]
    <2>1. \/ reservedCash' = reservedCash
          \/ reservedCash' = [reservedCash EXCEPT ![p] = @ - ReleasedCash(o)]
      BY DEF CloseAndRelease
    <2>2. reservedCash \in [Users -> Int]
      BY DEF BookInv, BookTypeOK
    <2>3. QED BY <1>3, <2>1, <2>2
  <1>5. reservedUnits' \in [Principals -> Int]
    <2>1. \/ reservedUnits' = reservedUnits
          \/ reservedUnits' = [reservedUnits EXCEPT ![p] = @ - r.remaining]
      BY DEF CloseAndRelease
    <2>2. reservedUnits \in [Principals -> Int]
      BY DEF BookInv, BookTypeOK
    <2>3. QED BY <1>2, <2>1, <2>2
  <1> DEFINE res == [r.reservation EXCEPT
                        !.status = IF @ = "ACTIVE" THEN "RELEASED" ELSE @]
  <1>6. res \in ReservationType /\ res.status # "ACTIVE" /\ res.amount = r.reservation.amount
    BY <1>2 DEF ReservationType
  <1>7. order' = [order EXCEPT ![o] = [r EXCEPT !.status = status, !.reservation = res]]
    BY <1>1, <1>2 DEF CloseAndRelease, OrderType, ReservationType
  <1> HIDE DEF res
  <1>8. [r EXCEPT !.status = status, !.reservation = res] \in OrderType
    BY <1>1, <1>6 DEF OrderType, TerminalStatuses
  <1>9. /\ order' \in [OrderId -> OrderType]
        /\ \A q \in OrderId \ {o} : order'[q] = order[q]
        /\ order'[o] = [r EXCEPT !.status = status, !.reservation = res]
    BY <1>1, <1>7, <1>8
  <1>10. /\ order'[o].side = r.side /\ order'[o].principal = r.principal
         /\ order'[o].limit = r.limit /\ order'[o].original = r.original
         /\ order'[o].tif = r.tif
         /\ order'[o].remaining = r.remaining /\ order'[o].filled = r.filled
         /\ order'[o].average = r.average
         /\ order'[o].status = status /\ order'[o].reservation = res
    BY <1>1, <1>9 DEF OrderType
  <1>11. OrderEquation'
    <2> SUFFICES ASSUME NEW q \in OrderId, Placed(q)'
                 PROVE  /\ order'[q].remaining + order'[q].filled = order'[q].original
                        /\ order'[q].original > 0
                        /\ order'[q].status = "FILLED" <=> order'[q].remaining = 0
                        /\ order'[q].status = "OPEN" => order'[q].filled = 0
                        /\ order'[q].status = "PARTIALLY_FILLED" => order'[q].filled > 0
      BY DEF OrderEquation
    <2>1. CASE q = o
      BY <1>10, <2>1 DEF BookInv, OrderEquation, Placed, Active, ActiveStatuses
    <2>2. CASE q # o
      BY <1>9, <2>2 DEF BookInv, OrderEquation, Placed
    <2>3. QED BY <2>1, <2>2
  <1>12. QED BY <1>4, <1>5, <1>6, <1>9, <1>10, <1>11

\* What a placement does to the book.
LEMMA Opening ==
    ASSUME BookInv, NEW p \in Principals, NEW side \in {"BUY", "SELL"},
           NEW tif \in {"GTC", "IOC"}, NEW limit \in Nat, NEW units \in Nat \ {0},
           side = "BUY" => p \in Users,
           OpenOrder(p, side, tif, limit, units)
    PROVE  /\ nextPriority \in OrderId /\ nextPriority' = nextPriority + 1
           /\ match = NoMatch /\ match' = NoMatch
           /\ order' \in [OrderId -> OrderType]
           /\ \A q \in OrderId \ {nextPriority} : order'[q] = order[q]
           /\ order'[nextPriority].side = side
           /\ order'[nextPriority].principal = p
           /\ order'[nextPriority].status = "OPEN"
           /\ order'[nextPriority].remaining = units
           /\ order'[nextPriority].filled = 0
           /\ order'[nextPriority].limit = limit
           /\ order'[nextPriority].reservation.status = "ACTIVE"
           /\ side = "BUY" =>
                 order'[nextPriority].reservation.amount = BuyReserve(limit, units)
           /\ side = "SELL" => order'[nextPriority].reservation.amount = units
           /\ reservedCash' \in [Users -> Int]
           /\ reservedUnits' \in [Principals -> Int]
           /\ request' \in [OrderId -> RequestType]
           /\ OrderEquation'
  <1> DEFINE o == nextPriority
             reserve == IF side = "BUY" THEN BuyReserve(limit, units) ELSE units
             row == [principal |-> p, side |-> side, tif |-> tif, status |-> "OPEN",
                     limit |-> limit, original |-> units, remaining |-> units,
                     filled |-> 0, average |-> 0,
                     reservation |-> [status |-> "ACTIVE", amount |-> reserve]]
  <1>1. reserve \in Nat
    BY ReserveNat
  <1>2. row \in OrderType
    BY <1>1 DEF OrderType, ReservationType, ActiveStatuses
  <1>3. o \in OrderId /\ o' = o + 1 /\ match = NoMatch /\ match' = NoMatch
    BY DEF OpenOrder, MarketRowFree
  <1>4. order' = [order EXCEPT ![o] = row]
    BY DEF OpenOrder
  <1>5. order \in [OrderId -> OrderType]
    BY DEF BookInv, BookTypeOK
  <1> HIDE DEF row
  <1>6. /\ order' \in [OrderId -> OrderType] /\ order'[o] = row
        /\ \A q \in OrderId \ {o} : order'[q] = order[q]
    BY <1>2, <1>3, <1>4, <1>5
  <1> USE DEF row
  <1> HIDE DEF reserve
  <1>7. reservedCash' \in [Users -> Int] /\ reservedUnits' \in [Principals -> Int]
    <2>1. \/ reservedCash' = reservedCash
          \/ reservedCash' = [reservedCash EXCEPT ![p] = @ + reserve]
      BY DEF OpenOrder, reserve
    <2>2. \/ reservedUnits' = reservedUnits
          \/ reservedUnits' = [reservedUnits EXCEPT ![p] = @ + reserve]
      BY DEF OpenOrder, reserve
    <2>3. reservedCash \in [Users -> Int] /\ reservedUnits \in [Principals -> Int]
      BY DEF BookInv, BookTypeOK
    <2>4. QED BY <1>1, <2>1, <2>2, <2>3
  <1>8. request' \in [OrderId -> RequestType]
    BY <1>3 DEF OpenOrder, BookInv, BookTypeOK, RequestType, InFlight
  <1>9. OrderEquation'
    <2> SUFFICES ASSUME NEW q \in OrderId, Placed(q)'
                 PROVE  /\ order'[q].remaining + order'[q].filled = order'[q].original
                        /\ order'[q].original > 0
                        /\ order'[q].status = "FILLED" <=> order'[q].remaining = 0
                        /\ order'[q].status = "OPEN" => order'[q].filled = 0
                        /\ order'[q].status = "PARTIALLY_FILLED" => order'[q].filled > 0
      BY DEF OrderEquation
    <2>1. CASE q = o
      BY <1>6, <2>1
    <2>2. CASE q # o
      BY <1>6, <2>2 DEF BookInv, OrderEquation, Placed
    <2>3. QED BY <2>1, <2>2
  <1>10. QED BY <1>3, <1>6, <1>7, <1>8, <1>9 DEF reserve

\* What a fill costs the buyer is at most what was reserved for it.
LEMMA BuyerReduction ==
    ASSUME NEW limit \in Nat, NEW price \in Nat, NEW units \in Nat, NEW bps \in Nat,
           price <= limit, bps <= TakerFeeBps
    PROVE  Gross(price, units) + FeeMinor(Gross(price, units), bps) <= BuyReserve(limit, units)
  <1>1. /\ Gross(price, units) \in Nat /\ Gross(limit, units) \in Nat
        /\ Gross(price, units) <= Gross(limit, units)
    BY ProductNat, ProductMonotone DEF Gross
  <1>2. TakerFeeBps \in Nat
    BY TradingAssumption
  <1>3. FeeMinor(Gross(price, units), bps) <= FeeMinor(Gross(limit, units), TakerFeeBps)
    BY <1>1, <1>2, FeeMonotone
  <1>4. /\ FeeMinor(Gross(price, units), bps) \in Nat
        /\ FeeMinor(Gross(limit, units), TakerFeeBps) \in Nat
    BY <1>1, <1>2, FeeNat
  <1>5. QED BY <1>1, <1>3, <1>4 DEF BuyReserve

\* What a settlement does to the book.
LEMMA Settling ==
    ASSUME BookInv, NEW c \in OrderId, MatchSettle(c)
    PROVE  /\ order' = [order EXCEPT ![match.buy] = FilledBuy(match.buy, match.sell),
                                     ![match.sell] = FilledSell(match.buy, match.sell)]
           /\ order' \in [OrderId -> OrderType]
           /\ \A q \in OrderId \ {match.buy, match.sell} : order'[q] = order[q]
           /\ \A q \in {match.buy, match.sell} :
                 FillEffect(order[q], order'[q], FillUnits(match.buy, match.sell),
                            FillPrice(match.buy, match.sell))
           /\ \A q \in OrderId : /\ order'[q].side = order[q].side
                                  /\ order'[q].principal = order[q].principal
                                  /\ order'[q].limit = order[q].limit
                                  /\ order'[q].tif = order[q].tif
           /\ order'[match.buy].reservation.amount =
                 order[match.buy].reservation.amount - ReserveReduction(match.buy, match.sell)
           /\ order'[match.sell].reservation.amount =
                 IF order[match.sell].remaining = FillUnits(match.buy, match.sell)
                 THEN order[match.sell].reservation.amount
                 ELSE order[match.sell].reservation.amount - FillUnits(match.buy, match.sell)
           /\ OrderEquation'
  <1> DEFINE b == match.buy
             s == match.sell
             u == FillUnits(b, s)
             price == FillPrice(b, s)
  <1>1. StillMatches(b, s) /\ match.caller = c
    BY DEF MatchSettle
  <1>2. /\ b \in OrderId /\ s \in OrderId /\ b # s
        /\ order[b] \in OrderType /\ order[s] \in OrderType
        /\ u \in Nat /\ 0 < u /\ u <= order[b].remaining /\ u <= order[s].remaining
        /\ price \in Nat
    BY <1>1, MatchedOrders
  <1>3. order' = [order EXCEPT ![b] = FilledBuy(b, s), ![s] = FilledSell(b, s)]
    BY DEF MatchSettle
  <1>4. order \in [OrderId -> OrderType]
    BY DEF BookInv, BookTypeOK
  <1> DEFINE nb == FilledBuy(b, s)
             ns == FilledSell(b, s)
  <1>5. /\ nb = [Filled(order[b], u, price)
                    EXCEPT !.reservation.amount = @ - ReserveReduction(b, s)]
        /\ ns = [Filled(order[s], u, price)
                    EXCEPT !.reservation.amount = IF order[s].remaining = u THEN @ ELSE @ - u]
    BY DEF FilledBuy, FilledSell, Completes
  <1>6. ReserveReduction(b, s) \in Nat
    BY <1>2, ReserveNat DEF ReserveReduction, OrderType
  <1> DEFINE fb == Filled(order[b], u, price)
             fs == Filled(order[s], u, price)
  <1>7. FillEffect(order[b], fb, u, price) /\ FillEffect(order[s], fs, u, price)
    BY <1>2, FilledRow
  <1> HIDE DEF fb, fs
  <1>8. /\ FillEffect(order[b], nb, u, price)
        /\ nb.reservation.amount = order[b].reservation.amount - ReserveReduction(b, s)
    <2>1. fb.reservation.amount = order[b].reservation.amount
      BY <1>2, FilledRow DEF fb
    <2>2. QED BY <1>5, <1>6, <1>7, <2>1 DEF fb, FillEffect, OrderType, ReservationType
  <1>9. /\ FillEffect(order[s], ns, u, price)
        /\ ns.reservation.amount = IF order[s].remaining = u THEN order[s].reservation.amount
                                   ELSE order[s].reservation.amount - u
    <2>1. fs.reservation.amount = order[s].reservation.amount
      BY <1>2, FilledRow DEF fs
    <2>2. QED BY <1>2, <1>5, <1>7, <2>1 DEF fs, FillEffect, OrderType, ReservationType
  <1> HIDE DEF nb, ns, u, price
  <1>10. /\ order' \in [OrderId -> OrderType]
         /\ \A q \in OrderId \ {b, s} : order'[q] = order[q]
         /\ order'[b] = nb /\ order'[s] = ns
    BY <1>2, <1>3, <1>4, <1>8, <1>9 DEF FillEffect, nb, ns
  <1>11. /\ FillEffect(order[b], order'[b], u, price)
         /\ FillEffect(order[s], order'[s], u, price)
    BY <1>8, <1>9, <1>10
  <1>12. \A q \in OrderId : /\ order'[q].side = order[q].side
                            /\ order'[q].principal = order[q].principal
                            /\ order'[q].limit = order[q].limit
                            /\ order'[q].tif = order[q].tif
    BY <1>10, <1>11 DEF FillEffect
  <1>13. OrderEquation'
    <2> SUFFICES ASSUME NEW q \in OrderId, Placed(q)'
                 PROVE  /\ order'[q].remaining + order'[q].filled = order'[q].original
                        /\ order'[q].original > 0
                        /\ order'[q].status = "FILLED" <=> order'[q].remaining = 0
                        /\ order'[q].status = "OPEN" => order'[q].filled = 0
                        /\ order'[q].status = "PARTIALLY_FILLED" => order'[q].filled > 0
      BY DEF OrderEquation
    <2>1. CASE q \in {b, s}
      <3>1. FillEffect(order[q], order'[q], u, price)
        BY <1>11, <2>1
      <3>2. /\ order[q].remaining + order[q].filled = order[q].original
            /\ order[q].original > 0 /\ order[q] \in OrderType
        BY <1>1, <1>2, <2>1 DEF BookInv, OrderEquation, Placed, StillMatches, Active, ActiveStatuses
      <3>3. u \in Nat /\ 0 < u /\ u <= order[q].remaining
        BY <1>2, <2>1 DEF u
      <3>4. QED BY <3>1, <3>2, <3>3 DEF FillEffect, OrderType
    <2>2. CASE q \notin {b, s}
      BY <1>10, <2>2 DEF BookInv, OrderEquation, Placed
    <2>3. QED BY <2>1, <2>2
  <1>14. QED BY <1>2, <1>3, <1>8, <1>9, <1>10, <1>11, <1>12, <1>13 DEF u, price, nb, ns

\* Transactions and operators that leave the book alone.
QuietStep ==
    \/ \E c \in OrderId : \/ MatchSelect(c) \/ MatchRefused(c) \/ MatchStale(c)
                          \/ MatchThrows(c) \/ Interrupt(c) \/ Replay(c)
                          \/ (CancelIocRemainder(c) /\ ~Active(c))
    \/ \E status \in {"OPEN", "HALTED"}, expected \in OperatorExpects :
          SetMarketStatus(status, expected)
    \/ \E u \in Users : ToggleSuspension(u) \/ ToggleHold(u)

\* The steps that close an order with units left.
ClosingStep ==
    \E o \in OrderId, status \in {"CANCELLED", "EXPIRED"} :
        /\ Active(o)
        /\ CloseAndRelease(o, status)
        /\ \/ Cancel(o)
           \/ Expire(o)
           \/ CancelIocRemainder(o)
           \/ \E c \in OrderId : MatchSelfTrade(c)

PlacingStep ==
    \E p \in Principals, side \in {"BUY", "SELL"}, tif \in {"GTC", "IOC"},
       limit \in Nat, units \in Nat \ {0} :
        /\ side = "BUY" => p \in Users
        /\ OpenOrder(p, side, tif, limit, units)

SettlingStep == \E c \in OrderId : MatchSettle(c)

\* The four kinds of steps as far as the book is concerned.
LEMMA StepKinds ==
    ASSUME BookInv, Next
    PROVE  QuietStep \/ ClosingStep \/ PlacingStep \/ SettlingStep
  <1>1. CASE \E u \in Users, side \in {"BUY", "SELL"}, tif \in TimesInForce,
               limit \in Prices, units \in Quantities : Place(u, side, tif, limit, units)
    BY <1>1, TradingAssumption DEF Place, PlacingStep, Principals
  <1>2. CASE \E units \in Quantities : PlaceTreasuryListing(units)
    BY <1>2, TradingAssumption DEF PlaceTreasuryListing, PlacingStep, Principals
  <1>3. ASSUME NEW c \in OrderId, RequestStep(c)
        PROVE  QuietStep \/ ClosingStep \/ SettlingStep
    <2>1. CASE MatchSelfTrade(c)
      <3> DEFINE taker == Taker(match.buy, match.sell)
      <3>1. StillMatches(match.buy, match.sell) /\ match.caller = c
            /\ CloseAndRelease(taker, "CANCELLED")
        BY <2>1 DEF MatchSelfTrade
      <3>2. taker \in OrderId /\ Active(taker)
        BY <3>1, MatchedOrders DEF Taker, StillMatches
      <3>3. QED BY <2>1, <3>1, <3>2 DEF ClosingStep
    <2>2. CASE CancelIocRemainder(c)
      BY <2>2 DEF CancelIocRemainder, ClosingStep, QuietStep
    <2>3. CASE ~MatchSelfTrade(c) /\ ~CancelIocRemainder(c)
      BY <1>3, <2>3 DEF RequestStep, QuietStep, SettlingStep
    <2>4. QED BY <2>1, <2>2, <2>3
  <1>4. CASE \E o \in OrderId : Cancel(o) \/ Expire(o)
    BY <1>4 DEF Cancel, MayCancel, Expire, ClosingStep
  <1>5. CASE \/ \E c \in Interruptible : Interrupt(c)
             \/ \E c \in OrderId : Replay(c)
             \/ \E status \in {"OPEN", "HALTED"}, expected \in OperatorExpects :
                   SetMarketStatus(status, expected)
             \/ \E u \in Suspendable : ToggleSuspension(u)
             \/ \E u \in Holdable : ToggleHold(u)
    BY <1>5, TradingAssumption DEF QuietStep
  <1>6. QED BY <1>1, <1>2, <1>3, <1>4, <1>5 DEF Next

\* Quiet steps touch neither orders nor what anybody owns.
LEMMA QuietKeeps ==
    ASSUME QuietStep \/ UNCHANGED vars
    PROVE  UNCHANGED <<nextPriority, order, executions, cash, reservedCash, settled,
                       reservedUnits, lots, realized>>
  BY DEF QuietStep, vars, MatchSelect, MatchRefused, MatchStale, MatchThrows, Interrupt,
         Replay, CancelIocRemainder, SetMarketStatus, ToggleSuspension, ToggleHold

\* The invariant holds in an activated market.
LEMMA BookInit == Init => BookInv
  <1> SUFFICES ASSUME Init PROVE BookInv
    OBVIOUS
  <1> USE TradingAssumption DEF Init
  <1>1. Unplaced \in OrderType
    BY DEF Unplaced, OrderType, Principals, ReservationType
  <1>2. BookTypeOK
    BY <1>1 DEF BookTypeOK, MarketStatuses, Principals, CashAccounts, RequestType, InFlight,
                NoMatch, ExecutionType
  <1>3. OrderEquation /\ MatchedPair
    BY DEF OrderEquation, Placed, Unplaced, MatchedPair
  <1>4. QED BY <1>2, <1>3 DEF BookInv

\* Every way a request moves on leaves it a request.
LEMMA RequestMoves ==
    ASSUME BookTypeOK, NEW c \in OrderId,
           \/ StopMatching(c) \/ CountRound(c) \/ FailRequest(c)
           \/ \E phase \in {"returned", "replayed"} :
                 request' = [request EXCEPT ![c].phase = phase]
    PROVE  request' \in [OrderId -> RequestType]
  <1>1. request \in [OrderId -> RequestType]
    BY DEF BookTypeOK
  <1>2. request[c] \in RequestType
    BY <1>1
  <1>3. AfterMatching(c) \in {"cancelling", "returned"}
    BY DEF AfterMatching
  <1>4. PICK r \in RequestType : request' = [request EXCEPT ![c] = r]
    <2>1. ASSUME NEW phase \in {"matching", "cancelling", "returned", "failed", "replayed"},
                 request' = [request EXCEPT ![c].phase = phase]
          PROVE  request' = [request EXCEPT ![c] = [request[c] EXCEPT !.phase = phase]]
                 /\ [request[c] EXCEPT !.phase = phase] \in RequestType
      BY <1>1, <1>2, <2>1 DEF RequestType, InFlight
    <2>2. CASE CountRound(c)
      <3> DEFINE r == request[c]
                 phase == IF r.rounds + 1 = MaxExecutions THEN AfterMatching(c) ELSE r.phase
      <3>1. request' = [request EXCEPT ![c] = [phase |-> phase, rounds |-> r.rounds + 1]]
        BY <2>2 DEF CountRound
      <3>2. phase \in InFlight \cup {"none", "returned", "failed", "replayed"}
        BY <1>2, <1>3 DEF RequestType, InFlight
      <3>3. r.rounds + 1 \in Nat
        BY <1>2 DEF RequestType
      <3> HIDE DEF r, phase
      <3>4. [phase |-> phase, rounds |-> r.rounds + 1] \in RequestType
        BY <3>2, <3>3 DEF RequestType
      <3>5. QED BY <3>1, <3>4
    <2>3. CASE StopMatching(c) \/ FailRequest(c)
      BY <1>3, <2>1, <2>3 DEF StopMatching, FailRequest
    <2>4. QED BY <2>1, <2>2, <2>3
  <1>5. QED BY <1>1, <1>4

\* Adding to entries of a function leaves it a function to Int.
LEMMA OneEntry ==
    ASSUME NEW S, NEW f \in [S -> Int], NEW a, NEW x \in Int
    PROVE  [f EXCEPT ![a] = @ - x] \in [S -> Int]
  <1>1. CASE a \in S
    BY <1>1
  <1>2. CASE a \notin S
    BY <1>2
  <1>3. QED BY <1>1, <1>2

\* Moving an amount between two entries of a function keeps its type.
LEMMA TwoEntries ==
    ASSUME NEW S, NEW f \in [S -> Int], NEW a \in S, NEW b \in S, a # b,
           NEW x \in Int, NEW y \in Int
    PROVE  [f EXCEPT ![a] = @ - x, ![b] = @ + y] \in [S -> Int]
  OBVIOUS

\* Moving amounts between three entries of a function keeps its type.
LEMMA ThreeEntries ==
    ASSUME NEW S, NEW f \in [S -> Int], NEW a \in S, NEW b \in S, NEW c \in S,
           a # b, b # c, a # c, NEW x \in Int, NEW y \in Int, NEW z \in Int
    PROVE  [f EXCEPT ![a] = @ - x, ![b] = @ + y, ![c] = @ + z] \in [S -> Int]
  OBVIOUS

\* The invariant is inductive: one case per kind of step.
LEMMA BookStep ==
    ASSUME BookInv, [Next]_vars
    PROVE  BookInv'
  <1>1. CASE QuietStep \/ UNCHANGED vars
    <2>1. UNCHANGED <<nextPriority, order, executions, cash, reservedCash, settled, reservedUnits>>
      BY <1>1, QuietKeeps
    <2> DEFINE RestOK ==
            /\ market' \in MarketStatuses
            /\ request' \in [OrderId -> RequestType]
            /\ match' \in [caller : OrderId \cup {0}, buy : OrderId \cup {0}, sell : OrderId \cup {0}]
            /\ suspended' \subseteq Users /\ held' \subseteq Users
            /\ MatchedPair'
    <2>2. RestOK
      <3>1. CASE UNCHANGED vars
        BY <3>1 DEF vars, BookInv, BookTypeOK, MatchedPair
      <3>2. ASSUME NEW c \in OrderId, MatchSelect(c)
            PROVE  RestOK
        <4>1. UNCHANGED <<market, order, suspended, held>>
          BY <3>2 DEF MatchSelect
        <4>2. request' \in [OrderId -> RequestType]
          BY <3>2, RequestMoves DEF MatchSelect, BookInv, BookTypeOK
        <4>3. \/ UNCHANGED match
              \/ \E b \in ActiveBuys, s \in ActiveSells :
                     match' = [caller |-> c, buy |-> b, sell |-> s]
          BY <3>2 DEF MatchSelect
        <4>4. QED BY <4>1, <4>2, <4>3
                  DEF ActiveBuys, ActiveSells, BookInv, BookTypeOK, MatchedPair
      <3>3. ASSUME NEW c \in OrderId,
                   \/ MatchRefused(c) \/ MatchStale(c) \/ MatchThrows(c)
                   \/ Interrupt(c) \/ Replay(c) \/ (CancelIocRemainder(c) /\ ~Active(c))
            PROVE  RestOK
        <4>1. UNCHANGED <<market, order, suspended, held>>
          BY <3>3 DEF MatchRefused, MatchStale, MatchThrows, Interrupt, Replay, CancelIocRemainder
        <4>2. match' \in {match, NoMatch}
          BY <3>3 DEF MatchRefused, MatchStale, MatchThrows, Interrupt, Replay, CancelIocRemainder
        <4>3. request' \in [OrderId -> RequestType]
          BY <3>3, RequestMoves DEF MatchRefused, MatchStale, MatchThrows, Interrupt, Replay,
                                    CancelIocRemainder, BookInv
        <4>4. QED BY <4>1, <4>2, <4>3 DEF BookInv, BookTypeOK, MatchedPair, NoMatch
      <3>4. CASE \/ \E status \in {"OPEN", "HALTED"}, expected \in OperatorExpects :
                      SetMarketStatus(status, expected)
                 \/ \E u \in Users : ToggleSuspension(u) \/ ToggleHold(u)
        BY <3>4 DEF SetMarketStatus, ToggleSuspension, ToggleHold, MarketStatuses,
                    BookInv, BookTypeOK, MatchedPair
      <3> HIDE DEF RestOK
      <3>5. CASE QuietStep
        <4>1. ASSUME NEW c \in OrderId,
                     \/ MatchSelect(c) \/ MatchRefused(c) \/ MatchStale(c)
                     \/ MatchThrows(c) \/ Interrupt(c) \/ Replay(c)
                     \/ (CancelIocRemainder(c) /\ ~Active(c))
              PROVE  RestOK
          BY <3>2, <3>3, <4>1
        <4>2. QED BY <3>4, <3>5, <4>1, Zenon DEF QuietStep
      <3>6. QED BY <1>1, <3>1, <3>5
    <2>3. QED BY <2>1, <2>2 DEF BookInv, BookTypeOK, OrderEquation, Placed
  <1>2. CASE ClosingStep
    <2>1. PICK o \in OrderId, status \in {"CANCELLED", "EXPIRED"} :
            /\ Active(o)
            /\ CloseAndRelease(o, status)
            /\ \/ Cancel(o)
               \/ Expire(o)
               \/ CancelIocRemainder(o)
               \/ \E c \in OrderId : MatchSelfTrade(c)
      BY <1>2 DEF ClosingStep
    <2>2. /\ order' \in [OrderId -> OrderType]
          /\ reservedCash' \in [Users -> Int]
          /\ reservedUnits' \in [Principals -> Int]
          /\ OrderEquation'
          /\ \A q \in OrderId : order'[q].side = order[q].side
      BY <2>1, Closing
    <2>3. UNCHANGED <<market, nextPriority, executions, cash, settled, suspended, held>>
      BY <2>1 DEF CloseAndRelease, Cancel, Expire, CancelIocRemainder, MatchSelfTrade
    <2>4. match' \in {match, NoMatch}
      BY <2>1 DEF Cancel, Expire, CancelIocRemainder, MatchSelfTrade
    <2>5. request' \in [OrderId -> RequestType]
      <3>1. CASE Cancel(o) \/ Expire(o)
        BY <3>1 DEF Cancel, Expire, BookInv, BookTypeOK
      <3>2. CASE CancelIocRemainder(o)
        BY <3>2, RequestMoves DEF CancelIocRemainder, BookInv
      <3>3. CASE \E c \in OrderId : MatchSelfTrade(c)
        BY <3>3, RequestMoves DEF MatchSelfTrade, BookInv
      <3>4. QED BY <2>1, <3>1, <3>2, <3>3
    <2>6. QED BY <2>2, <2>3, <2>4, <2>5 DEF BookInv, BookTypeOK, MatchedPair, NoMatch
  <1>3. CASE PlacingStep
    <2>1. PICK p \in Principals, side \in {"BUY", "SELL"}, tif \in {"GTC", "IOC"},
               limit \in Nat, units \in Nat \ {0} :
            (side = "BUY" => p \in Users) /\ OpenOrder(p, side, tif, limit, units)
      BY <1>3 DEF PlacingStep
    <2>2. UNCHANGED <<market, executions, cash, settled, suspended, held>>
      BY <2>1 DEF OpenOrder
    <2>3. /\ nextPriority \in OrderId /\ nextPriority' = nextPriority + 1
          /\ match' = NoMatch
          /\ order' \in [OrderId -> OrderType]
          /\ reservedCash' \in [Users -> Int]
          /\ reservedUnits' \in [Principals -> Int]
          /\ request' \in [OrderId -> RequestType]
          /\ OrderEquation'
      BY <2>1, Opening
    <2>4. nextPriority' \in 1 .. (MaxOrders + 1)
      BY <2>3, TradingAssumption DEF OrderId
    <2>5. QED BY <2>2, <2>3, <2>4 DEF BookInv, BookTypeOK, MatchedPair, NoMatch
  <1>4. CASE SettlingStep
    <2>1. PICK c \in OrderId : MatchSettle(c)
      BY <1>4 DEF SettlingStep
    <2> DEFINE b == match.buy
               s == match.sell
               units == FillUnits(b, s)
    <2>2. /\ b \in OrderId /\ s \in OrderId
          /\ order[b] \in OrderType /\ order[s] \in OrderType
          /\ units \in Nat /\ FillPrice(b, s) \in Nat
      BY <2>1, MatchedOrders DEF MatchSettle
    <2>3. /\ order' \in [OrderId -> OrderType]
          /\ OrderEquation'
      BY <2>1, Settling
    <2>4. UNCHANGED <<market, nextPriority, suspended, held>> /\ match' = NoMatch
      BY <2>1 DEF MatchSettle
    <2>5. request' \in [OrderId -> RequestType]
      BY <2>1, RequestMoves DEF MatchSettle, BookInv
    <2>6. /\ Gross(FillPrice(b, s), units) \in Nat
          /\ BuyerFee(b, s) \in Nat /\ SellerFee(b, s) \in Nat
          /\ ReserveReduction(b, s) \in Nat
      <3>1. Gross(FillPrice(b, s), units) \in Nat
        BY <2>2, ReserveNat
      <3>2. MakerFeeBps \in Nat /\ TakerFeeBps \in Nat
        BY TradingAssumption
      <3>3. BuyerFee(b, s) \in Nat /\ SellerFee(b, s) \in Nat
        BY <3>1, <3>2, FeeNat DEF BuyerFee, SellerFee
      <3>4. ReserveReduction(b, s) \in Nat
        BY <2>2, ReserveNat DEF ReserveReduction, OrderType
      <3>5. QED BY <3>1, <3>3, <3>4
    <2>7. executions' \in Seq(ExecutionType)
      BY <2>1, <2>2, <2>6 DEF MatchSettle, ExecutionType, BookInv, BookTypeOK
    <2> DEFINE buyer == order[b].principal
               seller == order[s].principal
               gross == Gross(FillPrice(b, s), units)
               paid == gross + BuyerFee(b, s)
               received == gross - SellerFee(b, s)
               fees == BuyerFee(b, s) + SellerFee(b, s)
               reduction == ReserveReduction(b, s)
    <2> HIDE DEF units
    <2>8. /\ buyer \in Principals /\ seller \in Principals /\ buyer # seller
          /\ FeeRevenue \notin Principals
      BY <2>1, <2>2, TradingAssumption DEF MatchSettle, SelfTrade, OrderType
    <2>9. cash' \in [CashAccounts -> Int]
      <3>1. cash' = [cash EXCEPT ![buyer] = @ - paid, ![seller] = @ + received,
                                 ![FeeRevenue] = @ + fees]
        BY <2>1 DEF MatchSettle, CashAfter, units
      <3>2. paid \in Int /\ received \in Int /\ fees \in Int
        BY <2>6
      <3>3. cash \in [CashAccounts -> Int]
        BY DEF BookInv, BookTypeOK
      <3> HIDE DEF paid, received, fees, buyer, seller
      <3>4. QED BY <2>8, <3>1, <3>2, <3>3, ThreeEntries DEF CashAccounts
    <2>10. reservedCash' \in [Users -> Int]
      <3>1. reservedCash' = [reservedCash EXCEPT ![buyer] = @ - reduction]
        BY <2>1 DEF MatchSettle
      <3>2. reservedCash \in [Users -> Int]
        BY DEF BookInv, BookTypeOK
      <3>3. reduction \in Int
        BY <2>6
      <3> HIDE DEF reduction, buyer
      <3>4. QED BY <3>1, <3>2, <3>3, OneEntry
    <2>11. settled' \in [Principals -> Int] /\ reservedUnits' \in [Principals -> Int]
      <3>1. /\ settled' = [settled EXCEPT ![seller] = @ - units, ![buyer] = @ + units]
            /\ reservedUnits' = [reservedUnits EXCEPT ![seller] = @ - units]
        BY <2>1 DEF MatchSettle, units
      <3>2. settled \in [Principals -> Int] /\ reservedUnits \in [Principals -> Int]
        BY DEF BookInv, BookTypeOK
      <3> HIDE DEF buyer, seller
      <3>3. settled' \in [Principals -> Int]
        BY <2>2, <2>8, <3>1, <3>2, TwoEntries
      <3>4. reservedUnits' \in [Principals -> Int]
        BY <2>2, <2>8, <3>1, <3>2, OneEntry
      <3>5. QED BY <3>3, <3>4
    <2>12. QED BY <2>3, <2>4, <2>5, <2>7, <2>9, <2>10, <2>11
               DEF BookInv, BookTypeOK, MatchedPair, NoMatch
  <1>5. QED BY <1>1, <1>2, <1>3, <1>4, StepKinds

\* In every reachable state of the market the book is typed, its orders add up and
\* an open matching transaction holds a placed buy and a placed sell.
THEOREM BookInvariant == Spec => []BookInv
  <1>1. BookInv /\ [Next]_vars => BookInv'
    BY BookStep
  <1>2. QED BY BookInit, <1>1, PTL DEF Spec

\* Every variable of the book keeps its type: the part of TypeOK about them.
THEOREM BookTypes == Spec => []BookTypeOK
  BY BookInvariant, PTL DEF BookInv

\* The order equation (remaining + filled = original, and the status that goes
\* with it) holds in every reachable state of applyFill, closeOrder and place.
THEOREM OrdersAddUp == Spec => []OrderEquation
  BY BookInvariant, PTL DEF BookInv
=============================================================================
