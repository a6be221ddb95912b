------------------------------- MODULE Trading -------------------------------
(***************************************************************************)
(* The trading service of one market: trading/application/trading.service. *)
(* Every database transaction of the service is one step, with one         *)
(* exception: a matching transaction chooses the best pair of orders while *)
(* it holds only the market row and locks the two orders afterwards, so it *)
(* is two steps (MatchSelect, then one of MatchStale, MatchSelfTrade,      *)
(* MatchSettle, MatchThrows) between which cancellations may commit.       *)
(*                                                                         *)
(* A placement request is more than its first transaction: once the order  *)
(* is committed the same request runs up to MaxExecutions matching         *)
(* transactions and, for an IOC order, one that cancels the remainder.     *)
(* request[o] is how far the request that placed order o has come; it may  *)
(* be interrupted (an error, a crash) between any two transactions.        *)
(*                                                                         *)
(* An order is identified by its priority sequence in the market.          *)
(***************************************************************************)
EXTENDS OrderPolicy, PortfolioLots, FiniteSets

CONSTANTS
    Users,            \* customers
    Treasury,         \* the ownership Treasury, seller of treasury listings
    FeeRevenue,       \* the platform account TRADING_FEE_REVENUE
    MaxOrders,        \* bound: orders ever placed in the market
    MaxExecutions,    \* matchMarket's maxExecutions (100 in the code)
    MakerFeeBps,      \* fee policy of the market
    TakerFeeBps,
    MinimumNotional,
    Prices,           \* limit prices customers submit
    Quantities,       \* units they submit
    TimesInForce,     \* times in force they submit
    IssuePrice,       \* price of the issued supply, which treasury listings use
    InitialCash,      \* posted cash of each customer
    InitialUnits,     \* settled units of each customer and of the Treasury
    Suspendable,      \* customers whose account may be suspended
    Holdable,         \* customers who may get a returned-funds hold
    Expiring,         \* orders whose row carries an expiry timestamp
    Interruptible,    \* orders whose placement request may be interrupted
    OperatorExpects   \* expectedStatus values of halt and resume requests

Principals   == Users \cup {Treasury}
CashAccounts == Principals \cup {FeeRevenue}
OrderId      == 1 .. MaxOrders

ASSUME TradingAssumption ==
    /\ IsFiniteSet(Users)
    /\ Treasury \notin Users
    /\ FeeRevenue \notin Principals
    /\ MaxOrders \in Nat
    /\ MaxExecutions \in Nat \ {0}
    /\ MakerFeeBps \in 0 .. 1000
    /\ TakerFeeBps \in 0 .. 1000
    /\ MinimumNotional \in Nat
    /\ Prices \subseteq Nat \ {0}
    /\ Quantities \subseteq Nat \ {0}
    /\ IssuePrice \in Nat \ {0}
    /\ InitialCash \in [Users -> Nat]
    /\ InitialUnits \in [Principals -> Nat]
    /\ Suspendable \subseteq Users
    /\ Holdable \subseteq Users
    /\ TimesInForce \subseteq {"GTC", "IOC"}
    /\ Expiring \subseteq OrderId
    /\ Interruptible \subseteq OrderId
    /\ OperatorExpects \subseteq {"OPEN", "HALTED", "CLOSED"}

VARIABLES
    market,         \* TradingMarket.status
    nextPriority,   \* TradingMarket.nextPrioritySequence
    order,          \* TradingOrder rows, each with the reservation it holds
    executions,     \* TradingExecution rows in marketSequence order
    cash,           \* AccountBalance: posted authority of each cash account
    reservedCash,   \* AccountBalance.reservedMinor of each customer
    settled,        \* OwnershipPosition.settledUnits
    reservedUnits,  \* OwnershipPosition.reservedUnits
    lots,           \* open PortfolioLots of each customer
    realized,       \* sum of the customer's LotDisposal.realizedPnlMinor
    outbox,         \* events appended, identified by [type, order, execution]
    request,        \* progress of the request that placed each order
    match,          \* the open matching transaction, holder of the market row
    suspended,      \* customers whose accountStatus is not ACTIVE
    held            \* customers with an ACTIVE returned-funds ACCOUNT hold

vars == <<market, nextPriority, order, executions, cash, reservedCash, settled,
          reservedUnits, lots, realized, outbox, request, match, suspended, held>>

----------------------------------------------------------------------------
(* Orders *)

(* Definitions commented "Faulty variant" are no part of the specification:  *)
(* each is the definition after it with a plausible slip in the code, for    *)
(* showing that some property below depends on that definition.              *)

ActiveStatuses   == {"OPEN", "PARTIALLY_FILLED"}
TerminalStatuses == {"FILLED", "CANCELLED", "EXPIRED"}

\* CashReservation of a BUY order (amount in minor units) or
\* OwnershipReservation of a SELL order (amount in units).
ReservationType == [status : {"ACTIVE", "RELEASED", "CONSUMED"}, amount : Int]

OrderType ==
    [principal : Principals, side : {"BUY", "SELL"}, tif : {"GTC", "IOC"},
     status : ActiveStatuses \cup TerminalStatuses \cup {"NONE"},
     limit : Nat, original : Nat, remaining : Nat, filled : Nat,
     average : Nat, reservation : ReservationType]

Unplaced ==
    [principal |-> Treasury, side |-> "SELL", tif |-> "GTC", status |-> "NONE",
     limit |-> 0, original |-> 0, remaining |-> 0, filled |-> 0, average |-> 0,
     reservation |-> [status |-> "CONSUMED", amount |-> 0]]

Active(o)  == order[o].status \in ActiveStatuses
ActiveBuys  == {o \in OrderId : Active(o) /\ order[o].side = "BUY"}
ActiveSells == {o \in OrderId : Active(o) /\ order[o].side = "SELL"}

\* Price-time priority: ORDER BY limitPriceMinor, prioritySequence.
BestBuy(b) ==
    /\ b \in ActiveBuys
    /\ \A o \in ActiveBuys : \/ order[o].limit < order[b].limit
                             \/ order[o].limit = order[b].limit /\ b <= o

\* Faulty variant: orders of one price in any order.
BestSellByPrice(s) ==
    s \in ActiveSells /\ \A o \in ActiveSells : order[o].limit >= order[s].limit

BestSell(s) ==
    /\ s \in ActiveSells
    /\ \A o \in ActiveSells : \/ order[o].limit > order[s].limit
                              \/ order[o].limit = order[s].limit /\ s <= o

Crossing(b, s) == Crosses(order[b].limit, order[s].limit)

Crossed == \E b \in ActiveBuys, s \in ActiveSells : Crossing(b, s)

\* Worst-case cash for buying units at a limit price.
BuyReserve(limit, units) ==
    Gross(limit, units) + FeeMinor(Gross(limit, units), TakerFeeBps)

Event(type, o, execution) == [type |-> type, order |-> o, execution |-> execution]

----------------------------------------------------------------------------
(* Requests *)

InFlight == {"matching", "cancelling"}

RequestType ==
    [phase : InFlight \cup {"none", "returned", "failed", "replayed"}, rounds : Nat]

\* Faulty variant: the remainder of an IOC order is forgotten.
AfterMatchingIgnoringTif(o) == "returned"

\* What follows the matching loop: an IOC order has its remainder cancelled.
AfterMatching(o) == IF order[o].tif = "IOC" THEN "cancelling" ELSE "returned"

NoMatch == [caller |-> 0, buy |-> 0, sell |-> 0]

MarketRowFree == match = NoMatch

\* The loop ends (break): nothing crosses, or the chosen pair is gone.
StopMatching(c) ==
    request' = [request EXCEPT ![c].phase = AfterMatching(c)]

\* One more iteration done; the loop ends after MaxExecutions of them.
CountRound(c) ==
    request' = [request EXCEPT ![c] =
        [phase  |-> IF @.rounds + 1 = MaxExecutions THEN AfterMatching(c) ELSE @.phase,
         rounds |-> @.rounds + 1]]

\* Faulty variant: the loop goes on after a transaction that threw.
KeepTrying(c) == c \in OrderId /\ UNCHANGED request

\* The transaction throws and rolls back, and the request rejects.
FailRequest(c) == request' = [request EXCEPT ![c].phase = "failed"]

----------------------------------------------------------------------------
(* Placement *)

\* Faulty variants: what is reserved already is not taken off.
PostedCash(u)   == cash[u]
SettledUnits(p) == settled[p]

\* reserveCash and reserveUnits: what a principal may still reserve.
AvailableCash(u)  == cash[u] - reservedCash[u]
AvailableUnits(p) == settled[p] - reservedUnits[p]

\* The placement transaction after its account checks: lock the market row
\* (which must be OPEN), price the order, reserve its cash or units, insert it
\* OPEN with the next priority.  Any failing check throws and changes nothing.
OpenOrder(p, side, tif, limit, units) ==
    LET o == nextPriority
        reserve == IF side = "BUY" THEN BuyReserve(limit, units) ELSE units
    IN
    /\ MarketRowFree
    /\ market = "OPEN"
    /\ o \in OrderId
    /\ Gross(limit, units) >= MinimumNotional
    /\ \/ /\ side = "BUY"
          /\ AvailableCash(p) >= reserve
          /\ reservedCash' = [reservedCash EXCEPT ![p] = @ + reserve]
          /\ UNCHANGED reservedUnits
       \/ /\ side = "SELL"
          /\ AvailableUnits(p) >= reserve
          /\ reservedUnits' = [reservedUnits EXCEPT ![p] = @ + reserve]
          /\ UNCHANGED reservedCash
    /\ nextPriority' = o + 1
    /\ order' = [order EXCEPT ![o] =
          [principal |-> p, side |-> side, tif |-> tif, status |-> "OPEN",
           limit |-> limit, original |-> units, remaining |-> units,
           filled |-> 0, average |-> 0,
           reservation |-> [status |-> "ACTIVE", amount |-> reserve]]]
    /\ request' = [request EXCEPT ![o] = [phase |-> "matching", rounds |-> 0]]
    /\ outbox' = outbox \cup {Event("order.opened", o, 0)}
    /\ UNCHANGED <<market, executions, cash, settled, lots, realized, match,
                   suspended, held>>

\* place: the capability check refuses a held customer before the transaction,
\* assertTradable a suspended one inside it.
Place(u, side, tif, limit, units) ==
    /\ u \notin held
    /\ u \notin suspended
    /\ OpenOrder(u, side, tif, limit, units)

\* placeTreasuryListing: always at the issue price and stored as GTC.
PlaceTreasuryListing(units) == OpenOrder(Treasury, "SELL", "GTC", IssuePrice, units)

----------------------------------------------------------------------------
(* Closing an order with units left *)

\* Faulty variant: the reservation made at placement.
ReleaseOfOriginal(o) == BuyReserve(order[o].limit, order[o].original)

\* Releasing a BUY order gives back the worst case of its remaining units; the
\* amount of its reservation row is not consulted.
ReleasedCash(o) == BuyReserve(order[o].limit, order[o].remaining)

\* releaseRemainder throws otherwise.
CanRelease(o) ==
    order[o].side = "SELL" =>
        reservedUnits[order[o].principal] >= order[o].remaining

\* releaseRemainder followed by closeOrder.
CloseAndRelease(o, status) ==
    LET p == order[o].principal
        releases == order[o].reservation.status = "ACTIVE"
    IN
    /\ CanRelease(o)
    /\ reservedCash' =
          IF releases /\ order[o].side = "BUY"
          THEN [reservedCash EXCEPT ![p] = @ - ReleasedCash(o)] ELSE reservedCash
    /\ reservedUnits' =
          IF releases /\ order[o].side = "SELL"
          THEN [reservedUnits EXCEPT ![p] = @ - order[o].remaining] ELSE reservedUnits
    /\ order' = [order EXCEPT
          ![o].status = status,
          ![o].reservation.status = IF releases THEN "RELEASED" ELSE @]
    /\ UNCHANGED <<nextPriority, executions, cash, settled, lots, realized>>

\* Faulty variants: the status read under the row lock is not checked; or the
\* market is locked first, as placing does.
MayCancelUnchecked(o)    == order[o].status # "NONE" /\ order[o].principal \in Users
MayCancelInOpenMarket(o) == MarketRowFree /\ market = "OPEN" /\ Active(o)
                            /\ order[o].principal \in Users

MayCancel(o) == Active(o) /\ order[o].principal \in Users

\* cancel: by the customer who placed the order, in any state of the market.
Cancel(o) ==
    /\ MayCancel(o)
    /\ CloseAndRelease(o, "CANCELLED")
    /\ outbox' = outbox \cup {Event("order.cancelled", o, 0)}
    /\ UNCHANGED <<market, request, match, suspended, held>>

\* expireOrders: one candidate of the sweep, re-read under its row lock.
Expire(o) ==
    /\ o \in Expiring
    /\ Active(o)
    /\ CloseAndRelease(o, "EXPIRED")
    /\ outbox' = outbox \cup {Event("order.expired", o, 0)}
    /\ UNCHANGED <<market, request, match, suspended, held>>

\* cancelIocRemainder: the last transaction of an IOC placement.
CancelIocRemainder(c) ==
    /\ request[c].phase = "cancelling"
    /\ request' = [request EXCEPT ![c].phase = "returned"]
    /\ \/ Active(c) /\ CloseAndRelease(c, "CANCELLED")
       \/ ~Active(c) /\ UNCHANGED <<nextPriority, order, executions, cash, reservedCash,
                                    settled, reservedUnits, lots, realized>>
    /\ UNCHANGED <<market, outbox, match, suspended, held>>

----------------------------------------------------------------------------
(* Matching *)

\* The transaction locks the market row, which must be OPEN, and picks the best
\* buy and the best sell; nothing to match ends the loop.
MatchSelect(c) ==
    /\ request[c].phase = "matching"
    /\ MarketRowFree
    /\ market = "OPEN"
    /\ \/ \E b \in ActiveBuys, s \in ActiveSells :
             /\ BestBuy(b) /\ BestSell(s) /\ Crossing(b, s)
             /\ match' = [caller |-> c, buy |-> b, sell |-> s]
             /\ UNCHANGED request
       \/ ~Crossed /\ StopMatching(c) /\ UNCHANGED match
    /\ UNCHANGED <<market, nextPriority, order, executions, cash, reservedCash, settled,
                   reservedUnits, lots, realized, outbox, suspended, held>>

\* lockMarket throws MARKET_NOT_OPEN when the market was halted meanwhile.
MatchRefused(c) ==
    /\ request[c].phase = "matching"
    /\ MarketRowFree
    /\ market # "OPEN"
    /\ FailRequest(c)
    /\ UNCHANGED <<market, nextPriority, order, executions, cash, reservedCash, settled,
                   reservedUnits, lots, realized, outbox, match, suspended, held>>

\* The re-read of the two locked rows.
StillMatches(b, s) == Active(b) /\ Active(s) /\ Crossing(b, s)

\* One of the pair went away before it was locked: the iteration yields null
\* and the loop ends, whatever else the book holds.
MatchStale(c) ==
    /\ match.caller = c
    /\ ~StillMatches(match.buy, match.sell)
    /\ match' = NoMatch
    /\ StopMatching(c)
    /\ UNCHANGED <<market, nextPriority, order, executions, cash, reservedCash, settled,
                   reservedUnits, lots, realized, outbox, suspended, held>>

SelfTrade(b, s) == order[b].principal = order[s].principal

Taker(b, s) == IF b > s THEN b ELSE s

\* REJECT_TAKER: the younger order of the same principal is cancelled.
MatchSelfTrade(c) ==
    /\ match.caller = c
    /\ StillMatches(match.buy, match.sell)
    /\ SelfTrade(match.buy, match.sell)
    /\ CloseAndRelease(Taker(match.buy, match.sell), "CANCELLED")
    /\ match' = NoMatch
    /\ CountRound(c)
    /\ UNCHANGED <<market, outbox, suspended, held>>

FillUnits(b, s) == LesserOf(order[b].remaining, order[s].remaining)

FillPrice(b, s) == MakerPrice(b, s, order[b].limit, order[s].limit)

BuyerFee(b, s) ==
    FeeMinor(Gross(FillPrice(b, s), FillUnits(b, s)),
             IF b < s THEN MakerFeeBps ELSE TakerFeeBps)

SellerFee(b, s) ==
    FeeMinor(Gross(FillPrice(b, s), FillUnits(b, s)),
             IF b < s THEN TakerFeeBps ELSE MakerFeeBps)

\* Faulty variant: the first fill takes the whole reservation.
ReserveReductionWhole(b, s) == BuyReserve(order[b].limit, order[b].remaining)

\* settleCash: what the fill takes out of the buyer's reservation.
ReserveReduction(b, s) == BuyReserve(order[b].limit, FillUnits(b, s))

\* The checks of settleOwnership, settleCash and disposeSellerLots; each throws.
OwnershipSettles(b, s) ==
    LET seller == order[s].principal
        units  == FillUnits(b, s)
    IN  /\ settled[seller] >= units
        /\ reservedUnits[seller] >= units
        /\ order[s].reservation.status = "ACTIVE"
        /\ order[s].reservation.amount >= units

CashSettles(b, s) ==
    /\ order[b].reservation.status = "ACTIVE"
    /\ order[b].reservation.amount >= ReserveReduction(b, s)
    /\ reservedCash[order[b].principal] >= ReserveReduction(b, s)

LotsSettle(b, s) ==
    order[s].principal \in Users => CanDispose(lots[order[s].principal], FillUnits(b, s))

Settles(b, s) ==
    /\ order[b].principal \notin held
    /\ OwnershipSettles(b, s)
    /\ CashSettles(b, s)
    /\ LotsSettle(b, s)

\* Faulty variant: a fill is complete when it is as large as the order was.
CompletesOriginal(row, units) == row.original = units

\* A fill of units completes the order: nothing remains.
Completes(row, units) == row.remaining = units

\* Faulty variant: the average is taken over the whole order.
AverageOverOriginal(row, units, price) ==
    (row.average * row.filled + price * units) \div row.original

AverageAfter(row, units, price) ==
    (row.average * row.filled + price * units) \div (row.filled + units)

\* applyFill: units of the order filled at a price.
Filled(row, units, price) ==
    [row EXCEPT
        !.remaining = @ - units,
        !.filled    = @ + units,
        !.average   = AverageAfter(row, units, price),
        !.status    = IF Completes(row, units) THEN "FILLED" ELSE "PARTIALLY_FILLED",
        !.reservation.status = IF Completes(row, units) THEN "CONSUMED" ELSE @]

\* Faulty variant: the reservation row keeps its amount while fills consume it.
FilledBuyStale(b, s) == Filled(order[b], FillUnits(b, s), FillPrice(b, s))

\* settleCash takes the reduction off a buy reservation, applyFill the units
\* off a sell reservation unless that consumes it.
FilledBuy(b, s) ==
    [Filled(order[b], FillUnits(b, s), FillPrice(b, s))
        EXCEPT !.reservation.amount = @ - ReserveReduction(b, s)]

\* Faulty variant: the reservation row of a sell keeps its units.
FilledSellStale(b, s) == Filled(order[s], FillUnits(b, s), FillPrice(b, s))

FilledSell(b, s) ==
    LET units == FillUnits(b, s) IN
    [Filled(order[s], units, FillPrice(b, s))
        EXCEPT !.reservation.amount = IF Completes(order[s], units) THEN @ ELSE @ - units]

FillEvent(o, units, execution) ==
    Event(IF Completes(order[o], units) THEN "order.filled" ELSE "order.partiallyfilled",
          o, execution)

\* Faulty variant: the fee is left out of the acquisition cost.
BoughtLotWithoutFee(b, s) ==
    [units |-> FillUnits(b, s), cost |-> Gross(FillPrice(b, s), FillUnits(b, s))]

\* createBuyerLot: the units cost the notional and the fee.
BoughtLot(b, s) ==
    [units |-> FillUnits(b, s),
     cost  |-> Gross(FillPrice(b, s), FillUnits(b, s)) + BuyerFee(b, s)]

\* The seller's lots lose the units first in, first out; the buyer's gain a lot
\* for them.  The Treasury has no lots.
TradedLots(b, s) ==
    LET buyer  == order[b].principal
        seller == order[s].principal
    IN  [u \in Users |->
            CASE u = buyer  -> Append(lots[u], BoughtLot(b, s))
              [] u = seller -> LotsAfter(lots[u], FillUnits(b, s))
              [] OTHER      -> lots[u]]

\* Faulty variant: the seller's fee is not posted to the fee account.
CashWithoutSellerFee(b, s) ==
    LET gross == Gross(FillPrice(b, s), FillUnits(b, s))
    IN  [cash EXCEPT ![order[b].principal] = @ - (gross + BuyerFee(b, s)),
                     ![order[s].principal] = @ + (gross - SellerFee(b, s)),
                     ![FeeRevenue]         = @ + BuyerFee(b, s)]

\* settleCash: the journal of a fill, posted to the three account balances.
CashAfter(b, s) ==
    LET gross == Gross(FillPrice(b, s), FillUnits(b, s))
    IN  [cash EXCEPT ![order[b].principal] = @ - (gross + BuyerFee(b, s)),
                     ![order[s].principal] = @ + (gross - SellerFee(b, s)),
                     ![FeeRevenue]         = @ + (BuyerFee(b, s) + SellerFee(b, s))]

\* settleExecution and applyFill: the whole settlement is one transaction.
MatchSettle(c) ==
    LET b      == match.buy
        s      == match.sell
        buyer  == order[b].principal
        seller == order[s].principal
        units  == FillUnits(b, s)
        gross  == Gross(FillPrice(b, s), units)
        seq    == Len(executions) + 1
    IN
    /\ match.caller = c
    /\ StillMatches(b, s)
    /\ ~SelfTrade(b, s)
    /\ Settles(b, s)
    /\ settled' = [settled EXCEPT ![seller] = @ - units, ![buyer] = @ + units]
    /\ reservedUnits' = [reservedUnits EXCEPT ![seller] = @ - units]
    /\ reservedCash' = [reservedCash EXCEPT ![buyer] = @ - ReserveReduction(b, s)]
    /\ cash' = CashAfter(b, s)
    /\ lots' = TradedLots(b, s)
    /\ realized' = IF seller \in Users
                   THEN [realized EXCEPT ![seller] =
                            @ + gross - SellerFee(b, s) - DisposedCost(lots[seller], units)]
                   ELSE realized
    /\ executions' = Append(executions,
          [buy |-> b, sell |-> s, price |-> FillPrice(b, s), units |-> units,
           buyerFee |-> BuyerFee(b, s), sellerFee |-> SellerFee(b, s)])
    /\ order' = [order EXCEPT ![b] = FilledBuy(b, s), ![s] = FilledSell(b, s)]
    /\ outbox' = outbox \cup {Event("trade.completed", 0, seq),
                              FillEvent(b, units, seq), FillEvent(s, units, seq)}
    /\ match' = NoMatch
    /\ CountRound(c)
    /\ UNCHANGED <<market, nextPriority, suspended, held>>

\* A settlement check fails: everything rolls back and the request rejects.
MatchThrows(c) ==
    /\ match.caller = c
    /\ StillMatches(match.buy, match.sell)
    /\ ~SelfTrade(match.buy, match.sell)
    /\ ~Settles(match.buy, match.sell)
    /\ match' = NoMatch
    /\ FailRequest(c)
    /\ UNCHANGED <<market, nextPriority, order, executions, cash, reservedCash, settled,
                   reservedUnits, lots, realized, outbox, suspended, held>>

----------------------------------------------------------------------------
(* Interrupted and repeated requests *)

\* The process dies or the connection breaks between two transactions of a
\* request, or inside one, which rolls back and frees its row locks.
Interrupt(c) ==
    /\ request[c].phase \in InFlight
    /\ FailRequest(c)
    /\ match' = IF match.caller = c THEN NoMatch ELSE match
    /\ UNCHANGED <<market, nextPriority, order, executions, cash, reservedCash, settled,
                   reservedUnits, lots, realized, outbox, suspended, held>>

\* The client repeats a request whose order was committed: the idempotency
\* record is COMPLETED, so the order is returned as it is; matching and the
\* IOC cancellation are skipped.
Replay(c) ==
    /\ request[c].phase = "failed"
    /\ request' = [request EXCEPT ![c].phase = "replayed"]
    /\ UNCHANGED <<market, nextPriority, order, executions, cash, reservedCash, settled,
                   reservedUnits, lots, realized, outbox, match, suspended, held>>

----------------------------------------------------------------------------
(* Market control, and the account restrictions other modules impose *)

MarketStatuses == {"OPEN", "HALTED", "CLOSED"}

\* setMarketStatus, behind the halt and resume endpoints.  It reads the market
\* through lockMarket, which throws MARKET_NOT_OPEN unless the market is OPEN.
SetMarketStatus(status, expected) ==
    /\ MarketRowFree
    /\ market = "OPEN"
    /\ market = expected
    /\ market' = status
    /\ UNCHANGED <<nextPriority, order, executions, cash, reservedCash, settled,
                   reservedUnits, lots, realized, outbox, request, match, suspended, held>>

\* External: identity suspends or reactivates an account.
ToggleSuspension(u) ==
    /\ suspended' = IF u \in suspended THEN suspended \ {u} ELSE suspended \cup {u}
    /\ UNCHANGED <<market, nextPriority, order, executions, cash, reservedCash, settled,
                   reservedUnits, lots, realized, outbox, request, match, held>>

\* External: a returned deposit puts an ACCOUNT hold on a customer; it is
\* released when the deficit is recovered.
ToggleHold(u) ==
    /\ held' = IF u \in held THEN held \ {u} ELSE held \cup {u}
    /\ UNCHANGED <<market, nextPriority, order, executions, cash, reservedCash, settled,
                   reservedUnits, lots, realized, outbox, request, match, suspended>>

----------------------------------------------------------------------------
InitialLots(u) ==
    IF InitialUnits[u] = 0 THEN << >>
    ELSE <<[units |-> InitialUnits[u], cost |-> Gross(IssuePrice, InitialUnits[u])]>>

\* An activated market with an empty book; a customer's units were bought from
\* the issue at the issue price.
Init ==
    /\ market = "OPEN"
    /\ nextPriority = 1
    /\ order = [o \in OrderId |-> Unplaced]
    /\ executions = << >>
    /\ cash = [a \in CashAccounts |-> IF a \in Users THEN InitialCash[a] ELSE 0]
    /\ reservedCash = [u \in Users |-> 0]
    /\ settled = InitialUnits
    /\ reservedUnits = [p \in Principals |-> 0]
    /\ lots = [u \in Users |-> InitialLots(u)]
    /\ realized = [u \in Users |-> 0]
    /\ outbox = {}
    /\ request = [o \in OrderId |-> [phase |-> "none", rounds |-> 0]]
    /\ match = NoMatch
    /\ suspended = {}
    /\ held = {}

\* One transaction of the request that placed order c.
RequestStep(c) ==
    \/ MatchSelect(c)
    \/ MatchRefused(c)
    \/ MatchStale(c)
    \/ MatchSelfTrade(c)
    \/ MatchSettle(c)
    \/ MatchThrows(c)
    \/ CancelIocRemainder(c)

Next ==
    \/ \E u \in Users, side \in {"BUY", "SELL"}, tif \in TimesInForce,
          limit \in Prices, units \in Quantities : Place(u, side, tif, limit, units)
    \/ \E units \in Quantities : PlaceTreasuryListing(units)
    \/ \E c \in OrderId : RequestStep(c)
    \/ \E c \in Interruptible : Interrupt(c)
    \/ \E c \in OrderId : Replay(c)
    \/ \E o \in OrderId : Cancel(o)
    \/ \E o \in OrderId : Expire(o)
    \/ \E status \in {"OPEN", "HALTED"}, expected \in OperatorExpects :
          SetMarketStatus(status, expected)
    \/ \E u \in Suspendable : ToggleSuspension(u)
    \/ \E u \in Holdable : ToggleHold(u)

Spec == Init /\ [][Next]_vars

\* A request in flight keeps running: Node resumes it when its transaction
\* ends, and PostgreSQL hands the market row to waiters in turn.
Fairness == \A c \in OrderId : WF_vars(RequestStep(c))

FairSpec == Spec /\ Fairness

----------------------------------------------------------------------------
(* Types *)

ExecutionType ==
    [buy : OrderId, sell : OrderId, price : Nat, units : Nat,
     buyerFee : Nat, sellerFee : Nat]

EventType ==
    [type : {"order.opened", "order.cancelled", "order.expired", "order.filled",
             "order.partiallyfilled", "trade.completed"},
     order : OrderId \cup {0}, execution : Nat]

\* Types of everything but the lots and the outbox.
BookTypeOK ==
    /\ market \in MarketStatuses
    /\ nextPriority \in 1 .. (MaxOrders + 1)
    /\ order \in [OrderId -> OrderType]
    /\ executions \in Seq(ExecutionType)
    /\ cash \in [CashAccounts -> Int]
    /\ reservedCash \in [Users -> Int]
    /\ settled \in [Principals -> Int]
    /\ reservedUnits \in [Principals -> Int]
    /\ request \in [OrderId -> RequestType]
    /\ match \in [caller : OrderId \cup {0}, buy : OrderId \cup {0}, sell : OrderId \cup {0}]
    /\ suspended \subseteq Users
    /\ held \subseteq Users

\* Every variable has its type.
TypeOK ==
    /\ BookTypeOK
    /\ lots \in [Users -> Seq(Lot)]
    /\ realized \in [Users -> Int]
    /\ outbox \subseteq EventType

----------------------------------------------------------------------------
(* Safety *)

Placed(o) == order[o].status # "NONE"

\* The order equation: remaining + filled is the original quantity in every
\* interleaving of fills, cancellations and expiries, and the status says which
\* of the two are zero (applyFill, closeOrder).
OrderEquation ==
    \A o \in OrderId : Placed(o) =>
        /\ order[o].remaining + order[o].filled = order[o].original
        /\ order[o].original > 0
        /\ order[o].status = "FILLED" <=> order[o].remaining = 0
        /\ order[o].status = "OPEN" => order[o].filled = 0
        /\ order[o].status = "PARTIALLY_FILLED" => order[o].filled > 0

\* An order holds an ACTIVE reservation exactly while it is active, and a SELL
\* order's is for exactly its remaining units (applyFill, releaseRemainder).
UnitReservationsExact ==
    \A o \in OrderId :
        /\ Active(o) <=> order[o].reservation.status = "ACTIVE"
        /\ Active(o) /\ order[o].side = "SELL" =>
               order[o].reservation.amount = order[o].remaining

\* An active BUY order's reservation is for exactly what its remaining units can
\* cost, fee included: settleCash "keeps it at the unsettled amount as fills
\* consume cash".
CashReservationsExact ==
    \A o \in OrderId :
        Active(o) /\ order[o].side = "BUY" =>
            order[o].reservation.amount = BuyReserve(order[o].limit, order[o].remaining)

\* How much less the reservation row of a BUY order holds than its remaining units
\* can cost: a fill takes off the worst case of its own units, and the fees of two
\* parts, each rounded up, can exceed the fee of the whole by one.
RoundingGap(o) ==
    IF order[o].side = "BUY"
    THEN BuyReserve(order[o].limit, order[o].remaining) - order[o].reservation.amount
    ELSE 0

\* Pence by which n fills can have rounded up.
Roundings(n) == IF TakerFeeBps = 0 THEN 0 ELSE n

BuyFills(o) == Cardinality({i \in DOMAIN executions : executions[i].buy = o})

Purchases(p) ==
    Cardinality({i \in DOMAIN executions : order[executions[i].buy].principal = p})

\* Whatever the fee, the reservation of a BUY order never falls below zero and never
\* exceeds what its remaining units can cost; it falls short of that by at most a
\* penny for each of the order's fills, and not at all without a fee (settleCash).
ReservationsWithinRounding ==
    \A o \in OrderId : order[o].side = "BUY" =>
        /\ order[o].reservation.amount >= 0
        /\ RoundingGap(o) \in 0 .. Roundings(BuyFills(o))

ReservedBy(p, side) ==
    SumFunctionOnSet([o \in OrderId |-> order[o].reservation.amount],
        {o \in OrderId : /\ order[o].principal = p
                         /\ order[o].side = side
                         /\ order[o].reservation.status = "ACTIVE"})

\* What the closed BUY orders of a customer fell short of when they were released.
ReleasedGaps(u) ==
    SumFunctionOnSet([o \in OrderId |-> RoundingGap(o)],
        {o \in OrderId : order[o].principal = u /\ order[o].reservation.status # "ACTIVE"})

\* The reserved counters of balances and positions are the sums of the ACTIVE
\* reservations behind them, although fills and releases compute their decrements
\* from the order and not from the reservation row; the counter of cash is lower by
\* what closed orders were released for beyond what their rows still held.
ReservedCountersBacked ==
    /\ \A u \in Users : reservedCash[u] = ReservedBy(u, "BUY") - ReleasedGaps(u)
    /\ \A p \in Principals : reservedUnits[p] = ReservedBy(p, "SELL")

\* Nobody's settled units fall below what is reserved of them, nor the reserved
\* units below zero: no unit is sold twice (settleOwnership, reserveUnits).
UnitsCovered ==
    \A p \in Principals : 0 <= reservedUnits[p] /\ reservedUnits[p] <= settled[p]

\* Unless makers pay more than takers, a fill debits no more than it takes off the
\* reservation: posted cash never falls below zero nor below what is reserved of
\* it (settleCash, reserveCash).
NoOverdraft == \A u \in Users : 0 <= cash[u] /\ reservedCash[u] <= cash[u]

\* Settlements move cash and units between accounts: the totals never change.
TotalsConserved ==
    /\ SumFunction(cash) = SumFunction(InitialCash)
    /\ SumFunction(settled) = SumFunction(InitialUnits)

\* Each customer's open FIFO lots hold exactly the settled units of the position.
LotsMatchPositions == \A u \in Users : LotUnits(lots[u]) = settled[u]

\* Every change of a customer's cash is explained by realised profit or by a
\* change of the cost of the open lots: ledger, lot disposals and fees agree.
CashExplainedByLots ==
    \A u \in Users :
        cash[u] - InitialCash[u] = realized[u] - (LotCost(lots[u]) - LotCost(InitialLots(u)))

\* Every execution joins a BUY and a SELL of two different principals, at the
\* older order's limit, which both limits allow, and the filled units of every order
\* are the sum of its executions (matchMarket, settleExecution, applyFill).
ExecutionsSound ==
    /\ \A i \in DOMAIN executions :
        LET e == executions[i] IN
        /\ order[e.buy].side = "BUY" /\ order[e.sell].side = "SELL"
        /\ order[e.buy].principal # order[e.sell].principal
        /\ e.price = (IF e.buy < e.sell THEN order[e.buy].limit ELSE order[e.sell].limit)
        /\ order[e.sell].limit <= e.price /\ e.price <= order[e.buy].limit
        /\ e.units > 0
    /\ \A o \in OrderId :
        order[o].filled = SumFunctionOnSet([i \in DOMAIN executions |-> executions[i].units],
            {i \in DOMAIN executions : o \in {executions[i].buy, executions[i].sell}})

\* The reported average fill price, floored at each fill, stays within the limit
\* for a buyer, and at or above it for a seller.
AverageWithinLimit ==
    \A o \in OrderId : order[o].filled > 0 =>
        IF order[o].side = "BUY" THEN order[o].average <= order[o].limit
                                 ELSE order[o].average >= order[o].limit

\* The pair a matching transaction has locked always passes the checks of units
\* and lots, and the buyer's reservation and counter are short by at most a penny for
\* each earlier fill of the order and of the customer: without a fee, and for a
\* customer's first purchase, nothing at the head of the book but a hold makes a
\* match throw.
HeadOfBookSettles ==
    match # NoMatch /\ StillMatches(match.buy, match.sell)
                    /\ ~SelfTrade(match.buy, match.sell) =>
        LET b     == match.buy
            buyer == order[b].principal
            taken == ReserveReduction(b, match.sell)
        IN
        /\ OwnershipSettles(b, match.sell)
        /\ LotsSettle(b, match.sell)
        /\ order[b].reservation.status = "ACTIVE"
        /\ order[b].reservation.amount >= taken - Roundings(BuyFills(b))
        /\ reservedCash[buyer] >= taken - Roundings(Purchases(buyer))

\* A placement request that ran to its end leaves no IOC order in the book.
IocLeavesTheBook ==
    \A o \in OrderId :
        request[o].phase = "returned" /\ order[o].tif = "IOC" => ~Active(o)

\* A customer can cancel an active order whatever the market's status and
\* whatever matching transaction is open.
AlwaysCancellable ==
    \A o \in OrderId :
        Active(o) /\ order[o].principal \in Users => ENABLED Cancel(o)

\* A terminal order never changes again, nor does its reservation.
TerminalIsFinal ==
    [][\A o \in OrderId : order[o].status \in TerminalStatuses => order'[o] = order[o]]_vars

(* The market seen from outside: the active orders, and what everybody owns. *)
Market == INSTANCE Exchange WITH
    book   <- [o \in ActiveBuys \cup ActiveSells |->
                  [principal |-> order[o].principal, side |-> order[o].side,
                   limit |-> order[o].limit, remaining |-> order[o].remaining]],
    placed <- nextPriority - 1,
    money  <- cash,
    units  <- settled,
    bought <- [p \in Principals |-> Purchases(p)]

\* Every transaction of the service enters an order its owner can honour, takes
\* one out, trades the best bid with the best ask, or shows nothing to the
\* market: reservations, row locks, stale reads and retries are implementation.
ImplementsExchange == Market!Spec

(* Liveness *)

\* Every placement request that keeps running ends: its matching loop and its
\* IOC cancellation finish in spite of later orders, halts and cancellations.
RequestsEnd ==
    \A c \in OrderId : request[c].phase \in InFlight ~> request[c].phase \notin InFlight

----------------------------------------------------------------------------
(* What the repository's documents say, and the code does not do *)

\* Implementation document 014 section 14: the account is checked to be ACTIVE
\* immediately before settlement.
ActiveAtSettlement ==
    [][executions' # executions =>
          {order[match.buy].principal, order[match.sell].principal} \cap suspended = {}]_vars

\* Implementation document 014 section 12: a halted market can be resumed.
HaltedMarketResumes ==
    market = "HALTED" /\ MarketRowFree => ENABLED SetMarketStatus("OPEN", "HALTED")
=============================================================================
