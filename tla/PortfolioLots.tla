---------------------------- MODULE PortfolioLots ----------------------------
(***************************************************************************)
(* FIFO cost lots of a customer in one asset: finance/domain/fifo.ts, as   *)
(* disposeSellerLots and createBuyerLot of the trading service use it.  A  *)
(* customer's open lots are a sequence, oldest acquisition first; a lot is *)
(* [units, cost]: its remaining units and its not yet allocated cost       *)
(* (totalCostMinor - allocatedCostMinor).  A lot that reaches zero units   *)
(* is CLOSED and leaves the sequence.                                      *)
(***************************************************************************)
EXTENDS Integers, Sequences, Functions

Lot == [units : Nat \ {0}, cost : Nat]

LotUnits(lots) == SumFunction([i \in DOMAIN lots |-> lots[i].units])

LotCost(lots) == SumFunction([i \in DOMAIN lots |-> lots[i].cost])

\* Units of the k oldest lots.
OldestUnits(lots, k) == SumFunctionOnSet([i \in DOMAIN lots |-> lots[i].units], 1 .. k)

\* Faulty variant: a lot that gives any units gives all of them.
TakenWhole(lots, n, i) ==
    IF OldestUnits(lots, i - 1) >= n THEN 0 ELSE lots[i].units

\* Units lot i gives to a disposal of n units: what the older lots leave over,
\* capped by what the lot still holds.
TakenFrom(lots, n, i) ==
    LET older == OldestUnits(lots, i - 1)
    IN  CASE older >= n                 -> 0
          [] older + lots[i].units <= n -> lots[i].units
          [] OTHER                      -> n - older

\* Cost that leaves lot i with those units: all of it when the lot is emptied,
\* else the pro-rata share rounded down.
AllocatedFrom(lots, n, i) ==
    IF TakenFrom(lots, n, i) = lots[i].units
    THEN lots[i].cost
    ELSE (lots[i].cost * TakenFrom(lots, n, i)) \div lots[i].units

\* allocateFifoLots throws LOT_UNDERFLOW otherwise.
CanDispose(lots, n) == n > 0 /\ LotUnits(lots) >= n

DisposedCost(lots, n) ==
    SumFunction([i \in DOMAIN lots |-> AllocatedFrom(lots, n, i)])

\* Faulty variant: lots that reach zero units stay open.
LotsAfterUnclosed(lots, n) ==
    [i \in DOMAIN lots |-> [units |-> lots[i].units - TakenFrom(lots, n, i),
                            cost  |-> lots[i].cost - AllocatedFrom(lots, n, i)]]

\* How many lots the disposal empties: they are the oldest ones.
Emptied(lots, n) ==
    CHOOSE k \in 0 .. Len(lots) :
        /\ OldestUnits(lots, k) <= n
        /\ k < Len(lots) => n < OldestUnits(lots, k + 1)

\* An emptied lot is CLOSED.
LotsAfter(lots, n) ==
    LET left == [i \in DOMAIN lots |->
                    [units |-> lots[i].units - TakenFrom(lots, n, i),
                     cost  |-> lots[i].cost - AllocatedFrom(lots, n, i)]]
    IN  SubSeq(left, Emptied(lots, n) + 1, Len(lots))
=============================================================================
