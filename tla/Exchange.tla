------------------------------- MODULE Exchange -------------------------------
(***************************************************************************)
(* What a limit-order market promises its customers, with no reservation   *)
(* rows, no counters, no transactions and no requests: a book of orders    *)
(* and what everybody owns.  What a principal may still commit is derived  *)
(* from the book itself, up to a penny for every purchase made for a fee:  *)
(* fees are rounded up fill by fill, so the parts of an order can cost     *)
(* more than the whole.  Without a taker fee nobody overcommits.           *)
(***************************************************************************)
EXTENDS OrderPolicy, Functions

CONSTANTS Users, Treasury, FeeRevenue, MaxOrders, MakerFeeBps, TakerFeeBps,
          InitialCash, InitialUnits

VARIABLES book,      \* the resting orders, by priority
          placed,    \* orders placed so far
          money,     \* what each account owns
          units,     \* what each principal owns
          bought     \* how many purchases each principal has made

bookVars == <<book, placed, money, units, bought>>

Principals == Users \cup {Treasury}

Resting(side) == {o \in DOMAIN book : book[o].side = side}

Reserve(limit, n) == Gross(limit, n) + FeeMinor(Gross(limit, n), TakerFeeBps)

CommittedCash(u) ==
    SumFunctionOnSet([o \in DOMAIN book |-> Reserve(book[o].limit, book[o].remaining)],
                     {o \in Resting("BUY") : book[o].principal = u})

CommittedUnits(p) ==
    SumFunctionOnSet([o \in DOMAIN book |-> book[o].remaining],
                     {o \in Resting("SELL") : book[o].principal = p})

\* By how much a principal may overcommit.
Rounding(p) == IF TakerFeeBps = 0 THEN 0 ELSE bought[p]

Better(side, o, q) ==
    \/ side = "BUY"  /\ book[o].limit > book[q].limit
    \/ side = "SELL" /\ book[o].limit < book[q].limit
    \/ book[o].limit = book[q].limit /\ o < q

BestOf(side) == {o \in Resting(side) : \A q \in Resting(side) \ {o} : Better(side, o, q)}

\* An order enters the book only if its owner can honour it besides all others,
\* up to the roundings of past purchases.
Enter ==
    \E p \in Principals, side \in {"BUY", "SELL"} :
        LET o == placed + 1 IN
        /\ o <= MaxOrders
        /\ placed' = o
        /\ DOMAIN book' = DOMAIN book \cup {o}
        /\ \A q \in DOMAIN book : book'[q] = book[q]
        /\ book'[o].principal = p
        /\ book'[o].side = side
        /\ book'[o].remaining > 0
        /\ IF side = "BUY"
           THEN CommittedCash(p) + Reserve(book'[o].limit, book'[o].remaining)
                    <= money[p] + Rounding(p)
           ELSE CommittedUnits(p) + book'[o].remaining <= units[p]
        /\ UNCHANGED <<money, units, bought>>

Without(b, gone) == [o \in DOMAIN b \ gone |-> b[o]]

\* An order leaves the book with units left.
Leave ==
    /\ \E o \in DOMAIN book : book' = Without(book, {o})
    /\ UNCHANGED <<placed, money, units, bought>>

\* The best bid meets the best ask: the smaller remainder changes hands at the
\* older order's limit, and nobody trades with himself.
Trade ==
    \E b \in BestOf("BUY"), s \in BestOf("SELL") :
        LET n      == LesserOf(book[b].remaining, book[s].remaining)
            price  == MakerPrice(b, s, book[b].limit, book[s].limit)
            gross  == Gross(price, n)
            buyFee == FeeMinor(gross, IF b < s THEN MakerFeeBps ELSE TakerFeeBps)
            selFee == FeeMinor(gross, IF b < s THEN TakerFeeBps ELSE MakerFeeBps)
            buyer  == book[b].principal
            seller == book[s].principal
            filled == [book EXCEPT ![b].remaining = @ - n, ![s].remaining = @ - n]
        IN
        /\ Crosses(book[b].limit, book[s].limit)
        /\ buyer # seller
        /\ book' = Without(filled, {o \in {b, s} : filled[o].remaining = 0})
        /\ units' = [units EXCEPT ![seller] = @ - n, ![buyer] = @ + n]
        /\ money' = [money EXCEPT ![buyer]      = @ - (gross + buyFee),
                                  ![seller]     = @ + (gross - selFee),
                                  ![FeeRevenue] = @ + (buyFee + selFee)]
        /\ bought' = [bought EXCEPT ![buyer] = @ + 1]
        /\ UNCHANGED placed

Init ==
    /\ book = << >>
    /\ placed = 0
    /\ money = [a \in Principals \cup {FeeRevenue} |-> IF a \in Users THEN InitialCash[a] ELSE 0]
    /\ units = InitialUnits
    /\ bought = [p \in Principals |-> 0]

Next == Enter \/ Leave \/ Trade

Spec == Init /\ [][Next]_bookVars
=============================================================================
