-------------------------- MODULE TradingFundsProofs --------------------------
(***************************************************************************)
(* What Trading's orders, lots and balances add up to, for all values of   *)
(* its constants: the counters of reserved cash and units are the sums of  *)
(* the reservations, the totals of cash and units never change, an order's *)
(* fills are its executions, FIFO lots follow positions and explain every  *)
(* change of cash.  From these: the head of the book always settles, and   *)
(* Trading implements Exchange.                                            *)
(***************************************************************************)
EXTENDS TradingSafetyProofs, SumLemmas, SequenceTheorems

----------------------------------------------------------------------------
(* What a set of orders has reserved *)

\* What order o of a table of orders adds to what p has reserved on a side.
Share(table, p, side, o) ==
    IF /\ table[o].principal = p
       /\ table[o].side = side
       /\ table[o].reservation.status = "ACTIVE"
    THEN table[o].reservation.amount ELSE 0

ReservedIn(table, p, side) ==
    SumFunctionOnSet([o \in OrderId |-> Share(table, p, side, o)], OrderId)

\* There are finitely many orders.
LEMMA OrdersFinite == IsFiniteSet(OrderId)
  BY TradingAssumption, IntervalFinite DEF OrderId

\* A share is an amount.
LEMMA ShareInt ==
    ASSUME NEW table \in [OrderId -> OrderType], NEW p, NEW side, NEW o \in OrderId
    PROVE  Share(table, p, side, o) \in Int
  <1>1. table[o] \in OrderType
    OBVIOUS
  <1>2. table[o].reservation.amount \in Int
    BY <1>1 DEF OrderType, ReservationType
  <1>3. QED BY <1>2 DEF Share

\* ReservedBy adds up the shares of all orders.
LEMMA ReservedShares ==
    ASSUME NEW table \in [OrderId -> OrderType], NEW p, NEW side
    PROVE  SumFunctionOnSet([o \in OrderId |-> table[o].reservation.amount],
               {o \in OrderId : /\ table[o].principal = p
                                /\ table[o].side = side
                                /\ table[o].reservation.status = "ACTIVE"})
              = ReservedIn(table, p, side)
  <1> DEFINE f == [o \in OrderId |-> table[o].reservation.amount]
             T == {o \in OrderId : /\ table[o].principal = p
                                   /\ table[o].side = side
                                   /\ table[o].reservation.status = "ACTIVE"}
             g == [o \in OrderId |-> IF o \in T THEN f[o] ELSE 0]
  <1>1. \A o \in T : f[o] \in Int
    <2> SUFFICES ASSUME NEW o \in OrderId PROVE f[o] \in Int
      OBVIOUS
    <2>1. table[o] \in OrderType
      OBVIOUS
    <2>2. QED BY <2>1 DEF OrderType, ReservationType
  <1>2. g = [o \in OrderId |-> Share(table, p, side, o)]
    BY DEF Share
  <1>3. T \in SUBSET OrderId
    OBVIOUS
  <1> HIDE DEF f, T
  <1>4. SumFunctionOnSet(f, T) = SumFunctionOnSet(g, OrderId)
    BY <1>1, <1>3, OrdersFinite, SumMasked
  <1>5. QED BY <1>2, <1>4 DEF f, T, ReservedIn

\* One order changed.
LEMMA ReservedChange ==
    ASSUME NEW table \in [OrderId -> OrderType], NEW new \in [OrderId -> OrderType],
           NEW q \in OrderId, \A o \in OrderId \ {q} : new[o] = table[o],
           NEW p, NEW side
    PROVE  ReservedIn(new, p, side) =
              ReservedIn(table, p, side) + (Share(new, p, side, q) - Share(table, p, side, q))
  <1> DEFINE f == [o \in OrderId |-> Share(table, p, side, o)]
             g == [o \in OrderId |-> Share(new, p, side, o)]
  <1>1. \A o \in OrderId : f[o] \in Int /\ g[o] \in Int
    BY ShareInt
  <1>2. \A o \in OrderId \ {q} : g[o] = f[o]
    BY DEF Share
  <1>3. f[q] = Share(table, p, side, q) /\ g[q] = Share(new, p, side, q)
    OBVIOUS
  <1> HIDE DEF f, g
  <1>4. SumFunctionOnSet(g, OrderId) = SumFunctionOnSet(f, OrderId) + (g[q] - f[q])
    BY <1>1, <1>2, OrdersFinite, SumChange
  <1>5. QED BY <1>3, <1>4 DEF f, g, ReservedIn

\* Two orders changed.
LEMMA ReservedChangeTwo ==
    ASSUME NEW table \in [OrderId -> OrderType], NEW new \in [OrderId -> OrderType],
           NEW q \in OrderId, NEW r \in OrderId, q # r,
           \A o \in OrderId \ {q, r} : new[o] = table[o],
           NEW p, NEW side
    PROVE  ReservedIn(new, p, side) =
              ReservedIn(table, p, side) + (Share(new, p, side, q) - Share(table, p, side, q))
                                         + (Share(new, p, side, r) - Share(table, p, side, r))
  <1> DEFINE f == [o \in OrderId |-> Share(table, p, side, o)]
             g == [o \in OrderId |-> Share(new, p, side, o)]
  <1>1. \A o \in OrderId : f[o] \in Int /\ g[o] \in Int
    BY ShareInt
  <1>2. \A o \in OrderId \ {q, r} : g[o] = f[o]
    BY DEF Share
  <1>3. /\ f[q] = Share(table, p, side, q) /\ g[q] = Share(new, p, side, q)
        /\ f[r] = Share(table, p, side, r) /\ g[r] = Share(new, p, side, r)
    OBVIOUS
  <1> HIDE DEF f, g
  <1>4. SumFunctionOnSet(g, OrderId) =
           SumFunctionOnSet(f, OrderId) + (g[q] - f[q]) + (g[r] - f[r])
    BY <1>1, <1>2, OrdersFinite, SumChangeTwo
  <1>5. QED BY <1>3, <1>4 DEF f, g, ReservedIn

\* What is reserved is an amount.
LEMMA ReservedInt ==
    ASSUME NEW table \in [OrderId -> OrderType], NEW p, NEW side
    PROVE  ReservedIn(table, p, side) \in Int
  <1> DEFINE f == [o \in OrderId |-> Share(table, p, side, o)]
  <1>1. \A o \in OrderId : f[o] \in Int
    BY ShareInt
  <1> HIDE DEF f
  <1>2. QED BY <1>1, OrdersFinite, SumInt DEF f, ReservedIn

----------------------------------------------------------------------------
(* Roundings of buy reservations *)

\* RoundingGap as a function of the row.
Gap(row) ==
    IF row.side = "BUY"
    THEN BuyReserve(row.limit, row.remaining) - row.reservation.amount ELSE 0

\* Rows of orders not yet placed are blank.
BlankRows == \A o \in OrderId : order[o].status = "NONE" => order[o] = Unplaced

\* No step writes a row without giving it a status.
LEMMA BlankRowsInvariant == Spec => []BlankRows
  <1>1. Init => BlankRows
    BY DEF Init, BlankRows
  <1>2. ASSUME BookInv, BlankRows, [Next]_vars
        PROVE  BlankRows'
    <2> SUFFICES ASSUME NEW q \in OrderId, order'[q].status = "NONE"
                 PROVE  order'[q] = Unplaced
      BY DEF BlankRows
    <2>1. CASE order'[q] = order[q]
      BY <1>2, <2>1 DEF BlankRows
    <2>2. CASE QuietStep \/ UNCHANGED vars
      BY <2>1, <2>2, QuietKeeps
    <2>3. CASE ClosingStep
      <3>1. PICK o \in OrderId, status \in {"CANCELLED", "EXPIRED"} :
              Active(o) /\ CloseAndRelease(o, status)
        BY <2>3 DEF ClosingStep
      <3>2. QED BY <1>2, <2>1, <3>1, Closing
    <2>4. CASE PlacingStep
      <3>1. PICK p \in Principals, side \in {"BUY", "SELL"}, tif \in {"GTC", "IOC"},
                 limit \in Nat, units \in Nat \ {0} :
              (side = "BUY" => p \in Users) /\ OpenOrder(p, side, tif, limit, units)
        BY <2>4 DEF PlacingStep
      <3>2. QED BY <1>2, <2>1, <3>1, Opening
    <2>5. CASE SettlingStep
      <3>1. PICK c \in OrderId : MatchSettle(c)
        BY <2>5 DEF SettlingStep
      <3>2. CASE q \in {match.buy, match.sell}
        <4>1. order'[q].status \in {"FILLED", "PARTIALLY_FILLED"}
          BY <1>2, <3>1, <3>2, Settling DEF FillEffect
        <4>2. QED BY <4>1
      <3>3. QED BY <1>2, <2>1, <3>1, <3>2, Settling
    <2>6. QED BY <1>2, <2>2, <2>3, <2>4, <2>5, StepKinds
  <1>3. QED BY <1>1, <1>2, BookInvariant, PTL DEF Spec

\* Of two parts the fees, each rounded up, exceed the fee of the whole by at most one.
LEMMA FeeOfParts ==
    ASSUME NEW a \in Nat, NEW b \in Nat, NEW bps \in Nat
    PROVE  FeeMinor(a, bps) + FeeMinor(b, bps) - FeeMinor(a + b, bps) \in 0 .. 1
  <1> DEFINE x == a * bps
             y == b * bps
  <1>1. x \in Nat /\ y \in Nat
    BY ProductNat
  <1>2. (a + b) * bps = x + y
    OBVIOUS
  <1> HIDE DEF x, y
  <1>3. (x + 9999) \div 10000 + (y + 9999) \div 10000 - (x + y + 9999) \div 10000 \in 0 .. 1
    BY <1>1
  <1>4. QED BY <1>2, <1>3 DEF FeeMinor, x, y

\* The worst cases of two parts of an order exceed that of the whole by at most one,
\* and by nothing without a fee.
LEMMA ReserveOfParts ==
    ASSUME NEW limit \in Nat, NEW m \in Nat, NEW n \in Nat
    PROVE  BuyReserve(limit, m) + BuyReserve(limit, n) - BuyReserve(limit, m + n)
              \in 0 .. Roundings(1)
  <1> DEFINE a == limit * m
             b == limit * n
  <1>1. a \in Nat /\ b \in Nat /\ TakerFeeBps \in Nat /\ m + n \in Nat
    BY ProductNat, TradingAssumption
  <1>2. limit * (m + n) = a + b
    OBVIOUS
  <1>3. CASE TakerFeeBps = 0
    BY <1>1, <1>2, <1>3, FreeReserve DEF Roundings
  <1>4. CASE TakerFeeBps # 0
    <2> DEFINE f == FeeMinor(a, TakerFeeBps)
               g == FeeMinor(b, TakerFeeBps)
               h == FeeMinor(a + b, TakerFeeBps)
    <2>1. f \in Nat /\ g \in Nat /\ h \in Nat
      <3>1. a + b \in Nat
        BY <1>1
      <3> HIDE DEF a, b
      <3>2. QED BY <1>1, <3>1, FeeNat
    <2>2. f + g - h \in 0 .. 1
      BY <1>1, FeeOfParts
    <2>3. /\ BuyReserve(limit, m) = a + f /\ BuyReserve(limit, n) = b + g
          /\ BuyReserve(limit, m + n) = a + b + h
      BY <1>2 DEF BuyReserve, Gross
    <2> HIDE DEF a, b, f, g, h
    <2>4. QED BY <1>1, <1>4, <2>1, <2>2, <2>3 DEF Roundings
  <1>5. QED BY <1>3, <1>4

\* Nothing costs nothing.
LEMMA NoReserve ==
    ASSUME NEW limit \in Nat
    PROVE  BuyReserve(limit, 0) = 0
  <1>1. limit * 0 = 0 /\ 0 * TakerFeeBps = 0
    BY TradingAssumption
  <1>2. QED BY <1>1 DEF BuyReserve, Gross, FeeMinor

\* A gap is an amount.
LEMMA GapInt ==
    ASSUME NEW row \in OrderType
    PROVE  Gap(row) \in Int
  <1>1. row.limit \in Nat /\ row.remaining \in Nat /\ row.reservation.amount \in Int
    BY DEF OrderType, ReservationType
  <1>2. BuyReserve(row.limit, row.remaining) \in Nat
    BY <1>1, ReserveNat
  <1>3. QED BY <1>1, <1>2 DEF Gap

\* A fill widens the gap of the buy order by at most a penny.
LEMMA GapOfFill ==
    ASSUME BookInv, NEW c \in OrderId, MatchSettle(c)
    PROVE  LET b == match.buy IN
           /\ Gap(order'[b]) - Gap(order[b]) \in 0 .. Roundings(1)
           /\ order'[b].reservation.amount >= 0
  <1> DEFINE b == match.buy
             s == match.sell
             u == FillUnits(b, s)
             l == order[b].limit
             r == order[b].remaining
             held_b == order[b].reservation.amount
  <1>1. StillMatches(b, s) /\ match.caller = c /\ CashSettles(b, s)
    BY DEF MatchSettle, Settles
  <1>2. /\ b \in OrderId /\ order[b] \in OrderType /\ order[b].side = "BUY"
        /\ u \in Nat /\ u <= r
    BY <1>1, MatchedOrders
  <1>3. /\ l \in Nat /\ r \in Nat /\ r - u \in Nat /\ held_b \in Int
    BY <1>2 DEF OrderType, ReservationType
  <1>4. /\ order'[b].side = "BUY" /\ order'[b].limit = l /\ order'[b].remaining = r - u
        /\ order'[b].reservation.amount = held_b - BuyReserve(l, u)
    BY <1>2, Settling DEF FillEffect, ReserveReduction
  <1>5. held_b >= BuyReserve(l, u)
    BY <1>1 DEF CashSettles, ReserveReduction
  <1>6. /\ BuyReserve(l, u) \in Nat /\ BuyReserve(l, r - u) \in Nat /\ BuyReserve(l, r) \in Nat
    BY <1>2, <1>3, ReserveNat
  <1>7. BuyReserve(l, u) + BuyReserve(l, r - u) - BuyReserve(l, u + (r - u)) \in 0 .. Roundings(1)
    BY <1>2, <1>3, ReserveOfParts
  <1>8. u + (r - u) = r
    BY <1>2, <1>3
  <1>9. /\ Gap(order[b]) = BuyReserve(l, r) - held_b
        /\ Gap(order'[b]) = BuyReserve(l, r - u) - (held_b - BuyReserve(l, u))
    BY <1>2, <1>4 DEF Gap
  <1>10. Roundings(1) \in Nat
    BY DEF Roundings
  <1> HIDE DEF l, r, u, b, held_b
  <1>11. Gap(order'[b]) - Gap(order[b])
            = BuyReserve(l, u) + BuyReserve(l, r - u) - BuyReserve(l, r)
    BY <1>3, <1>6, <1>9
  <1>12. order'[b].reservation.amount >= 0
    BY <1>3, <1>4, <1>5, <1>6
  <1>13. QED BY <1>7, <1>8, <1>11, <1>12 DEF b

\* Nothing but a fill of a buy order changes a gap, and nothing but placing or filling
\* a buy order changes what its reservation holds.
LEMMA GapsMove ==
    ASSUME BookInv, UnplacedAhead, BlankRows, [Next]_vars, NEW q \in OrderId
    PROVE  \/ /\ Gap(order'[q]) = Gap(order[q])
              /\ order'[q].side = "BUY" =>
                    \/ order'[q].reservation.amount \in Nat
                    \/ /\ order[q].side = "BUY"
                       /\ order'[q].reservation.amount = order[q].reservation.amount
           \/ /\ q = match.buy
              /\ \E c \in OrderId : MatchSettle(c)
  <1>1. CASE order'[q] = order[q]
    BY <1>1
  <1>2. CASE QuietStep \/ UNCHANGED vars
    BY <1>1, <1>2, QuietKeeps
  <1>3. CASE ClosingStep
    <2>1. PICK o \in OrderId, status \in {"CANCELLED", "EXPIRED"} :
            Active(o) /\ CloseAndRelease(o, status)
      BY <1>3 DEF ClosingStep
    <2>2. CASE q = o
      BY <2>1, <2>2, Closing DEF Gap
    <2>3. QED BY <1>1, <2>1, <2>2, Closing
  <1>4. CASE PlacingStep
    <2>1. PICK p \in Principals, side \in {"BUY", "SELL"}, tif \in {"GTC", "IOC"},
               limit \in Nat, units \in Nat \ {0} :
            (side = "BUY" => p \in Users) /\ OpenOrder(p, side, tif, limit, units)
      BY <1>4 DEF PlacingStep
    <2>2. CASE q = nextPriority
      <3>1. order[q] = Unplaced
        BY <2>2 DEF UnplacedAhead, BlankRows, OrderId
      <3>2. Gap(order[q]) = 0
        BY <3>1 DEF Unplaced, Gap
      <3>3. /\ order'[q].side = side /\ order'[q].limit = limit /\ order'[q].remaining = units
            /\ side = "BUY" => order'[q].reservation.amount = BuyReserve(limit, units)
        BY <2>1, <2>2, Opening
      <3>4. BuyReserve(limit, units) \in Nat
        BY ReserveNat
      <3>5. Gap(order'[q]) = 0
        BY <3>3, <3>4 DEF Gap
      <3>6. QED BY <3>2, <3>3, <3>4, <3>5
    <2>3. QED BY <1>1, <2>1, <2>2, Opening
  <1>5. CASE SettlingStep
    <2>1. PICK c \in OrderId : MatchSettle(c)
      BY <1>5 DEF SettlingStep
    <2>2. match.caller = c /\ StillMatches(match.buy, match.sell)
      BY <2>1 DEF MatchSettle
    <2>3. CASE q = match.sell
      <3>1. order[q].side = "SELL" /\ order'[q].side = "SELL"
        BY <2>1, <2>2, <2>3, MatchedOrders, Settling
      <3>2. QED BY <3>1 DEF Gap
    <2>4. QED BY <1>1, <2>1, <2>3, Settling
  <1>6. QED BY <1>2, <1>3, <1>4, <1>5, StepKinds

----------------------------------------------------------------------------
(* Counting purchases *)

\* A settlement adds one execution, of the matched pair.
LEMMA OneMoreExecution ==
    ASSUME BookInv, UnplacedAhead, NEW c \in OrderId, MatchSettle(c)
    PROVE  LET n == Len(executions) + 1 IN
           /\ n \notin DOMAIN executions /\ IsFiniteSet(DOMAIN executions)
           /\ DOMAIN executions' = DOMAIN executions \cup {n}
           /\ \A i \in DOMAIN executions : executions'[i] = executions[i]
           /\ executions'[n].buy = match.buy
  <1>1. PICK e \in ExecutionType : executions' = Append(executions, e) /\ e.buy = match.buy
    BY NewExecution
  <1>2. executions \in Seq(ExecutionType)
    BY DEF BookInv, BookTypeOK
  <1> DEFINE k == Len(executions)
  <1>3. k \in Nat /\ DOMAIN executions = 1 .. k
    BY <1>2
  <1>4. DOMAIN executions' = 1 .. (k + 1)
    BY <1>1, <1>2
  <1>5. /\ \A i \in 1 .. k : executions'[i] = executions[i]
        /\ executions'[k + 1] = e
    BY <1>1, <1>2
  <1>6. IsFiniteSet(1 .. k)
    BY <1>3, IntervalFinite
  <1> HIDE DEF k
  <1>7. 1 .. (k + 1) = (1 .. k) \cup {k + 1} /\ k + 1 \notin 1 .. k
    BY <1>3
  <1>8. QED BY <1>1, <1>3, <1>4, <1>5, <1>6, <1>7 DEF k

\* Executions name orders.
LEMMA ExecutedBuy ==
    ASSUME BookInv, NEW i \in DOMAIN executions
    PROVE  executions[i].buy \in OrderId
  <1>1. executions[i] \in ExecutionType
    BY DEF BookInv, BookTypeOK
  <1>2. QED BY <1>1 DEF ExecutionType

\* Counts of executions are natural numbers.
LEMMA CountsNat ==
    ASSUME BookInv, NEW q
    PROVE  BuyFills(q) \in Nat /\ Purchases(q) \in Nat
  <1>1. executions \in Seq(ExecutionType)
    BY DEF BookInv, BookTypeOK
  <1>2. IsFiniteSet(DOMAIN executions)
    <2>1. Len(executions) \in Nat /\ DOMAIN executions = 1 .. Len(executions)
      BY <1>1
    <2>2. QED BY <2>1, IntervalFinite
  <1>3. \A S \in SUBSET DOMAIN executions : Cardinality(S) \in Nat
    BY <1>2, FS_Subset, FS_CardinalityType
  <1>4. QED BY <1>3 DEF BuyFills, Purchases

\* A settlement is one more fill of its buy order and no other.
LEMMA FillCounts ==
    ASSUME BookInv, UnplacedAhead, NEW c \in OrderId, MatchSettle(c), NEW q
    PROVE  BuyFills(q)' = IF q = match.buy THEN BuyFills(q) + 1 ELSE BuyFills(q)
  <1> DEFINE n == Len(executions) + 1
             old == {i \in DOMAIN executions : executions[i].buy = q}
             new == {i \in DOMAIN executions' : executions'[i].buy = q}
  <1>1. /\ n \notin DOMAIN executions /\ IsFiniteSet(DOMAIN executions)
        /\ DOMAIN executions' = DOMAIN executions \cup {n}
        /\ \A i \in DOMAIN executions : executions'[i] = executions[i]
        /\ executions'[n].buy = match.buy
    BY OneMoreExecution
  <1> HIDE DEF n
  <1>2. new = IF q = match.buy THEN old \cup {n} ELSE old
    BY <1>1
  <1>3. IsFiniteSet(old) /\ n \notin old
    BY <1>1, FS_Subset
  <1>4. Cardinality(old \cup {n}) = Cardinality(old) + 1
    BY <1>3, FS_AddElement
  <1>5. BuyFills(q) = Cardinality(old) /\ BuyFills(q)' = Cardinality(new)
    BY DEF BuyFills
  <1>6. QED BY <1>2, <1>4, <1>5

\* A settlement is one more purchase of its buyer and of nobody else.
LEMMA PurchaseCounts ==
    ASSUME BookInv, UnplacedAhead, ExecutedPlaced, NEW c \in OrderId, MatchSettle(c), NEW p
    PROVE  Purchases(p)' = IF p = order[match.buy].principal
                           THEN Purchases(p) + 1 ELSE Purchases(p)
  <1> DEFINE n == Len(executions) + 1
             old == {i \in DOMAIN executions : order[executions[i].buy].principal = p}
             new == {i \in DOMAIN executions' : order'[executions'[i].buy].principal = p}
  <1>1. /\ n \notin DOMAIN executions /\ IsFiniteSet(DOMAIN executions)
        /\ DOMAIN executions' = DOMAIN executions \cup {n}
        /\ \A i \in DOMAIN executions : executions'[i] = executions[i]
        /\ executions'[n].buy = match.buy
    BY OneMoreExecution
  <1>2. \A i \in DOMAIN executions : executions[i].buy \in OrderId
    BY ExecutedBuy
  <1>3. \A o \in OrderId : order'[o].principal = order[o].principal
    BY Settling
  <1>4. match.buy \in OrderId
    BY MatchedOrders DEF MatchSettle
  <1> HIDE DEF n
  <1>5. new = IF p = order[match.buy].principal THEN old \cup {n} ELSE old
    BY <1>1, <1>2, <1>3, <1>4
  <1>6. IsFiniteSet(old) /\ n \notin old
    BY <1>1, FS_Subset
  <1>7. Cardinality(old \cup {n}) = Cardinality(old) + 1
    BY <1>6, FS_AddElement
  <1>8. Purchases(p) = Cardinality(old) /\ Purchases(p)' = Cardinality(new)
    BY DEF Purchases
  <1>9. QED BY <1>5, <1>7, <1>8

\* Other steps count nothing: executed orders keep their principals.
LEMMA CountsStay ==
    ASSUME BookInv, ExecutedPlaced, [Next]_vars, executions' = executions, NEW q
    PROVE  BuyFills(q)' = BuyFills(q) /\ Purchases(q)' = Purchases(q)
  <1>1. \A i \in DOMAIN executions : /\ executions[i].buy \in OrderId
                                     /\ executions[i].buy < nextPriority
    BY ExecutedBuy DEF ExecutedPlaced
  <1>2. \A i \in DOMAIN executions :
           order'[executions[i].buy].principal = order[executions[i].buy].principal
    BY <1>1, TermsStay
  <1>3. {i \in DOMAIN executions' : order'[executions'[i].buy].principal = q}
          = {i \in DOMAIN executions : order[executions[i].buy].principal = q}
    BY <1>2
  <1>4. QED BY <1>3 DEF BuyFills, Purchases

\* Only settlements write executions.
LEMMA NoSettlement ==
    ASSUME BookInv, [Next]_vars, \A c \in OrderId : ~MatchSettle(c)
    PROVE  executions' = executions
  <1>1. ~SettlingStep
    BY DEF SettlingStep
  <1>2. CASE QuietStep \/ UNCHANGED vars
    BY <1>2, QuietKeeps
  <1>3. CASE ClosingStep
    BY <1>3 DEF ClosingStep, CloseAndRelease
  <1>4. CASE PlacingStep
    BY <1>4 DEF PlacingStep, OpenOrder
  <1>5. QED BY <1>1, <1>2, <1>3, <1>4, StepKinds

----------------------------------------------------------------------------
(* Reservations are within rounding *)

\* Each further fill may round up once more.
LEMMA RoundingsGrow ==
    ASSUME NEW n \in Nat
    PROVE  Roundings(n) \in Nat /\ Roundings(n + 1) = Roundings(n) + Roundings(1)
  BY DEF Roundings

WithinRounding(q) ==
    order[q].side = "BUY" =>
        /\ order[q].reservation.amount >= 0
        /\ Gap(order[q]) \in 0 .. Roundings(BuyFills(q))

AllWithinRounding == \A q \in OrderId : WithinRounding(q)

\* Every step moves a gap by no more than the fills it counts.
LEMMA WithinRoundingStep ==
    ASSUME BookInv, UnplacedAhead, BlankRows, ExecutedPlaced, [Next]_vars,
           NEW q \in OrderId, WithinRounding(q)
    PROVE  WithinRounding(q)'
  <1>1. /\ BuyFills(q) \in Nat
        /\ Roundings(BuyFills(q)) \in Nat
        /\ Roundings(BuyFills(q) + 1) = Roundings(BuyFills(q)) + Roundings(1)
        /\ Roundings(1) \in Nat
    BY CountsNat, RoundingsGrow
  <1>2. Gap(order[q]) \in Int /\ Gap(order'[q]) \in Int
    BY GapInt, BookStep DEF BookInv, BookTypeOK
  <1>3. Gap(order[q]) \in 0 .. Roundings(BuyFills(q))
    <2>1. CASE order[q].side = "BUY"
      BY <2>1 DEF WithinRounding
    <2>2. CASE order[q].side # "BUY"
      BY <1>1, <2>2 DEF Gap
    <2>3. QED BY <2>1, <2>2
  <1>4. WithinRounding(q)' <=>
           (order'[q].side = "BUY" =>
               /\ order'[q].reservation.amount >= 0
               /\ Gap(order'[q]) \in 0 .. Roundings(BuyFills(q)'))
    BY DEF WithinRounding, Roundings, Gap, BuyReserve
  <1>5. CASE \E c \in OrderId : MatchSettle(c) /\ q = match.buy
    <2>1. PICK c \in OrderId : MatchSettle(c)
      BY <1>5
    <2>2. BuyFills(q)' = BuyFills(q) + 1
      BY <1>5, <2>1, FillCounts
    <2>3. /\ Gap(order'[q]) - Gap(order[q]) \in 0 .. Roundings(1)
          /\ order'[q].reservation.amount >= 0
      BY <1>5, <2>1, GapOfFill
    <2>4. Gap(order'[q]) \in 0 .. Roundings(BuyFills(q) + 1)
      BY <1>1, <1>2, <1>3, <2>3
    <2>5. QED BY <1>4, <2>2, <2>3, <2>4
  <1>6. CASE ~ \E c \in OrderId : MatchSettle(c) /\ q = match.buy
    <2>1. BuyFills(q)' = BuyFills(q)
      <3>1. CASE \E c \in OrderId : MatchSettle(c)
        BY <1>6, <3>1, FillCounts
      <3>2. CASE \A c \in OrderId : ~MatchSettle(c)
        BY <3>2, NoSettlement, CountsStay
      <3>3. QED BY <3>1, <3>2
    <2>2. /\ Gap(order'[q]) = Gap(order[q])
          /\ order'[q].side = "BUY" =>
                \/ order'[q].reservation.amount \in Nat
                \/ /\ order[q].side = "BUY"
                   /\ order'[q].reservation.amount = order[q].reservation.amount
      BY <1>6, GapsMove
    <2>3. order'[q].side = "BUY" => order'[q].reservation.amount >= 0
      BY <2>2 DEF WithinRounding
    <2>4. QED BY <1>3, <1>4, <2>1, <2>2, <2>3
  <1>7. QED BY <1>5, <1>6

\* They hold from the beginning.
LEMMA WithinRoundingInvariant == Spec => []AllWithinRounding
  <1>1. Init => AllWithinRounding
    BY DEF Init, AllWithinRounding, WithinRounding, Unplaced
  <1>2. BookInv /\ UnplacedAhead /\ BlankRows /\ AllExecutionsSound /\ ExecutedPlaced
          /\ AllWithinRounding /\ [Next]_vars => AllWithinRounding'
    BY WithinRoundingStep DEF AllWithinRounding
  <1>3. QED BY <1>1, <1>2, BookInvariant, UnplacedAheadInvariant, BlankRowsInvariant,
               ExecutionsInvariant, PTL DEF Spec

\* Whatever the fees, and however an order is filled, cancelled or expired, the
\* reservation of a BUY order never falls below zero nor exceeds what its remaining
\* units can cost, and falls short of that by at most a penny for each of its fills.
THEOREM ReservationsStayWithinRounding == Spec => []ReservationsWithinRounding
  <1>1. AllWithinRounding => ReservationsWithinRounding
    BY DEF AllWithinRounding, WithinRounding, ReservationsWithinRounding, RoundingGap, Gap
  <1>2. QED BY <1>1, WithinRoundingInvariant, PTL

\* In a market whose takers pay no fee (the schedule in force), an active BUY
\* order always has exactly the worst case of its remaining units reserved.
THEOREM FreeReservationsExact ==
    ASSUME TakerFeeBps = 0
    PROVE  Spec => []CashReservationsExact
  <1>1. ASSUME BookInv, AllWithinRounding
        PROVE  CashReservationsExact
    <2> SUFFICES ASSUME NEW o \in OrderId, order[o].side = "BUY"
                 PROVE  order[o].reservation.amount =
                           BuyReserve(order[o].limit, order[o].remaining)
      BY DEF CashReservationsExact
    <2>1. Gap(order[o]) = 0
      BY <1>1 DEF AllWithinRounding, WithinRounding, Roundings
    <2>2. order[o] \in OrderType
      BY <1>1 DEF BookInv, BookTypeOK
    <2>3. /\ order[o].limit \in Nat /\ order[o].remaining \in Nat
          /\ order[o].reservation.amount \in Int
      BY <2>2 DEF OrderType, ReservationType
    <2>4. BuyReserve(order[o].limit, order[o].remaining) \in Nat
      BY <2>3, ReserveNat
    <2>5. QED BY <2>1, <2>3, <2>4 DEF Gap
  <1>2. QED BY <1>1, BookInvariant, WithinRoundingInvariant, PTL

----------------------------------------------------------------------------
(* What the roundings of a customer's purchases add up to *)

\* The gap of order o if it is p's.
GapOf(table, p, o) == IF table[o].principal = p THEN Gap(table[o]) ELSE 0

GapsOf(table, p) == SumFunctionOnSet([o \in OrderId |-> GapOf(table, p, o)], OrderId)

\* An owner's gap is an amount.
LEMMA GapOfInt ==
    ASSUME NEW table \in [OrderId -> OrderType], NEW p, NEW o \in OrderId
    PROVE  GapOf(table, p, o) \in Int
  <1>1. table[o] \in OrderType
    OBVIOUS
  <1>2. QED BY <1>1, GapInt DEF GapOf

\* So is their sum.
LEMMA GapsInt ==
    ASSUME NEW table \in [OrderId -> OrderType], NEW p
    PROVE  GapsOf(table, p) \in Int
  <1> DEFINE f == [o \in OrderId |-> GapOf(table, p, o)]
  <1>1. \A o \in OrderId : f[o] \in Int
    BY GapOfInt
  <1> HIDE DEF f
  <1>2. QED BY <1>1, OrdersFinite, SumInt DEF f, GapsOf

\* Changing the gap of one order.
LEMMA GapsChange ==
    ASSUME NEW table \in [OrderId -> OrderType], NEW new \in [OrderId -> OrderType],
           NEW p, NEW q \in OrderId,
           \A o \in OrderId \ {q} : GapOf(new, p, o) = GapOf(table, p, o)
    PROVE  GapsOf(new, p) = GapsOf(table, p) + (GapOf(new, p, q) - GapOf(table, p, q))
  <1> DEFINE f == [o \in OrderId |-> GapOf(table, p, o)]
             g == [o \in OrderId |-> GapOf(new, p, o)]
  <1>1. \A o \in OrderId : f[o] \in Int /\ g[o] \in Int
    BY GapOfInt
  <1>2. \A o \in OrderId \ {q} : g[o] = f[o]
    OBVIOUS
  <1>3. f[q] = GapOf(table, p, q) /\ g[q] = GapOf(new, p, q)
    OBVIOUS
  <1> HIDE DEF f, g
  <1>4. SumFunctionOnSet(g, OrderId) = SumFunctionOnSet(f, OrderId) + (g[q] - f[q])
    BY <1>1, <1>2, OrdersFinite, SumChange
  <1>5. QED BY <1>3, <1>4 DEF f, g, GapsOf

GapsBounded(p) == GapsOf(order, p) <= Roundings(Purchases(p))

\* An order that a step does not fill keeps its gap and its owner.
LEMMA GapStays ==
    ASSUME BookInv, UnplacedAhead, BlankRows, [Next]_vars, NEW p, NEW o \in OrderId,
           Gap(order'[o]) = Gap(order[o])
    PROVE  GapOf(order', p, o) = GapOf(order, p, o)
  <1>1. CASE o < nextPriority
    <2>1. order'[o].principal = order[o].principal
      BY <1>1, TermsStay
    <2>2. QED BY <2>1 DEF GapOf
  <1>2. CASE o >= nextPriority
    <2>1. order[o] = Unplaced
      BY <1>2 DEF UnplacedAhead, BlankRows
    <2>2. Gap(order[o]) = 0
      BY <2>1 DEF Unplaced, Gap
    <2>3. QED BY <2>2 DEF GapOf
  <1>3. nextPriority \in Int /\ o \in Int
    BY DEF BookInv, BookTypeOK, OrderId
  <1>4. QED BY <1>1, <1>2, <1>3

\* Every step widens a customer's gaps by no more than the purchases it counts.
LEMMA GapsBoundedStep ==
    ASSUME BookInv, UnplacedAhead, BlankRows, ExecutedPlaced, [Next]_vars,
           NEW p, GapsBounded(p)
    PROVE  GapsBounded(p)'
  <1>1. order \in [OrderId -> OrderType] /\ order' \in [OrderId -> OrderType]
    BY BookStep DEF BookInv, BookTypeOK
  <1>2. /\ Purchases(p) \in Nat
        /\ Roundings(Purchases(p)) \in Nat
        /\ Roundings(Purchases(p) + 1) = Roundings(Purchases(p)) + Roundings(1)
        /\ Roundings(1) \in Nat
    BY CountsNat, RoundingsGrow
  <1>3. GapsOf(order, p) \in Int /\ GapsOf(order, p) <= Roundings(Purchases(p))
    BY <1>1, GapsInt DEF GapsBounded
  <1>4. GapsBounded(p)' <=> GapsOf(order', p) <= Roundings(Purchases(p)')
    BY DEF GapsBounded, GapsOf, GapOf, Gap, BuyReserve, Roundings
  <1>5. CASE \E c \in OrderId : MatchSettle(c)
    <2>1. PICK c \in OrderId : MatchSettle(c)
      BY <1>5
    <2> DEFINE b == match.buy
    <2>2. b \in OrderId
      BY <2>1, MatchedOrders DEF MatchSettle
    <2>3. \A o \in OrderId \ {b} : GapOf(order', p, o) = GapOf(order, p, o)
      BY GapsMove, GapStays
    <2>4. GapsOf(order', p) = GapsOf(order, p) + (GapOf(order', p, b) - GapOf(order, p, b))
      BY <1>1, <2>2, <2>3, GapsChange
    <2>5. order'[b].principal = order[b].principal
      BY <2>1, <2>2, Settling
    <2>6. Gap(order'[b]) - Gap(order[b]) \in 0 .. Roundings(1)
      BY <2>1, GapOfFill
    <2>7. Gap(order[b]) \in Int /\ Gap(order'[b]) \in Int
      BY <1>1, <2>2, GapInt
    <2>8. CASE p = order[b].principal
      <3>1. Purchases(p)' = Purchases(p) + 1
        BY <2>1, <2>8, PurchaseCounts
      <3>2. GapOf(order', p, b) = Gap(order'[b]) /\ GapOf(order, p, b) = Gap(order[b])
        BY <2>5, <2>8 DEF GapOf
      <3> HIDE DEF b
      <3>3. GapsOf(order', p) <= Roundings(Purchases(p) + 1)
        BY <1>2, <1>3, <2>4, <2>6, <2>7, <3>2
      <3>4. QED BY <1>4, <3>1, <3>3
    <2>9. CASE p # order[b].principal
      <3>1. Purchases(p)' = Purchases(p)
        BY <2>1, <2>9, PurchaseCounts
      <3>2. GapOf(order', p, b) = 0 /\ GapOf(order, p, b) = 0
        BY <2>5, <2>9 DEF GapOf
      <3> HIDE DEF b
      <3>3. QED BY <1>3, <1>4, <2>4, <3>1, <3>2
    <2>10. QED BY <2>8, <2>9
  <1>6. CASE \A c \in OrderId : ~MatchSettle(c)
    <2>1. Purchases(p)' = Purchases(p)
      BY <1>6, NoSettlement, CountsStay
    <2>2. \A o \in OrderId : GapOf(order', p, o) = GapOf(order, p, o)
      BY <1>6, GapsMove, GapStays
    <2>3. GapsOf(order', p) = GapsOf(order, p)
      BY <2>2 DEF GapsOf
    <2>4. QED BY <1>3, <1>4, <2>1, <2>3
  <1>7. QED BY <1>5, <1>6

AllGapsBounded == \A p \in Principals : GapsBounded(p)

\* A customer's buy reservations together fall short by at most a penny for each of
\* his purchases.
LEMMA GapsBoundedInvariant == Spec => []AllGapsBounded
  <1>1. ASSUME Init, NEW p \in Principals
        PROVE  GapsBounded(p)
    <2> DEFINE f == [o \in OrderId |-> GapOf(order, p, o)]
    <2>1. \A o \in OrderId : f[o] = 0
      BY <1>1 DEF Init, Unplaced, GapOf, Gap
    <2> HIDE DEF f
    <2>2. GapsOf(order, p) = 0
      BY <2>1, OrdersFinite, SumZero DEF f, GapsOf
    <2>3. Purchases(p) = 0
      <3>1. DOMAIN executions = {}
        BY <1>1 DEF Init
      <3>2. {i \in DOMAIN executions : order[executions[i].buy].principal = p} = {}
        BY <3>1
      <3>3. QED BY <3>2, FS_EmptySet DEF Purchases
    <2>4. QED BY <2>2, <2>3 DEF GapsBounded, Roundings
  <1>2. ASSUME BookInv, UnplacedAhead, BlankRows, ExecutedPlaced, AllGapsBounded, [Next]_vars
        PROVE  AllGapsBounded'
    <2> SUFFICES ASSUME NEW p \in Principals PROVE GapsBounded(p)'
      BY DEF AllGapsBounded
    <2>1. QED BY <1>2, GapsBoundedStep DEF AllGapsBounded
  <1>3. Init => AllGapsBounded
    BY <1>1 DEF AllGapsBounded
  <1>4. BookInv /\ UnplacedAhead /\ BlankRows /\ AllExecutionsSound /\ ExecutedPlaced
          /\ AllGapsBounded /\ [Next]_vars => AllGapsBounded'
    BY <1>2
  <1>5. QED BY <1>3, <1>4, BookInvariant, UnplacedAheadInvariant, BlankRowsInvariant,
               ExecutionsInvariant, PTL DEF Spec

----------------------------------------------------------------------------
(* The counter of reserved units *)

UnitsBacked(p) == reservedUnits[p] = ReservedIn(order, p, "SELL")

\* Every step moves the counter of reserved units as the reservations move.
LEMMA UnitsBackedStep ==
    ASSUME BookInv, UnplacedAhead, UnitReservationsExact, [Next]_vars,
           NEW p \in Principals, UnitsBacked(p)
    PROVE  UnitsBacked(p)'
  <1> USE DEF UnitsBacked
  <1>1. /\ order \in [OrderId -> OrderType] /\ order' \in [OrderId -> OrderType]
        /\ reservedUnits \in [Principals -> Int]
        /\ ReservedIn(order, p, "SELL") \in Int
    BY BookStep, ReservedInt DEF BookInv, BookTypeOK
  <1>2. CASE ClosingStep
    <2>1. PICK o \in OrderId, status \in {"CANCELLED", "EXPIRED"} :
            Active(o) /\ CloseAndRelease(o, status)
      BY <1>2 DEF ClosingStep
    <2> DEFINE a == order[o].principal
               n == order[o].remaining
    <2>2. /\ \A q \in OrderId \ {o} : order'[q] = order[q]
          /\ order'[o].reservation.status # "ACTIVE"
      BY <2>1, Closing
    <2>3. /\ order[o].reservation.status = "ACTIVE"
          /\ order[o].side = "SELL" => order[o].reservation.amount = n
      BY <2>1 DEF UnitReservationsExact
    <2>4. n \in Int /\ a \in Principals
      BY <1>1 DEF OrderType
    <2>5. Share(order', p, "SELL", o) = 0
      BY <2>2 DEF Share
    <2>6. Share(order, p, "SELL", o) = IF order[o].side = "SELL" /\ p = a THEN n ELSE 0
      BY <2>3 DEF Share
    <2>7. ReservedIn(order', p, "SELL") = ReservedIn(order, p, "SELL")
             + (Share(order', p, "SELL", o) - Share(order, p, "SELL", o))
      BY <1>1, <2>2, ReservedChange
    <2>8. reservedUnits' = IF order[o].side = "SELL"
                           THEN [reservedUnits EXCEPT ![a] = @ - n] ELSE reservedUnits
      BY <2>1, <2>3 DEF CloseAndRelease
    <2> HIDE DEF a, n
    <2>9. QED BY <1>1, <2>4, <2>5, <2>6, <2>7, <2>8
  <1>3. CASE PlacingStep
    <2>1. PICK a \in Principals, side \in {"BUY", "SELL"}, tif \in {"GTC", "IOC"},
               limit \in Nat, units \in Nat \ {0} :
            (side = "BUY" => a \in Users) /\ OpenOrder(a, side, tif, limit, units)
      BY <1>3 DEF PlacingStep
    <2> DEFINE o == nextPriority
    <2>2. /\ o \in OrderId
          /\ \A q \in OrderId \ {o} : order'[q] = order[q]
          /\ order'[o].side = side /\ order'[o].principal = a
          /\ order'[o].reservation.status = "ACTIVE"
          /\ side = "SELL" => order'[o].reservation.amount = units
      BY <2>1, Opening
    <2>3. order[o].reservation.status # "ACTIVE"
      BY <2>2 DEF UnplacedAhead, UnitReservationsExact, Active, ActiveStatuses, OrderId
    <2>4. Share(order, p, "SELL", o) = 0
      BY <2>3 DEF Share
    <2>5. Share(order', p, "SELL", o) = IF side = "SELL" /\ p = a THEN units ELSE 0
      BY <2>2 DEF Share
    <2>6. ReservedIn(order', p, "SELL") = ReservedIn(order, p, "SELL")
             + (Share(order', p, "SELL", o) - Share(order, p, "SELL", o))
      BY <1>1, <2>2, ReservedChange
    <2>7. reservedUnits' = IF side = "SELL"
                           THEN [reservedUnits EXCEPT ![a] = @ + units] ELSE reservedUnits
      BY <2>1 DEF OpenOrder
    <2> HIDE DEF o
    <2>8. QED BY <1>1, <2>4, <2>5, <2>6, <2>7
  <1>4. CASE SettlingStep
    <2>1. PICK c \in OrderId : MatchSettle(c)
      BY <1>4 DEF SettlingStep
    <2> DEFINE b == match.buy
               s == match.sell
               u == FillUnits(b, s)
               a == order[s].principal
    <2>2. match.caller = c /\ StillMatches(b, s) /\ Active(b) /\ Active(s)
      BY <2>1 DEF MatchSettle, StillMatches
    <2>3. /\ b \in OrderId /\ s \in OrderId /\ b # s /\ u \in Nat
          /\ order[b].side = "BUY" /\ order[s].side = "SELL"
      BY <2>2, MatchedOrders
    <2>4. /\ \A q \in OrderId \ {b, s} : order'[q] = order[q]
          /\ FillEffect(order[s], order'[s], u, FillPrice(b, s))
          /\ order'[b].side = "BUY" /\ order'[s].side = "SELL" /\ order'[s].principal = a
          /\ order'[s].reservation.amount =
                IF order[s].remaining = u THEN order[s].reservation.amount
                ELSE order[s].reservation.amount - u
      BY <2>1, <2>3, Settling
    <2>5. order[s].reservation.status = "ACTIVE" /\ order[s].reservation.amount = order[s].remaining
      BY <2>2, <2>3 DEF UnitReservationsExact
    <2>6. order[s].remaining \in Int /\ a \in Principals
      BY <1>1, <2>3 DEF OrderType
    <2>7. Share(order, p, "SELL", b) = 0 /\ Share(order', p, "SELL", b) = 0
      BY <2>3, <2>4 DEF Share
    <2>8. Share(order, p, "SELL", s) = IF p = a THEN order[s].remaining ELSE 0
      BY <2>3, <2>5 DEF Share
    <2>9. order'[s].reservation.status =
             IF u = order[s].remaining THEN "CONSUMED" ELSE "ACTIVE"
      BY <2>4, <2>5 DEF FillEffect
    <2>10. Share(order', p, "SELL", s) = IF p = a THEN order[s].remaining - u ELSE 0
      BY <2>4, <2>5, <2>6, <2>9 DEF Share
    <2>11. ReservedIn(order', p, "SELL") = ReservedIn(order, p, "SELL")
              + (Share(order', p, "SELL", b) - Share(order, p, "SELL", b))
              + (Share(order', p, "SELL", s) - Share(order, p, "SELL", s))
      BY <1>1, <2>3, <2>4, ReservedChangeTwo
    <2>12. reservedUnits' = [reservedUnits EXCEPT ![a] = @ - u]
      BY <2>1 DEF MatchSettle
    <2> HIDE DEF u, a, b, s
    <2>13. QED BY <1>1, <2>3, <2>6, <2>7, <2>8, <2>10, <2>11, <2>12
  <1>5. CASE QuietStep \/ UNCHANGED vars
    BY <1>5, QuietKeeps
  <1>6. QED BY <1>2, <1>3, <1>4, <1>5, StepKinds

----------------------------------------------------------------------------
(* The counter of reserved cash *)

\* What order o of a table has in the counter of customer p: what its row holds, and
\* once it is closed what it was released for beyond that, taken off.
Claim(table, p, o) ==
    IF table[o].principal = p /\ table[o].side = "BUY"
    THEN IF table[o].reservation.status = "ACTIVE"
         THEN table[o].reservation.amount ELSE 0 - Gap(table[o])
    ELSE 0

ClaimsIn(table, p) == SumFunctionOnSet([o \in OrderId |-> Claim(table, p, o)], OrderId)

\* A claim is an amount.
LEMMA ClaimInt ==
    ASSUME NEW table \in [OrderId -> OrderType], NEW p, NEW o \in OrderId
    PROVE  Claim(table, p, o) \in Int
  <1>1. table[o] \in OrderType
    OBVIOUS
  <1>2. table[o].reservation.amount \in Int /\ Gap(table[o]) \in Int
    BY <1>1, GapInt DEF OrderType, ReservationType
  <1>3. QED BY <1>2 DEF Claim

\* Changing the claim of one order.
LEMMA ClaimsChange ==
    ASSUME NEW table \in [OrderId -> OrderType], NEW new \in [OrderId -> OrderType],
           NEW p, NEW q \in OrderId,
           \A o \in OrderId \ {q} : Claim(new, p, o) = Claim(table, p, o)
    PROVE  ClaimsIn(new, p) = ClaimsIn(table, p) + (Claim(new, p, q) - Claim(table, p, q))
  <1> DEFINE f == [o \in OrderId |-> Claim(table, p, o)]
             g == [o \in OrderId |-> Claim(new, p, o)]
  <1>1. \A o \in OrderId : f[o] \in Int /\ g[o] \in Int
    BY ClaimInt
  <1>2. \A o \in OrderId \ {q} : g[o] = f[o]
    OBVIOUS
  <1>3. f[q] = Claim(table, p, q) /\ g[q] = Claim(new, p, q)
    OBVIOUS
  <1> HIDE DEF f, g
  <1>4. SumFunctionOnSet(g, OrderId) = SumFunctionOnSet(f, OrderId) + (g[q] - f[q])
    BY <1>1, <1>2, OrdersFinite, SumChange
  <1>5. QED BY <1>3, <1>4 DEF f, g, ClaimsIn

\* The counter of reserved cash is the sum of the customer's claims.
CashBacked(p) == reservedCash[p] = ClaimsIn(order, p)

\* Every step moves the counter of reserved cash as the claims move, whatever the
\* fees: a fill takes the same off the row and the counter, and what a release takes
\* off the counter beyond the row is the gap that stays behind.
LEMMA CashBackedStep ==
    ASSUME BookInv, UnplacedAhead, BlankRows, UnitReservationsExact, [Next]_vars,
           NEW p \in Users, CashBacked(p)
    PROVE  CashBacked(p)'
  <1> USE DEF CashBacked
  <1>1. /\ order \in [OrderId -> OrderType] /\ order' \in [OrderId -> OrderType]
        /\ reservedCash \in [Users -> Int] /\ ClaimsIn(order, p) \in Int
    <2>1. order \in [OrderId -> OrderType] /\ order' \in [OrderId -> OrderType]
      BY BookStep DEF BookInv, BookTypeOK
    <2> DEFINE f == [o \in OrderId |-> Claim(order, p, o)]
    <2>2. \A o \in OrderId : f[o] \in Int
      BY <2>1, ClaimInt
    <2> HIDE DEF f
    <2>3. ClaimsIn(order, p) \in Int
      BY <2>2, OrdersFinite, SumInt DEF f, ClaimsIn
    <2>4. QED BY <2>1, <2>3 DEF BookInv, BookTypeOK
  <1>2. CashBacked(p)' <=> reservedCash'[p] = ClaimsIn(order', p)
    BY DEF ClaimsIn, Claim, Gap, BuyReserve
  <1>3. CASE ClosingStep
    <2>1. PICK o \in OrderId, status \in {"CANCELLED", "EXPIRED"} :
            Active(o) /\ CloseAndRelease(o, status)
      BY <1>3 DEF ClosingStep
    <2> DEFINE a == order[o].principal
               n == ReleasedCash(o)
               h == order[o].reservation.amount
    <2>2. /\ \A q \in OrderId \ {o} : order'[q] = order[q]
          /\ order'[o].reservation.status # "ACTIVE"
          /\ order'[o].principal = a /\ order'[o].side = order[o].side
          /\ order'[o].limit = order[o].limit /\ order'[o].remaining = order[o].remaining
          /\ order'[o].reservation.amount = h
      BY <2>1, Closing
    <2>3. order[o].reservation.status = "ACTIVE"
      BY <2>1 DEF UnitReservationsExact
    <2>4. n \in Int /\ h \in Int
      <3>1. /\ order[o].limit \in Nat /\ order[o].remaining \in Nat
            /\ order[o].reservation.amount \in Int
        BY <1>1 DEF OrderType, ReservationType
      <3>2. n \in Nat
        BY <3>1, ReserveNat DEF ReleasedCash
      <3>3. QED BY <3>1, <3>2
    <2>5. Claim(order, p, o) = IF p = a /\ order[o].side = "BUY" THEN h ELSE 0
      BY <2>3 DEF Claim
    <2>6. order[o].side = "BUY" => Gap(order'[o]) = n - h
      BY <2>2 DEF Gap, ReleasedCash
    <2>7. Claim(order', p, o) = IF p = a /\ order[o].side = "BUY" THEN 0 - (n - h) ELSE 0
      BY <2>2, <2>6 DEF Claim
    <2>8. ClaimsIn(order', p) = ClaimsIn(order, p)
             + (Claim(order', p, o) - Claim(order, p, o))
      <3>1. \A q \in OrderId \ {o} : Claim(order', p, q) = Claim(order, p, q)
        BY <2>2 DEF Claim
      <3>2. QED BY <1>1, <3>1, ClaimsChange
    <2>9. reservedCash' = IF order[o].side = "BUY"
                          THEN [reservedCash EXCEPT ![a] = @ - n] ELSE reservedCash
      BY <2>1, <2>3 DEF CloseAndRelease
    <2> HIDE DEF a, n, h
    <2>10. QED BY <1>1, <1>2, <2>4, <2>5, <2>7, <2>8, <2>9
  <1>4. CASE PlacingStep
    <2>1. PICK a \in Principals, side \in {"BUY", "SELL"}, tif \in {"GTC", "IOC"},
               limit \in Nat, units \in Nat \ {0} :
            (side = "BUY" => a \in Users) /\ OpenOrder(a, side, tif, limit, units)
      BY <1>4 DEF PlacingStep
    <2> DEFINE o == nextPriority
               n == BuyReserve(limit, units)
    <2>2. /\ o \in OrderId
          /\ \A q \in OrderId \ {o} : order'[q] = order[q]
          /\ order'[o].side = side /\ order'[o].principal = a
          /\ order'[o].reservation.status = "ACTIVE"
          /\ side = "BUY" => order'[o].reservation.amount = n
      BY <2>1, Opening
    <2>3. order[o] = Unplaced
      BY <2>2 DEF UnplacedAhead, BlankRows, OrderId
    <2>4. Claim(order, p, o) = 0
      BY <2>3 DEF Claim, Unplaced
    <2>5. Claim(order', p, o) = IF side = "BUY" /\ p = a THEN n ELSE 0
      BY <2>2 DEF Claim
    <2>6. ClaimsIn(order', p) = ClaimsIn(order, p)
             + (Claim(order', p, o) - Claim(order, p, o))
      <3>1. \A q \in OrderId \ {o} : Claim(order', p, q) = Claim(order, p, q)
        BY <2>2 DEF Claim
      <3>2. QED BY <1>1, <2>2, <3>1, ClaimsChange
    <2>7. reservedCash' = IF side = "BUY"
                          THEN [reservedCash EXCEPT ![a] = @ + n] ELSE reservedCash
      BY <2>1 DEF OpenOrder
    <2>8. n \in Int
      BY ReserveNat
    <2> HIDE DEF o, n
    <2>9. QED BY <1>1, <1>2, <2>4, <2>5, <2>6, <2>7, <2>8
  <1>5. CASE SettlingStep
    <2>1. PICK c \in OrderId : MatchSettle(c)
      BY <1>5 DEF SettlingStep
    <2> DEFINE b == match.buy
               s == match.sell
               u == FillUnits(b, s)
               a == order[b].principal
               h == order[b].reservation.amount
               taken == ReserveReduction(b, s)
    <2>2. match.caller = c /\ StillMatches(b, s) /\ Active(b) /\ Active(s)
      BY <2>1 DEF MatchSettle, StillMatches
    <2>3. /\ b \in OrderId /\ s \in OrderId /\ b # s /\ u \in Nat
          /\ order[b].side = "BUY" /\ order[s].side = "SELL"
      BY <2>2, MatchedOrders
    <2>4. /\ \A q \in OrderId \ {b, s} : order'[q] = order[q]
          /\ FillEffect(order[b], order'[b], u, FillPrice(b, s))
          /\ order'[b].side = "BUY" /\ order'[s].side = "SELL" /\ order'[b].principal = a
          /\ order'[b].limit = order[b].limit
          /\ order'[b].reservation.amount = h - taken
      BY <2>1, <2>3, Settling
    <2>5. order[b].reservation.status = "ACTIVE"
      BY <2>2, <2>3 DEF UnitReservationsExact
    <2>6. /\ order[b].limit \in Nat /\ order[b].remaining \in Nat
          /\ h \in Int /\ taken \in Int
      <3>1. order[b].limit \in Nat /\ order[b].remaining \in Nat /\ h \in Int
        BY <1>1, <2>3 DEF OrderType, ReservationType
      <3>2. taken \in Nat
        BY <2>3, <3>1, ReserveNat DEF ReserveReduction
      <3>3. QED BY <3>1, <3>2
    <2>7. Claim(order, p, s) = 0 /\ Claim(order', p, s) = 0
      BY <2>3, <2>4 DEF Claim
    <2>8. Claim(order, p, b) = IF p = a THEN h ELSE 0
      BY <2>3, <2>5 DEF Claim
    <2>9. /\ order'[b].reservation.status =
                IF u = order[b].remaining THEN "CONSUMED" ELSE "ACTIVE"
          /\ order'[b].remaining = order[b].remaining - u
      BY <2>4, <2>5 DEF FillEffect
    <2>10. u = order[b].remaining => 0 - Gap(order'[b]) = h - taken
      <3>1. BuyReserve(order[b].limit, 0) = 0
        BY <2>6, NoReserve
      <3>2. u = order[b].remaining => order'[b].remaining = 0
        BY <2>6, <2>9
      <3>3. u = order[b].remaining => Gap(order'[b]) = 0 - (h - taken)
        BY <2>4, <3>1, <3>2 DEF Gap
      <3> HIDE DEF h, taken
      <3>4. QED BY <2>6, <3>3
    <2>11. Claim(order', p, b) = IF p = a THEN h - taken ELSE 0
      BY <2>4, <2>9, <2>10 DEF Claim
    <2>12. ClaimsIn(order', p) = ClaimsIn(order, p)
              + (Claim(order', p, b) - Claim(order, p, b))
      <3>1. \A q \in OrderId \ {b} : Claim(order', p, q) = Claim(order, p, q)
        <4> SUFFICES ASSUME NEW q \in OrderId \ {b}
                     PROVE  Claim(order', p, q) = Claim(order, p, q)
          OBVIOUS
        <4>1. CASE q = s
          BY <2>7, <4>1
        <4>2. CASE q # s
          BY <2>4, <4>2 DEF Claim
        <4>3. QED BY <4>1, <4>2
      <3>2. QED BY <1>1, <2>3, <3>1, ClaimsChange
    <2>13. reservedCash' = [reservedCash EXCEPT ![a] = @ - taken]
      BY <2>1 DEF MatchSettle
    <2> HIDE DEF u, a, b, s, h, taken
    <2>14. QED BY <1>1, <1>2, <2>6, <2>8, <2>11, <2>12, <2>13
  <1>6. CASE QuietStep \/ UNCHANGED vars
    BY <1>6, QuietKeeps
  <1>7. QED BY <1>3, <1>4, <1>5, <1>6, StepKinds

AllUnitsBacked == \A p \in Principals : UnitsBacked(p)

AllCashBacked == \A u \in Users : CashBacked(u)

\* In an activated market nothing is reserved.
LEMMA NothingReserved ==
    ASSUME Init, NEW p
    PROVE  ReservedIn(order, p, "SELL") = 0 /\ ClaimsIn(order, p) = 0
  <1> DEFINE f == [o \in OrderId |-> Share(order, p, "SELL", o)]
             g == [o \in OrderId |-> Claim(order, p, o)]
  <1>1. \A o \in OrderId : f[o] = 0 /\ g[o] = 0
    BY DEF Init, Unplaced, Share, Claim
  <1> HIDE DEF f, g
  <1>2. QED BY <1>1, OrdersFinite, SumZero DEF f, g, ReservedIn, ClaimsIn

\* The counters start with nothing and every step keeps them backed.
LEMMA BackedInvariant == Spec => [](AllUnitsBacked /\ AllCashBacked)
  <1>1. Init => AllUnitsBacked /\ AllCashBacked
    BY NothingReserved DEF AllUnitsBacked, UnitsBacked, AllCashBacked, CashBacked, Init
  <1>2. BookInv /\ UnplacedAhead /\ UnitReservationsExact /\ AllUnitsBacked /\ [Next]_vars
          => AllUnitsBacked'
    BY UnitsBackedStep DEF AllUnitsBacked
  <1>3. BookInv /\ UnplacedAhead /\ BlankRows /\ UnitReservationsExact /\ AllCashBacked
          /\ [Next]_vars => AllCashBacked'
    BY CashBackedStep DEF AllCashBacked
  <1>4. QED BY <1>1, <1>2, <1>3, BookInvariant, UnplacedAheadInvariant, BlankRowsInvariant,
               ReservationsExact, PTL DEF Spec

\* What a customer's closed orders were released for beyond their rows.
LEMMA ReleasedParts ==
    ASSUME BookInv, NEW u
    PROVE  ClaimsIn(order, u) = ReservedBy(u, "BUY") - ReleasedGaps(u)
  <1> DEFINE T == {o \in OrderId : /\ order[o].principal = u
                                   /\ order[o].reservation.status # "ACTIVE"}
             gap == [o \in OrderId |-> RoundingGap(o)]
             f == [o \in OrderId |-> Share(order, u, "BUY", o)]
             g == [o \in OrderId |-> IF o \in T THEN gap[o] ELSE 0]
             h == [o \in OrderId |-> Claim(order, u, o)]
  <1>1. order \in [OrderId -> OrderType]
    BY DEF BookInv, BookTypeOK
  <1>2. \A o \in OrderId : gap[o] = Gap(order[o]) /\ gap[o] \in Int
    <2> SUFFICES ASSUME NEW o \in OrderId
                 PROVE  gap[o] = Gap(order[o]) /\ gap[o] \in Int
      OBVIOUS
    <2>1. order[o] \in OrderType
      BY <1>1
    <2>2. gap[o] = Gap(order[o])
      BY DEF RoundingGap, Gap
    <2>3. QED BY <2>1, <2>2, GapInt
  <1>3. \A o \in OrderId : f[o] \in Int
    BY <1>1, ShareInt
  <1> HIDE DEF gap
  <1>4. \A o \in OrderId : f[o] \in Int /\ g[o] \in Int /\ h[o] = f[o] - g[o]
    <2> SUFFICES ASSUME NEW o \in OrderId
                 PROVE  f[o] \in Int /\ g[o] \in Int /\ h[o] = f[o] - g[o]
      OBVIOUS
    <2>1. gap[o] = Gap(order[o]) /\ gap[o] \in Int /\ f[o] \in Int
      BY <1>2, <1>3
    <2>2. g[o] \in Int
      BY <2>1
    <2>3. order[o].side # "BUY" => Gap(order[o]) = 0
      BY DEF Gap
    <2>4. h[o] = f[o] - g[o]
      BY <2>1, <2>3 DEF Claim, Share
    <2>5. QED BY <2>1, <2>2, <2>4
  <1>5. ReservedBy(u, "BUY") = SumFunctionOnSet(f, OrderId)
    BY <1>1, ReservedShares DEF ReservedBy, ReservedIn
  <1>6. ReleasedGaps(u) = SumFunctionOnSet(g, OrderId)
    <2>1. T \in SUBSET OrderId /\ \A o \in T : gap[o] \in Int
      BY <1>2
    <2> HIDE DEF T
    <2>2. SumFunctionOnSet(gap, T) = SumFunctionOnSet(g, OrderId)
      BY <2>1, OrdersFinite, SumMasked
    <2>3. QED BY <2>2 DEF ReleasedGaps, gap, T
  <1> HIDE DEF f, g, h
  <1>7. SumFunctionOnSet(h, OrderId)
           = SumFunctionOnSet(f, OrderId) - SumFunctionOnSet(g, OrderId)
    BY <1>4, OrdersFinite, SumMinus
  <1>8. QED BY <1>5, <1>6, <1>7 DEF h, ClaimsIn

\* The counters are what ReservedBy says of the rows.
LEMMA BackedCounters ==
    ASSUME BookInv, AllUnitsBacked, AllCashBacked
    PROVE  ReservedCountersBacked
  <1>1. order \in [OrderId -> OrderType]
    BY DEF BookInv, BookTypeOK
  <1>2. \A p : ReservedBy(p, "SELL") = ReservedIn(order, p, "SELL")
    BY <1>1, ReservedShares DEF ReservedBy
  <1>3. \A u \in Users : ClaimsIn(order, u) = ReservedBy(u, "BUY") - ReleasedGaps(u)
    BY ReleasedParts
  <1>4. QED BY <1>2, <1>3 DEF AllUnitsBacked, AllCashBacked, UnitsBacked, CashBacked,
                              ReservedCountersBacked

\* Whatever the fees, both counters are the sums of the ACTIVE reservations behind
\* them, the counter of cash less what closed orders were released for beyond their
\* rows, although fills and releases compute their decrements from the order.
THEOREM CountersBacked == Spec => []ReservedCountersBacked
  <1>1. BookInv /\ AllUnitsBacked /\ AllCashBacked => ReservedCountersBacked
    BY BackedCounters
  <1>2. QED BY <1>1, BookInvariant, BackedInvariant, PTL

\* Without a taker fee the counter of reserved cash is exactly the sum of the ACTIVE
\* reservations.
THEOREM FreeCountersExact ==
    ASSUME TakerFeeBps = 0
    PROVE  Spec => [](\A u \in Users : reservedCash[u] = ReservedBy(u, "BUY"))
  <1>1. ASSUME BookInv, AllWithinRounding, AllCashBacked, NEW u \in Users
        PROVE  reservedCash[u] = ReservedBy(u, "BUY")
    <2>1. order \in [OrderId -> OrderType]
      BY <1>1 DEF BookInv, BookTypeOK
    <2>2. \A o \in OrderId : Claim(order, u, o) = Share(order, u, "BUY", o)
      <3> SUFFICES ASSUME NEW o \in OrderId, order[o].side = "BUY"
                   PROVE  Gap(order[o]) = 0
        BY DEF Claim, Share
      <3>1. QED BY <1>1 DEF AllWithinRounding, WithinRounding, Roundings
    <2>3. ClaimsIn(order, u) = ReservedIn(order, u, "BUY")
      BY <2>2 DEF ClaimsIn, ReservedIn
    <2>4. ReservedBy(u, "BUY") = ReservedIn(order, u, "BUY")
      BY <2>1, ReservedShares DEF ReservedBy
    <2>5. QED BY <1>1, <2>3, <2>4 DEF AllCashBacked, CashBacked
  <1>2. BookInv /\ AllWithinRounding /\ AllCashBacked
          => \A u \in Users : reservedCash[u] = ReservedBy(u, "BUY")
    BY <1>1
  <1>3. QED BY <1>2, BookInvariant, WithinRoundingInvariant, BackedInvariant, PTL

----------------------------------------------------------------------------
(* The totals *)

\* There are finitely many accounts.
LEMMA AccountsFinite == IsFiniteSet(Principals) /\ IsFiniteSet(CashAccounts)
  <1>1. IsFiniteSet(Principals)
    BY TradingAssumption, FS_AddElement DEF Principals
  <1>2. IsFiniteSet(CashAccounts)
    BY <1>1, FS_AddElement DEF CashAccounts
  <1>3. QED BY <1>1, <1>2

\* What a settlement moves between the accounts.
LEMMA SettledBalances ==
    ASSUME BookInv, BookInv', NEW c \in OrderId, MatchSettle(c)
    PROVE  LET n         == FillUnits(match.buy, match.sell)
               gross     == Gross(FillPrice(match.buy, match.sell), n)
               buyerFee  == BuyerFee(match.buy, match.sell)
               sellerFee == SellerFee(match.buy, match.sell)
               buyer     == order[match.buy].principal
               seller    == order[match.sell].principal
           IN  /\ n \in Nat \ {0} /\ gross \in Nat /\ buyerFee \in Nat /\ sellerFee \in Nat
               /\ buyer \in Principals /\ seller \in Principals /\ buyer # seller
               /\ cash'[buyer] = cash[buyer] - (gross + buyerFee)
               /\ cash'[seller] = cash[seller] + (gross - sellerFee)
               /\ cash'[FeeRevenue] = cash[FeeRevenue] + (buyerFee + sellerFee)
               /\ \A x \in CashAccounts \ {buyer, seller, FeeRevenue} : cash'[x] = cash[x]
               /\ settled'[buyer] = settled[buyer] + n
               /\ settled'[seller] = settled[seller] - n
               /\ \A x \in Principals \ {buyer, seller} : settled'[x] = settled[x]
  <1> DEFINE b == match.buy
             s == match.sell
             n == FillUnits(b, s)
             gross == Gross(FillPrice(b, s), n)
             buyer == order[b].principal
             seller == order[s].principal
             buyerFee == BuyerFee(b, s)
             sellerFee == SellerFee(b, s)
  <1>1. StillMatches(b, s) /\ match.caller = c /\ ~SelfTrade(b, s)
    BY DEF MatchSettle
  <1>2. /\ b \in OrderId /\ s \in OrderId
        /\ order[b] \in OrderType /\ order[s] \in OrderType
        /\ n \in Nat \ {0} /\ FillPrice(b, s) \in Nat
    BY <1>1, MatchedOrders
  <1>3. /\ buyer \in Principals /\ seller \in Principals /\ buyer # seller
        /\ FeeRevenue \notin Principals
        /\ buyer \in CashAccounts /\ seller \in CashAccounts /\ FeeRevenue \in CashAccounts
    BY <1>1, <1>2, TradingAssumption DEF OrderType, SelfTrade, CashAccounts
  <1>4. gross \in Nat
    BY <1>2, ReserveNat
  <1>5. buyerFee \in Nat /\ sellerFee \in Nat
    <2>1. MakerFeeBps \in Nat /\ TakerFeeBps \in Nat
      BY TradingAssumption
    <2>2. QED BY <1>4, <2>1, FeeNat DEF BuyerFee, SellerFee
  <1>6. /\ cash \in [CashAccounts -> Int] /\ cash' \in [CashAccounts -> Int]
        /\ settled \in [Principals -> Int] /\ settled' \in [Principals -> Int]
    BY DEF BookInv, BookTypeOK
  <1>7. /\ cash' = [cash EXCEPT ![buyer] = @ - (gross + buyerFee),
                                ![seller] = @ + (gross - sellerFee),
                                ![FeeRevenue] = @ + (buyerFee + sellerFee)]
        /\ settled' = [settled EXCEPT ![seller] = @ - n, ![buyer] = @ + n]
    BY DEF MatchSettle, CashAfter
  <1> HIDE DEF gross, n, buyer, seller, buyerFee, sellerFee
  <1>8. /\ cash'[buyer] = cash[buyer] - (gross + buyerFee)
        /\ cash'[seller] = cash[seller] + (gross - sellerFee)
        /\ cash'[FeeRevenue] = cash[FeeRevenue] + (buyerFee + sellerFee)
        /\ \A x \in CashAccounts \ {buyer, seller, FeeRevenue} : cash'[x] = cash[x]
    BY <1>3, <1>6, <1>7
  <1>9. /\ settled'[buyer] = settled[buyer] + n /\ settled'[seller] = settled[seller] - n
        /\ \A x \in Principals \ {buyer, seller} : settled'[x] = settled[x]
    BY <1>3, <1>6, <1>7
  <1>10. QED BY <1>2, <1>3, <1>4, <1>5, <1>8, <1>9
             DEF gross, n, buyer, seller, buyerFee, sellerFee

\* The journal of a settlement balances: its debit is its two credits.
LEMMA SettlementBalances ==
    ASSUME BookInv, BookInv', NEW c \in OrderId, MatchSettle(c)
    PROVE  /\ SumFunctionOnSet(cash', CashAccounts) = SumFunctionOnSet(cash, CashAccounts)
           /\ SumFunctionOnSet(settled', Principals) = SumFunctionOnSet(settled, Principals)
  <1> DEFINE n == FillUnits(match.buy, match.sell)
             gross == Gross(FillPrice(match.buy, match.sell), n)
             buyer == order[match.buy].principal
             seller == order[match.sell].principal
             buyerFee == BuyerFee(match.buy, match.sell)
             sellerFee == SellerFee(match.buy, match.sell)
  <1>1. /\ n \in Nat \ {0} /\ gross \in Nat /\ buyerFee \in Nat /\ sellerFee \in Nat
        /\ buyer \in Principals /\ seller \in Principals /\ buyer # seller
    BY SettledBalances
  <1>2. n \in Nat
    BY <1>1
  <1>3. /\ FeeRevenue \notin Principals
        /\ buyer \in CashAccounts /\ seller \in CashAccounts /\ FeeRevenue \in CashAccounts
    BY <1>1, TradingAssumption DEF CashAccounts
  <1>4. /\ cash \in [CashAccounts -> Int] /\ cash' \in [CashAccounts -> Int]
        /\ settled \in [Principals -> Int] /\ settled' \in [Principals -> Int]
    BY DEF BookInv, BookTypeOK
  <1>5. /\ cash'[buyer] = cash[buyer] - (gross + buyerFee)
        /\ cash'[seller] = cash[seller] + (gross - sellerFee)
        /\ cash'[FeeRevenue] = cash[FeeRevenue] + (buyerFee + sellerFee)
        /\ \A x \in CashAccounts \ {buyer, seller, FeeRevenue} : cash'[x] = cash[x]
    BY SettledBalances
  <1>6. /\ settled'[buyer] = settled[buyer] + n /\ settled'[seller] = settled[seller] - n
         /\ \A x \in Principals \ {buyer, seller} : settled'[x] = settled[x]
    BY SettledBalances
  <1> HIDE DEF gross, n, buyer, seller, buyerFee, sellerFee
  <1>7. SumFunctionOnSet(cash', CashAccounts) = SumFunctionOnSet(cash, CashAccounts)
           + (cash'[buyer] - cash[buyer]) + (cash'[seller] - cash[seller])
           + (cash'[FeeRevenue] - cash[FeeRevenue])
    BY <1>1, <1>3, <1>4, <1>5, AccountsFinite, SumChangeThree
  <1>8. /\ SumFunctionOnSet(cash, CashAccounts) \in Int
         /\ SumFunctionOnSet(settled, Principals) \in Int
    BY <1>4, AccountsFinite, SumInt
  <1>9. SumFunctionOnSet(settled', Principals) = SumFunctionOnSet(settled, Principals)
            + (settled'[buyer] - settled[buyer]) + (settled'[seller] - settled[seller])
    BY <1>1, <1>4, <1>6, AccountsFinite, SumChangeTwo
  <1>10. /\ cash[buyer] \in Int /\ cash[seller] \in Int /\ cash[FeeRevenue] \in Int
         /\ settled[buyer] \in Int /\ settled[seller] \in Int
    BY <1>1, <1>3, <1>4
  <1>11. SumFunctionOnSet(cash', CashAccounts) = SumFunctionOnSet(cash, CashAccounts)
    BY <1>1, <1>5, <1>7, <1>8, <1>10
  <1>12. SumFunctionOnSet(settled', Principals) = SumFunctionOnSet(settled, Principals)
    BY <1>2, <1>6, <1>8, <1>9, <1>10
  <1>13. QED BY <1>11, <1>12

Totals ==
    /\ SumFunctionOnSet(cash, CashAccounts) = SumFunctionOnSet(InitialCash, Users)
    /\ SumFunctionOnSet(settled, Principals) = SumFunctionOnSet(InitialUnits, Principals)

\* Cash and units are only ever moved between accounts: whatever fees, roundings,
\* self-trades and interrupted requests, the totals are those of the beginning.
THEOREM TotalsAreConserved == Spec => []TotalsConserved
  <1>1. ASSUME Init PROVE Totals
    <2>1. /\ cash = [a \in CashAccounts |-> IF a \in Users THEN InitialCash[a] ELSE 0]
          /\ settled = InitialUnits
      BY <1>1 DEF Init
    <2>2. Users \in SUBSET CashAccounts /\ \A u \in Users : InitialCash[u] \in Int
      BY TradingAssumption DEF CashAccounts, Principals
    <2>3. SumFunctionOnSet(InitialCash, Users) = SumFunctionOnSet(cash, CashAccounts)
      BY <2>1, <2>2, AccountsFinite, SumMasked
    <2>4. QED BY <2>1, <2>3 DEF Totals
  <1>2. ASSUME BookInv, Totals, [Next]_vars
        PROVE  Totals'
    <2>1. CASE SettlingStep
      BY <1>2, <2>1, BookStep, SettlementBalances DEF SettlingStep, Totals
    <2>2. CASE QuietStep \/ UNCHANGED vars
      BY <1>2, <2>2, QuietKeeps DEF Totals
    <2>3. CASE ClosingStep
      BY <1>2, <2>3 DEF ClosingStep, CloseAndRelease, Totals
    <2>4. CASE PlacingStep
      BY <1>2, <2>4 DEF PlacingStep, OpenOrder, Totals
    <2>5. QED BY <1>2, <2>1, <2>2, <2>3, <2>4, StepKinds
  <1>3. ASSUME BookInv, Totals PROVE TotalsConserved
    <2>1. /\ DOMAIN cash = CashAccounts /\ DOMAIN settled = Principals
          /\ DOMAIN InitialCash = Users /\ DOMAIN InitialUnits = Principals
      BY <1>3, TradingAssumption DEF BookInv, BookTypeOK
    <2>2. QED BY <1>3, <2>1 DEF Totals, TotalsConserved, SumFunction
  <1>4. QED BY <1>1, <1>2, <1>3, BookInvariant, PTL DEF Spec

----------------------------------------------------------------------------
(* Fills and executions *)

\* What execution e adds to the fills of order o.
Part(e, o) == IF o \in {e.buy, e.sell} THEN e.units ELSE 0

ExecutedOf(log, o) ==
    SumFunctionOnSet([i \in 1 .. Len(log) |-> Part(log[i], o)], 1 .. Len(log))

\* The sum over an order's executions is the sum of the parts of all of them.
LEMMA ExecutedParts ==
    ASSUME NEW log \in Seq(ExecutionType), NEW o
    PROVE  SumFunctionOnSet([i \in DOMAIN log |-> log[i].units],
               {i \in DOMAIN log : o \in {log[i].buy, log[i].sell}}) = ExecutedOf(log, o)
  <1> DEFINE S == 1 .. Len(log)
             f == [i \in S |-> log[i].units]
             T == {i \in S : o \in {log[i].buy, log[i].sell}}
             g == [i \in S |-> IF i \in T THEN f[i] ELSE 0]
  <1>1. DOMAIN log = S /\ IsFiniteSet(S)
    BY IntervalFinite
  <1>2. \A i \in T : f[i] \in Int
    <2>1. \A e \in ExecutionType : e.units \in Int
      BY DEF ExecutionType
    <2>2. \A i \in S : log[i] \in ExecutionType /\ f[i] = log[i].units
      OBVIOUS
    <2>3. QED BY <2>1, <2>2
  <1>3. g = [i \in S |-> Part(log[i], o)]
    BY DEF Part
  <1>4. T \in SUBSET S
    OBVIOUS
  <1> HIDE DEF f, T, S
  <1>5. SumFunctionOnSet(f, T) = SumFunctionOnSet(g, S)
    BY <1>1, <1>2, <1>4, SumMasked
  <1>6. QED BY <1>1, <1>3, <1>5 DEF f, T, S, ExecutedOf

\* One execution more.
LEMMA ExecutedAppend ==
    ASSUME NEW log \in Seq(ExecutionType), NEW e \in ExecutionType, NEW o
    PROVE  ExecutedOf(Append(log, e), o) = ExecutedOf(log, o) + Part(e, o)
  <1> DEFINE n == Len(log)
             f == [i \in 1 .. n |-> Part(log[i], o)]
             longer == Append(log, e)
             g == [i \in 1 .. (n + 1) |-> Part(longer[i], o)]
  <1>1. n \in Nat /\ Len(longer) = n + 1
    OBVIOUS
  <1>2. \A i \in 1 .. n : longer[i] = log[i] /\ log[i] \in ExecutionType
    OBVIOUS
  <1>3. longer[n + 1] = e
    OBVIOUS
  <1>4. \A x \in ExecutionType : Part(x, o) \in Int
    BY DEF Part, ExecutionType
  <1> HIDE DEF longer
  <1>5. /\ \A i \in 1 .. (n + 1) : g[i] \in Int
        /\ \A i \in 1 .. n : g[i] = f[i]
        /\ g[n + 1] = Part(e, o)
    <2>1. \A i \in 1 .. (n + 1) : longer[i] \in ExecutionType
      BY <1>1, <1>2, <1>3
    <2>2. \A i \in 1 .. (n + 1) : g[i] = Part(longer[i], o)
      OBVIOUS
    <2>3. n + 1 \in 1 .. (n + 1) /\ \A i \in 1 .. n : i \in 1 .. (n + 1)
      BY <1>1
    <2>4. QED BY <1>2, <1>3, <1>4, <2>1, <2>2, <2>3
  <1> HIDE DEF f, g, n
  <1>6. SumFunctionOnSet(g, 1 .. (n + 1)) = SumFunctionOnSet(g, 1 .. n) + g[n + 1]
    BY <1>1, <1>5, SumUpTo
  <1>7. SumFunctionOnSet(g, 1 .. n) = SumFunctionOnSet(f, 1 .. n)
    BY <1>1, <1>5, IntervalFinite, SumSame
  <1>8. QED BY <1>1, <1>5, <1>6, <1>7 DEF ExecutedOf, f, g, n, longer

FillsExplained == \A o \in OrderId : order[o].filled = ExecutedOf(executions, o)

\* Orders that a log does not mention have no parts in it.
LEMMA NoExecutions ==
    ASSUME NEW log \in Seq(ExecutionType), NEW o,
           \A i \in 1 .. Len(log) : log[i].buy # o /\ log[i].sell # o
    PROVE  ExecutedOf(log, o) = 0
  <1> DEFINE f == [i \in 1 .. Len(log) |-> Part(log[i], o)]
  <1>1. \A i \in 1 .. Len(log) : f[i] = 0
    BY DEF Part
  <1> HIDE DEF f
  <1>2. QED BY <1>1, IntervalFinite, SumZero DEF f, ExecutedOf

\* Every step moves the fills of the orders as it moves the executions.
LEMMA FillsStep ==
    ASSUME BookInv, UnplacedAhead, ExecutedPlaced, FillsExplained, [Next]_vars
    PROVE  FillsExplained'
  <1> SUFFICES ASSUME NEW q \in OrderId
               PROVE  order'[q].filled = ExecutedOf(executions', q)
    BY DEF FillsExplained
  <1>1. /\ order[q].filled = ExecutedOf(executions, q)
        /\ executions \in Seq(ExecutionType)
    BY DEF FillsExplained, BookInv, BookTypeOK
  <1>2. CASE order'[q] = order[q] /\ executions' = executions
    BY <1>1, <1>2
  <1>3. CASE QuietStep \/ UNCHANGED vars
    BY <1>2, <1>3, QuietKeeps
  <1>4. CASE ClosingStep
    <2>1. PICK o \in OrderId, status \in {"CANCELLED", "EXPIRED"} :
            Active(o) /\ CloseAndRelease(o, status)
      BY <1>4 DEF ClosingStep
    <2>2. executions' = executions
      BY <2>1 DEF CloseAndRelease
    <2>3. order'[q].filled = order[q].filled
      BY <2>1, Closing
    <2>4. QED BY <1>1, <2>2, <2>3
  <1>5. CASE PlacingStep
    <2>1. PICK p \in Principals, side \in {"BUY", "SELL"}, tif \in {"GTC", "IOC"},
               limit \in Nat, units \in Nat \ {0} :
            (side = "BUY" => p \in Users) /\ OpenOrder(p, side, tif, limit, units)
      BY <1>5 DEF PlacingStep
    <2>2. executions' = executions
      BY <2>1 DEF OpenOrder
    <2>3. CASE q = nextPriority
      <3>1. \A i \in 1 .. Len(executions) : executions[i].buy # q /\ executions[i].sell # q
        BY <1>1, <2>3 DEF ExecutedPlaced, OrderId
      <3>2. ExecutedOf(executions, q) = 0
        BY <1>1, <3>1, NoExecutions
      <3>3. QED BY <2>1, <2>2, <2>3, <3>2, Opening
    <2>4. CASE q # nextPriority
      BY <1>2, <2>1, <2>2, <2>4, Opening
    <2>5. QED BY <2>3, <2>4
  <1>6. CASE SettlingStep
    <2>1. PICK c \in OrderId : MatchSettle(c)
      BY <1>6 DEF SettlingStep
    <2> DEFINE b == match.buy
               s == match.sell
               u == FillUnits(b, s)
    <2>2. PICK e \in ExecutionType :
            executions' = Append(executions, e) /\ e.buy = b /\ e.sell = s /\ e.units = u
      BY <2>1, NewExecution
    <2>3. ExecutedOf(executions', q) = ExecutedOf(executions, q) + Part(e, q)
      BY <1>1, <2>2, ExecutedAppend
    <2>4. CASE q \in {b, s}
      <3>1. order'[q].filled = order[q].filled + u
        BY <2>1, <2>4, Settling DEF FillEffect
      <3>2. Part(e, q) = u
        BY <2>2, <2>4 DEF Part
      <3>3. QED BY <1>1, <2>3, <3>1, <3>2
    <2>5. CASE q \notin {b, s}
      <3>1. order'[q] = order[q]
        BY <2>1, <2>5, Settling
      <3>2. Part(e, q) = 0
        BY <2>2, <2>5 DEF Part
      <3>3. order[q].filled \in Nat
        BY DEF BookInv, BookTypeOK, OrderType
      <3>4. QED BY <1>1, <2>3, <3>1, <3>2, <3>3
    <2>6. QED BY <2>4, <2>5
  <1>7. QED BY <1>3, <1>4, <1>5, <1>6, StepKinds

\* However often an order is matched, refused, matched again or closed with units
\* left, the units it reports as filled are the sum of its execution rows.
LEMMA FillsInvariant == Spec => []FillsExplained
  <1>1. ASSUME Init PROVE FillsExplained
    <2>1. executions = << >> /\ executions \in Seq(ExecutionType)
      BY <1>1 DEF Init
    <2>2. ASSUME NEW o \in OrderId PROVE ExecutedOf(executions, o) = 0
      <3>1. \A i \in 1 .. Len(executions) : executions[i].buy # o /\ executions[i].sell # o
        BY <2>1
      <3>2. QED BY <2>1, <3>1, NoExecutions
    <2>3. \A o \in OrderId : order[o].filled = 0
      BY <1>1 DEF Init, Unplaced
    <2>4. QED BY <2>2, <2>3 DEF FillsExplained
  <1>2. BookInv /\ UnplacedAhead /\ ExecutedPlaced /\ FillsExplained /\ [Next]_vars
          => FillsExplained'
    BY FillsStep
  <1>3. QED BY <1>1, <1>2, BookInvariant, UnplacedAheadInvariant, ExecutionsInvariant,
               PTL DEF Spec

\* Every execution joins a BUY and a SELL of different principals at the older
\* order's limit, which both limits allow, and every order's filled units are the sum
\* of its executions.
THEOREM ExecutionsAreSound == Spec => []ExecutionsSound
  <1>1. ASSUME BookInv, AllExecutionsSound, FillsExplained
        PROVE  ExecutionsSound
    <2>1. \A o \in OrderId :
             order[o].filled = SumFunctionOnSet([i \in DOMAIN executions |-> executions[i].units],
                 {i \in DOMAIN executions : o \in {executions[i].buy, executions[i].sell}})
      BY <1>1, ExecutedParts DEF FillsExplained, BookInv, BookTypeOK
    <2>2. QED BY <1>1, <2>1 DEF AllExecutionsSound, ExecutionSound, ExecutionsSound
  <1>2. QED BY <1>1, BookInvariant, ExecutionsInvariant, FillsInvariant, PTL

----------------------------------------------------------------------------
(* FIFO lots *)

\* Every lot has units left, and a cost.
LEMMA LotFacts ==
    ASSUME NEW open \in Seq(Lot), NEW i \in 1 .. Len(open)
    PROVE  open[i] \in Lot /\ open[i].units \in Nat \ {0} /\ open[i].cost \in Nat
  <1>1. open[i] \in Lot
    OBVIOUS
  <1>2. QED BY <1>1 DEF Lot

\* The units of the oldest lots, one lot more at a time.
LEMMA OldestOneMore ==
    ASSUME NEW open \in Seq(Lot)
    PROVE  /\ OldestUnits(open, 0) = 0
           /\ \A k \in 0 .. Len(open) : OldestUnits(open, k) \in Nat
           /\ \A k \in 0 .. Len(open) - 1 :
                 OldestUnits(open, k + 1) = OldestUnits(open, k) + open[k + 1].units
           /\ OldestUnits(open, Len(open)) = LotUnits(open)
  <1> DEFINE f == [i \in DOMAIN open |-> open[i].units]
  <1>1. Len(open) \in Nat /\ DOMAIN open = 1 .. Len(open) /\ DOMAIN f = 1 .. Len(open)
    OBVIOUS
  <1>2. \A i \in 1 .. Len(open) : f[i] \in Nat /\ f[i] = open[i].units
    BY LotFacts
  <1>3. \A k : OldestUnits(open, k) = SumFunctionOnSet(f, 1 .. k)
    BY DEF OldestUnits
  <1> HIDE DEF f
  <1>4. OldestUnits(open, 0) = 0
    <2>1. 1 .. 0 = {}
      OBVIOUS
    <2>2. QED BY <1>3, <2>1, SumEmpty
  <1>5. ASSUME NEW k \in 0 .. Len(open) PROVE OldestUnits(open, k) \in Nat
    <2>1. IsFiniteSet(1 .. k) /\ \A i \in 1 .. k : f[i] \in Nat
      BY <1>1, <1>2, IntervalFinite
    <2>2. QED BY <1>3, <2>1, SumNat
  <1>6. ASSUME NEW k \in 0 .. Len(open) - 1
        PROVE  OldestUnits(open, k + 1) = OldestUnits(open, k) + open[k + 1].units
    <2>1. \A i \in 1 .. (k + 1) : f[i] \in Int
      BY <1>1, <1>2
    <2>2. SumFunctionOnSet(f, 1 .. (k + 1)) = SumFunctionOnSet(f, 1 .. k) + f[k + 1]
      BY <1>1, <2>1, SumUpTo
    <2>3. QED BY <1>1, <1>2, <1>3, <2>2
  <1>7. OldestUnits(open, Len(open)) = LotUnits(open)
    BY <1>1, <1>3 DEF LotUnits, SumFunction, f
  <1>8. QED BY <1>4, <1>5, <1>6, <1>7

\* More of the oldest lots hold no fewer units.
LEMMA OldestGrows ==
    ASSUME NEW open \in Seq(Lot), NEW k \in 0 .. Len(open), NEW j \in 0 .. k
    PROVE  OldestUnits(open, j) <= OldestUnits(open, k)
  <1> DEFINE U(i) == OldestUnits(open, i)
             Q == {i \in 0 .. Len(open) : \A h \in 0 .. i : U(h) <= U(i)}
  <1>1. /\ Len(open) \in Nat
        /\ \A i \in 0 .. Len(open) : U(i) \in Nat
        /\ \A i \in 0 .. Len(open) - 1 : U(i + 1) = U(i) + open[i + 1].units
    BY OldestOneMore
  <1>2. \A i \in 1 .. Len(open) : open[i].units \in Nat \ {0}
    BY LotFacts
  <1> HIDE DEF U
  <1>3. 0 \in Q
    BY <1>1
  <1>4. ASSUME NEW i \in Q, i < Len(open) PROVE i + 1 \in Q
    <2>1. U(i + 1) = U(i) + open[i + 1].units /\ open[i + 1].units \in Nat
      BY <1>1, <1>2, <1>4
    <2>2. /\ i \in Nat /\ i \in 0 .. Len(open) /\ i + 1 \in 0 .. Len(open)
          /\ U(i) \in Nat /\ U(i + 1) \in Nat
      BY <1>1, <1>4
    <2>3. ASSUME NEW h \in 0 .. (i + 1) PROVE U(h) <= U(i + 1)
      <3>1. CASE h = i + 1
        BY <2>2, <3>1
      <3>2. CASE h # i + 1
        <4>1. h \in 0 .. i /\ h \in 0 .. Len(open)
          BY <1>1, <2>2, <3>2
        <4>2. U(h) <= U(i) /\ U(h) \in Nat
          BY <1>1, <1>4, <4>1
        <4>3. QED BY <2>1, <2>2, <4>2
      <3>3. QED BY <3>1, <3>2
    <2>4. QED BY <2>2, <2>3
  <1>5. Q = 0 .. Len(open)
    BY <1>1, <1>3, <1>4, UpToInduction
  <1>6. QED BY <1>5 DEF U

\* A disposal empties the oldest lots, and all of them only if it takes everything.
LEMMA EmptiedLots ==
    ASSUME NEW open \in Seq(Lot), NEW n \in Nat
    PROVE  LET k == Emptied(open, n)
           IN  /\ k \in 0 .. Len(open)
               /\ OldestUnits(open, k) <= n
               /\ k < Len(open) => n < OldestUnits(open, k + 1)
  <1> DEFINE U(i) == OldestUnits(open, i)
             T == {i \in 0 .. Len(open) : i = Len(open) \/ n < U(i + 1)}
  <1>1. Len(open) \in Nat /\ U(0) = 0 /\ \A i \in 0 .. Len(open) : U(i) \in Nat
    BY OldestOneMore
  <1> HIDE DEF U
  <1>2. T \in SUBSET Nat /\ T # {}
    <2>1. Len(open) \in T
      BY <1>1
    <2>2. QED BY <1>1, <2>1
  <1>3. PICK k \in T : \A m \in T : k <= m
    BY <1>2, LeastNat
  <1>4. k \in 0 .. Len(open) /\ (k < Len(open) => n < U(k + 1))
    BY <1>1, <1>3
  <1>5. U(k) <= n
    <2>1. CASE k = 0
      BY <1>1, <2>1
    <2>2. CASE k # 0
      <3>1. k - 1 \in 0 .. Len(open) /\ k - 1 < Len(open) /\ (k - 1) + 1 = k /\ ~(k <= k - 1)
        BY <1>1, <1>4, <2>2
      <3>2. k - 1 \notin T
        BY <1>3, <3>1
      <3>3. ~(n < U(k))
        BY <3>1, <3>2
      <3>4. QED BY <1>1, <1>4, <3>3
    <2>3. QED BY <2>1, <2>2
  <1>6. \E i \in 0 .. Len(open) : U(i) <= n /\ (i < Len(open) => n < U(i + 1))
    BY <1>4, <1>5
  <1>7. QED BY <1>6 DEF Emptied, U

\* What each lot gives: the emptied ones everything, the next one the rest, the
\* younger ones nothing.
LEMMA UnitsTaken ==
    ASSUME NEW open \in Seq(Lot), NEW n \in Nat, NEW i \in 1 .. Len(open)
    PROVE  LET k == Emptied(open, n)
           IN  /\ i <= k => TakenFrom(open, n, i) = open[i].units
               /\ i = k + 1 => TakenFrom(open, n, i) = n - OldestUnits(open, k)
               /\ i > k + 1 => TakenFrom(open, n, i) = 0
               /\ i > k => TakenFrom(open, n, i) < open[i].units
               /\ TakenFrom(open, n, i) \in Nat
  <1> DEFINE U(j) == OldestUnits(open, j)
             k == Emptied(open, n)
  <1>1. /\ Len(open) \in Nat /\ k \in 0 .. Len(open) /\ U(k) <= n
        /\ k < Len(open) => n < U(k + 1)
        /\ \A j \in 0 .. Len(open) : U(j) \in Nat
    <2>1. Len(open) \in Nat /\ \A j \in 0 .. Len(open) : U(j) \in Nat
      BY OldestOneMore
    <2>2. /\ k \in 0 .. Len(open) /\ U(k) <= n
          /\ k < Len(open) => n < U(k + 1)
      BY EmptiedLots
    <2>3. QED BY <2>1, <2>2
  <1>2. open[i].units \in Nat \ {0}
    BY LotFacts
  <1>3. /\ i - 1 \in 0 .. Len(open) /\ U(i - 1) \in Nat
        /\ U(i) = U(i - 1) + open[i].units
    <2>1. i - 1 \in 0 .. Len(open) - 1 /\ (i - 1) + 1 = i
      BY <1>1
    <2>2. QED BY <1>1, <2>1, OldestOneMore
  <1>4. TakenFrom(open, n, i) = IF U(i - 1) >= n THEN 0
                                ELSE IF U(i) <= n THEN open[i].units ELSE n - U(i - 1)
    <2>1. TakenFrom(open, n, i) = CASE U(i - 1) >= n                   -> 0
                                    [] U(i - 1) + open[i].units <= n -> open[i].units
                                    [] OTHER                         -> n - U(i - 1)
      BY DEF TakenFrom
    <2> HIDE DEF U
    <2>2. CASE U(i - 1) >= n
      <3>1. ~(U(i - 1) + open[i].units <= n)
        BY <1>2, <1>3, <2>2
      <3>2. QED BY <2>1, <2>2, <3>1
    <2>3. CASE ~(U(i - 1) >= n)
      BY <1>3, <2>1, <2>3
    <2>4. QED BY <2>2, <2>3
  <1>5. i <= k => U(i) <= U(k)
    BY <1>1, OldestGrows
  <1>6. i > k + 1 => U(k + 1) <= U(i - 1) /\ k + 1 \in 0 .. Len(open)
    <2>1. ASSUME i > k + 1 PROVE k + 1 \in 0 .. (i - 1) /\ k + 1 \in 0 .. Len(open)
      BY <1>1, <2>1
    <2>2. QED BY <1>3, <2>1, OldestGrows
  <1> HIDE DEF U, k
  <1>7. /\ i <= k => TakenFrom(open, n, i) = open[i].units
        /\ i = k + 1 => TakenFrom(open, n, i) = n - U(k)
        /\ i > k + 1 => TakenFrom(open, n, i) = 0
        /\ i > k => TakenFrom(open, n, i) < open[i].units
        /\ TakenFrom(open, n, i) \in Nat
    <2>1. CASE i <= k
      BY <1>1, <1>2, <1>3, <1>4, <1>5, <2>1
    <2>2. CASE i = k + 1
      <3>1. i - 1 = k
        BY <1>1, <2>2
      <3>2. U(i - 1) <= n /\ n < U(i)
        BY <1>1, <2>2, <3>1
      <3>3. QED BY <1>1, <1>2, <1>3, <1>4, <2>2, <3>1, <3>2
    <2>3. CASE i > k + 1
      BY <1>1, <1>2, <1>3, <1>4, <1>6, <2>3
    <2>4. QED BY <1>1, <2>1, <2>2, <2>3
  <1>8. QED BY <1>7 DEF U, k

\* A lot gives no more cost than it has, and all of it when it is emptied.
LEMMA CostAllocated ==
    ASSUME NEW open \in Seq(Lot), NEW n \in Nat, NEW i \in 1 .. Len(open)
    PROVE  /\ AllocatedFrom(open, n, i) \in Nat
           /\ AllocatedFrom(open, n, i) <= open[i].cost
           /\ i <= Emptied(open, n) => AllocatedFrom(open, n, i) = open[i].cost
  <1> DEFINE c == open[i].cost
             u == open[i].units
             t == TakenFrom(open, n, i)
             k == Emptied(open, n)
  <1>1. /\ c \in Nat /\ u \in Nat \ {0} /\ t \in Nat
        /\ i <= k => t = u
        /\ i > k => t < u
        /\ k \in Nat
    <2>1. c \in Nat /\ u \in Nat \ {0}
      BY LotFacts
    <2>2. k \in 0 .. Len(open) /\ Len(open) \in Nat
      BY EmptiedLots
    <2>3. t \in Nat /\ (i <= k => t = u) /\ (i > k => t < u)
      BY UnitsTaken
    <2>4. QED BY <2>1, <2>2, <2>3
  <1>2. AllocatedFrom(open, n, i) = IF t = u THEN c ELSE (c * t) \div u
    BY DEF AllocatedFrom
  <1> HIDE DEF c, u, t, k
  <1>3. t < u => (c * t) \div u \in Nat /\ (c * t) \div u <= c
    <2> SUFFICES ASSUME t < u PROVE (c * t) \div u \in Nat /\ (c * t) \div u <= c
      OBVIOUS
    <2>1. c * t \in Nat /\ c * t <= c * u
      BY <1>1
    <2>2. QED BY <1>1, <2>1
  <1>4. /\ AllocatedFrom(open, n, i) \in Nat
        /\ AllocatedFrom(open, n, i) <= c
        /\ i <= k => AllocatedFrom(open, n, i) = c
    BY <1>1, <1>2, <1>3
  <1>5. QED BY <1>4 DEF c, k

\* What a disposal leaves: the lots it did not empty, each with units left.
LEMMA LotsLeft ==
    ASSUME NEW open \in Seq(Lot), NEW n \in Nat
    PROVE  LET k == Emptied(open, n)
               after == LotsAfter(open, n)
           IN  /\ after \in Seq(Lot)
               /\ Len(after) = Len(open) - k
               /\ \A j \in 1 .. Len(open) - k :
                     /\ after[j].units = open[k + j].units - TakenFrom(open, n, k + j)
                     /\ after[j].cost = open[k + j].cost - AllocatedFrom(open, n, k + j)
  <1> DEFINE k == Emptied(open, n)
             after == LotsAfter(open, n)
             row(i) == [units |-> open[i].units - TakenFrom(open, n, i),
                        cost  |-> open[i].cost - AllocatedFrom(open, n, i)]
             left == [i \in DOMAIN open |-> row(i)]
  <1>1. Len(open) \in Nat /\ DOMAIN open = 1 .. Len(open) /\ k \in 0 .. Len(open)
    BY EmptiedLots
  <1>2. after = SubSeq(left, k + 1, Len(open))
    BY DEF LotsAfter
  <1>3. ASSUME NEW i \in (k + 1) .. Len(open) PROVE left[i] \in Lot
    <2>1. i \in 1 .. Len(open) /\ i > k
      BY <1>1
    <2>2. /\ open[i].units - TakenFrom(open, n, i) \in Nat \ {0}
          /\ open[i].cost - AllocatedFrom(open, n, i) \in Nat
      <3>1. open[i].units \in Nat \ {0} /\ open[i].cost \in Nat
        BY <2>1, LotFacts
      <3>2. TakenFrom(open, n, i) \in Nat /\ TakenFrom(open, n, i) < open[i].units
        BY <2>1, UnitsTaken
      <3>3. AllocatedFrom(open, n, i) \in Nat /\ AllocatedFrom(open, n, i) <= open[i].cost
        BY <2>1, CostAllocated
      <3>4. QED BY <3>1, <3>2, <3>3
    <2>3. row(i) \in Lot
      BY <2>2 DEF Lot
    <2>4. left[i] = row(i)
      BY <1>1, <2>1
    <2>5. QED BY <2>3, <2>4
  <1>4. \A i \in 1 .. Len(open) : left[i] = row(i)
    BY <1>1
  <1> HIDE DEF left, k, after
  <1>5. /\ after \in Seq(Lot)
        /\ Len(after) = IF k + 1 <= Len(open) THEN Len(open) - (k + 1) + 1 ELSE 0
        /\ \A j \in 1 .. Len(open) - (k + 1) + 1 : after[j] = left[k + 1 + j - 1]
    BY <1>1, <1>2, <1>3, SubSeqProperties
  <1>6. Len(after) = Len(open) - k
    <2>1. Len(after) = IF k + 1 <= Len(open) THEN Len(open) - (k + 1) + 1 ELSE 0
      BY <1>5
    <2>2. \A m \in Nat : \A h \in 0 .. m :
             (IF h + 1 <= m THEN m - (h + 1) + 1 ELSE 0) = m - h
      OBVIOUS
    <2>3. QED BY <1>1, <2>1, <2>2
  <1>7. ASSUME NEW j \in 1 .. Len(open) - k PROVE after[j] = row(k + j)
    <2>1. j \in 1 .. Len(open) - (k + 1) + 1 /\ k + 1 + j - 1 = k + j /\ k + j \in 1 .. Len(open)
      BY <1>1
    <2>2. QED BY <1>4, <1>5, <2>1
  <1>8. \A j \in 1 .. Len(open) - k :
           /\ after[j].units = open[k + j].units - TakenFrom(open, n, k + j)
           /\ after[j].cost = open[k + j].cost - AllocatedFrom(open, n, k + j)
    <2> SUFFICES ASSUME NEW j \in 1 .. Len(open) - k
                 PROVE  /\ after[j].units = open[k + j].units - TakenFrom(open, n, k + j)
                        /\ after[j].cost = open[k + j].cost - AllocatedFrom(open, n, k + j)
      OBVIOUS
    <2>1. after[j] = row(k + j)
      BY <1>7
    <2>2. QED BY <2>1
  <1>9. QED BY <1>5, <1>6, <1>8 DEF k, after

\* Terms that are zero at the beginning can be left out.
LEMMA TailSum ==
    ASSUME NEW f, NEW g, NEW k \in Nat, NEW m \in Nat,
           \A i \in 1 .. (k + m) : f[i] \in Int,
           \A i \in 1 .. k : f[i] = 0,
           \A j \in 1 .. m : g[j] = f[k + j]
    PROVE  SumFunctionOnSet(g, 1 .. m) = SumFunctionOnSet(f, 1 .. (k + m))
  <1> DEFINE Q == {j \in 0 .. m :
                      SumFunctionOnSet(g, 1 .. j) = SumFunctionOnSet(f, 1 .. (k + j))}
  <1>1. 0 \in Q
    <2>1. SumFunctionOnSet(f, 1 .. k) = 0
      BY IntervalFinite, SumZero
    <2>2. 1 .. 0 = {} /\ k + 0 = k /\ 0 \in 0 .. m
      OBVIOUS
    <2>3. QED BY <2>1, <2>2, SumEmpty
  <1>2. ASSUME NEW j \in Q, j < m PROVE j + 1 \in Q
    <2>1. /\ \A i \in 1 .. (j + 1) : g[i] \in Int
          /\ \A i \in 1 .. ((k + j) + 1) : f[i] \in Int
          /\ g[j + 1] = f[(k + j) + 1] /\ k + (j + 1) = (k + j) + 1
      BY <1>2
    <2>2. SumFunctionOnSet(g, 1 .. (j + 1)) = SumFunctionOnSet(g, 1 .. j) + g[j + 1]
      BY <1>2, <2>1, SumUpTo
    <2>3. SumFunctionOnSet(f, 1 .. ((k + j) + 1)) =
             SumFunctionOnSet(f, 1 .. (k + j)) + f[(k + j) + 1]
      BY <1>2, <2>1, SumUpTo
    <2>4. SumFunctionOnSet(g, 1 .. (j + 1)) = SumFunctionOnSet(f, 1 .. (k + (j + 1)))
      BY <1>2, <2>1, <2>2, <2>3
    <2>5. QED BY <1>2, <2>4
  <1>3. Q = 0 .. m
    <2>1. Q \in SUBSET (0 .. m)
      OBVIOUS
    <2> HIDE DEF Q
    <2>2. QED BY <1>1, <1>2, <2>1, UpToInduction
  <1>4. m \in Q
    BY <1>3
  <1>5. QED BY <1>4

\* A disposal the lots can bear takes its units from them.
LEMMA AllTaken ==
    ASSUME NEW open \in Seq(Lot), NEW n \in Nat, n <= LotUnits(open)
    PROVE  SumFunctionOnSet([i \in 1 .. Len(open) |-> TakenFrom(open, n, i)], 1 .. Len(open)) = n
  <1> DEFINE U(j) == OldestUnits(open, j)
             k == Emptied(open, n)
             f == [i \in 1 .. Len(open) |-> TakenFrom(open, n, i)]
             Q == {j \in 0 .. Len(open) :
                      SumFunctionOnSet(f, 1 .. j) = IF j <= k THEN U(j) ELSE n}
  <1>1. /\ Len(open) \in Nat /\ U(0) = 0 /\ U(Len(open)) = LotUnits(open)
        /\ \A j \in 0 .. Len(open) : U(j) \in Nat
        /\ \A j \in 0 .. Len(open) - 1 : U(j + 1) = U(j) + open[j + 1].units
    BY OldestOneMore
  <1>2. k \in 0 .. Len(open) /\ U(k) <= n
    BY EmptiedLots
  <1>3. \A i \in 1 .. Len(open) :
           /\ f[i] \in Int
           /\ i <= k => f[i] = open[i].units
           /\ i = k + 1 => f[i] = n - U(k)
           /\ i > k + 1 => f[i] = 0
    BY UnitsTaken
  <1> HIDE DEF U, k, f, Q
  <1>4. 0 \in Q
    <2>1. 1 .. 0 = {} /\ 0 \in 0 .. Len(open) /\ 0 <= k
      BY <1>1, <1>2
    <2>2. QED BY <1>1, <2>1, SumEmpty DEF Q
  <1>5. ASSUME NEW j \in Q, j < Len(open) PROVE j + 1 \in Q
    <2>1. /\ j \in 0 .. Len(open) /\ j + 1 \in 1 .. Len(open) /\ j + 1 \in 0 .. Len(open)
          /\ SumFunctionOnSet(f, 1 .. j) = IF j <= k THEN U(j) ELSE n
      BY <1>1, <1>5 DEF Q
    <2>2. \A i \in 1 .. (j + 1) : f[i] \in Int
      BY <1>1, <1>3, <2>1
    <2>3. SumFunctionOnSet(f, 1 .. (j + 1)) = SumFunctionOnSet(f, 1 .. j) + f[j + 1]
      BY <2>1, <2>2, SumUpTo
    <2>4. U(j + 1) = U(j) + open[j + 1].units
      BY <1>1, <1>5, <2>1
    <2>5. SumFunctionOnSet(f, 1 .. (j + 1)) = IF j + 1 <= k THEN U(j + 1) ELSE n
      <3>1. CASE j + 1 <= k
        BY <1>2, <1>3, <2>1, <2>3, <2>4, <3>1
      <3>2. CASE j = k
        <4>1. f[j + 1] = n - U(k) /\ U(k) \in Nat
          BY <1>1, <1>2, <1>3, <2>1, <3>2
        <4>2. SumFunctionOnSet(f, 1 .. j) = U(k) /\ ~(j + 1 <= k)
          BY <1>2, <2>1, <3>2
        <4>3. QED BY <2>3, <4>1, <4>2
      <3>3. CASE j > k
        <4>1. f[j + 1] = 0 /\ SumFunctionOnSet(f, 1 .. j) = n /\ ~(j + 1 <= k)
          BY <1>2, <1>3, <2>1, <3>3
        <4>2. QED BY <2>3, <4>1
      <3>4. QED BY <1>2, <2>1, <3>1, <3>2, <3>3
    <2>6. QED BY <2>1, <2>5 DEF Q
  <1>6. Q = 0 .. Len(open)
    <2>1. Q \in SUBSET (0 .. Len(open))
      BY DEF Q
    <2>2. QED BY <1>1, <1>4, <1>5, <2>1, UpToInduction
  <1>7. SumFunctionOnSet(f, 1 .. Len(open)) = IF Len(open) <= k THEN U(Len(open)) ELSE n
    BY <1>1, <1>6 DEF Q
  <1>8. Len(open) <= k => U(Len(open)) = n
    <2>1. Len(open) <= k => Len(open) = k
      BY <1>1, <1>2
    <2>2. LotUnits(open) \in Nat
      BY <1>1
    <2>3. QED BY <1>1, <1>2, <2>1, <2>2
  <1>9. QED BY <1>7, <1>8 DEF f

\* A disposal takes its units, and the cost allocated to them, out of the lots.
LEMMA Disposal ==
    ASSUME NEW open \in Seq(Lot), NEW n \in Nat, n <= LotUnits(open)
    PROVE  /\ LotsAfter(open, n) \in Seq(Lot)
           /\ LotUnits(LotsAfter(open, n)) = LotUnits(open) - n
           /\ LotCost(LotsAfter(open, n)) = LotCost(open) - DisposedCost(open, n)
           /\ DisposedCost(open, n) \in Nat
  <1> DEFINE k == Emptied(open, n)
             after == LotsAfter(open, n)
             size == Len(open)
             S == 1 .. size
             units == [i \in S |-> open[i].units]
             taken == [i \in S |-> TakenFrom(open, n, i)]
             keptUnits == [i \in S |-> units[i] - taken[i]]
             cost == [i \in S |-> open[i].cost]
             given == [i \in S |-> AllocatedFrom(open, n, i)]
             keptCost == [i \in S |-> cost[i] - given[i]]
             newUnits == [j \in DOMAIN after |-> after[j].units]
             newCost == [j \in DOMAIN after |-> after[j].cost]
  <1>1. /\ size \in Nat /\ k \in 0 .. size /\ DOMAIN open = S /\ IsFiniteSet(S)
    BY EmptiedLots, IntervalFinite
  <1>2. after \in Seq(Lot) /\ Len(after) = size - k /\ DOMAIN after = 1 .. size - k
    BY LotsLeft
  <1>3. \A j \in 1 .. size - k : k + j \in S
    BY <1>1
  <1>4. \A j \in 1 .. size - k : /\ newUnits[j] = keptUnits[k + j]
                                 /\ newCost[j] = keptCost[k + j]
    <2> SUFFICES ASSUME NEW j \in 1 .. size - k
                 PROVE  newUnits[j] = keptUnits[k + j] /\ newCost[j] = keptCost[k + j]
      OBVIOUS
    <2>1. /\ after[j].units = open[k + j].units - TakenFrom(open, n, k + j)
          /\ after[j].cost = open[k + j].cost - AllocatedFrom(open, n, k + j)
      BY LotsLeft
    <2>2. newUnits[j] = after[j].units /\ newCost[j] = after[j].cost
      BY <1>2
    <2>3. /\ keptUnits[k + j] = open[k + j].units - TakenFrom(open, n, k + j)
          /\ keptCost[k + j] = open[k + j].cost - AllocatedFrom(open, n, k + j)
      BY <1>3
    <2>4. QED BY <2>1, <2>2, <2>3
  <1>5. \A i \in S : /\ units[i] \in Int /\ taken[i] \in Int
                     /\ keptUnits[i] = units[i] - taken[i] /\ keptUnits[i] \in Int
                     /\ i <= k => keptUnits[i] = 0
    <2> SUFFICES ASSUME NEW i \in S
                 PROVE  /\ units[i] \in Int /\ taken[i] \in Int
                        /\ keptUnits[i] = units[i] - taken[i] /\ keptUnits[i] \in Int
                        /\ i <= k => keptUnits[i] = 0
      OBVIOUS
    <2>1. units[i] = open[i].units /\ taken[i] = TakenFrom(open, n, i)
      OBVIOUS
    <2>2. open[i].units \in Nat
      BY LotFacts
    <2>3. TakenFrom(open, n, i) \in Nat /\ (i <= k => TakenFrom(open, n, i) = open[i].units)
      BY UnitsTaken
    <2>4. keptUnits[i] = units[i] - taken[i]
      OBVIOUS
    <2> HIDE DEF units, taken, keptUnits, k
    <2>5. QED BY <2>1, <2>2, <2>3, <2>4
  <1>6. \A i \in S : /\ cost[i] \in Int /\ given[i] \in Nat
                     /\ keptCost[i] = cost[i] - given[i] /\ keptCost[i] \in Int
                     /\ i <= k => keptCost[i] = 0
    <2> SUFFICES ASSUME NEW i \in S
                 PROVE  /\ cost[i] \in Int /\ given[i] \in Nat
                        /\ keptCost[i] = cost[i] - given[i] /\ keptCost[i] \in Int
                        /\ i <= k => keptCost[i] = 0
      OBVIOUS
    <2>1. cost[i] = open[i].cost /\ given[i] = AllocatedFrom(open, n, i)
      OBVIOUS
    <2>2. open[i].cost \in Nat
      BY LotFacts
    <2>3. /\ AllocatedFrom(open, n, i) \in Nat
          /\ i <= k => AllocatedFrom(open, n, i) = open[i].cost
      BY CostAllocated
    <2>4. keptCost[i] = cost[i] - given[i]
      OBVIOUS
    <2> HIDE DEF cost, given, keptCost, k
    <2>5. QED BY <2>1, <2>2, <2>3, <2>4
  <1>7. /\ LotUnits(open) = SumFunctionOnSet(units, S)
        /\ LotCost(open) = SumFunctionOnSet(cost, S)
        /\ DisposedCost(open, n) = SumFunctionOnSet(given, S)
    BY <1>1 DEF LotUnits, LotCost, DisposedCost, SumFunction
  <1>8. /\ LotUnits(after) = SumFunctionOnSet(newUnits, 1 .. size - k)
        /\ LotCost(after) = SumFunctionOnSet(newCost, 1 .. size - k)
    BY <1>2 DEF LotUnits, LotCost, SumFunction
  <1>9. SumFunctionOnSet(taken, S) = n
    BY AllTaken
  <1> HIDE DEF units, taken, keptUnits, cost, given, keptCost, newUnits, newCost, k, after, size
  <1>10. /\ SumFunctionOnSet(keptUnits, S) =
               SumFunctionOnSet(units, S) - SumFunctionOnSet(taken, S)
         /\ SumFunctionOnSet(keptCost, S) =
               SumFunctionOnSet(cost, S) - SumFunctionOnSet(given, S)
    <2>1. \A i \in S : /\ units[i] \in Int /\ taken[i] \in Int
                       /\ keptUnits[i] = units[i] - taken[i]
      BY <1>5
    <2>2. \A i \in S : /\ cost[i] \in Int /\ given[i] \in Int
                       /\ keptCost[i] = cost[i] - given[i]
      BY <1>6
    <2>3. IsFiniteSet(S)
      BY <1>1
    <2> HIDE DEF S
    <2>4. SumFunctionOnSet(keptUnits, S) =
             SumFunctionOnSet(units, S) - SumFunctionOnSet(taken, S)
      BY <2>1, <2>3, SumMinus
    <2>5. SumFunctionOnSet(keptCost, S) =
             SumFunctionOnSet(cost, S) - SumFunctionOnSet(given, S)
      BY <2>2, <2>3, SumMinus
    <2>6. QED BY <2>4, <2>5
  <1> DEFINE m == size - k
  <1>11. SumFunctionOnSet(newUnits, 1 .. size - k) = SumFunctionOnSet(keptUnits, 1 .. size)
    <2>1. \A i \in 1 .. k : keptUnits[i] = 0
      BY <1>1, <1>5
    <2>2. \A i \in 1 .. size : keptUnits[i] \in Int
      BY <1>5
    <2>3. \A j \in 1 .. m : newUnits[j] = keptUnits[k + j]
      BY <1>4
    <2>4. m \in Nat /\ k \in Nat /\ k + m = size
      BY <1>1
    <2> HIDE DEF S, m
    <2>5. SumFunctionOnSet(newUnits, 1 .. m) = SumFunctionOnSet(keptUnits, 1 .. (k + m))
      BY <2>1, <2>2, <2>3, <2>4, TailSum
    <2>6. QED BY <2>4, <2>5 DEF m
  <1>12. SumFunctionOnSet(newCost, 1 .. size - k) = SumFunctionOnSet(keptCost, 1 .. size)
    <2>1. \A i \in 1 .. k : keptCost[i] = 0
      BY <1>1, <1>6
    <2>2. \A i \in 1 .. size : keptCost[i] \in Int
      BY <1>6
    <2>3. \A j \in 1 .. m : newCost[j] = keptCost[k + j]
      BY <1>4
    <2>4. m \in Nat /\ k \in Nat /\ k + m = size
      BY <1>1
    <2> HIDE DEF S, m
    <2>5. SumFunctionOnSet(newCost, 1 .. m) = SumFunctionOnSet(keptCost, 1 .. (k + m))
      BY <2>1, <2>2, <2>3, <2>4, TailSum
    <2>6. QED BY <2>4, <2>5 DEF m
  <1>13. DisposedCost(open, n) \in Nat
    BY <1>1, <1>6, <1>7, SumNat
  <1>14. QED BY <1>2, <1>7, <1>8, <1>9, <1>10, <1>11, <1>12, <1>13 DEF after

\* A lot more.
LEMMA LotAdded ==
    ASSUME NEW open \in Seq(Lot), NEW new \in Lot
    PROVE  /\ Append(open, new) \in Seq(Lot)
           /\ LotUnits(Append(open, new)) = LotUnits(open) + new.units
           /\ LotCost(Append(open, new)) = LotCost(open) + new.cost
  <1> DEFINE n == Len(open)
             longer == Append(open, new)
             f == [i \in DOMAIN open |-> open[i].units]
             g == [i \in DOMAIN longer |-> longer[i].units]
             c == [i \in DOMAIN open |-> open[i].cost]
             d == [i \in DOMAIN longer |-> longer[i].cost]
  <1>1. /\ n \in Nat /\ longer \in Seq(Lot) /\ Len(longer) = n + 1
        /\ DOMAIN open = 1 .. n /\ DOMAIN longer = 1 .. (n + 1)
        /\ \A i \in 1 .. n : longer[i] = open[i]
        /\ longer[n + 1] = new
    OBVIOUS
  <1>2. \A i \in 1 .. (n + 1) : g[i] \in Int /\ d[i] \in Int
    <2> SUFFICES ASSUME NEW i \in 1 .. (n + 1) PROVE g[i] \in Int /\ d[i] \in Int
      OBVIOUS
    <2>1. longer[i].units \in Nat /\ longer[i].cost \in Nat
      BY <1>1, LotFacts
    <2>2. QED BY <1>1, <2>1
  <1>3. \A i \in 1 .. n : g[i] = f[i] /\ d[i] = c[i]
    BY <1>1
  <1>4. g[n + 1] = new.units /\ d[n + 1] = new.cost
    BY <1>1
  <1>5. /\ LotUnits(open) = SumFunctionOnSet(f, 1 .. n)
        /\ LotCost(open) = SumFunctionOnSet(c, 1 .. n)
        /\ LotUnits(longer) = SumFunctionOnSet(g, 1 .. (n + 1))
        /\ LotCost(longer) = SumFunctionOnSet(d, 1 .. (n + 1))
    BY <1>1 DEF LotUnits, LotCost, SumFunction
  <1> HIDE DEF f, g, c, d, n, longer
  <1>6. /\ SumFunctionOnSet(g, 1 .. (n + 1)) = SumFunctionOnSet(g, 1 .. n) + g[n + 1]
        /\ SumFunctionOnSet(d, 1 .. (n + 1)) = SumFunctionOnSet(d, 1 .. n) + d[n + 1]
    BY <1>1, <1>2, SumUpTo
  <1>7. /\ SumFunctionOnSet(g, 1 .. n) = SumFunctionOnSet(f, 1 .. n)
        /\ SumFunctionOnSet(d, 1 .. n) = SumFunctionOnSet(c, 1 .. n)
    BY <1>1, <1>3, IntervalFinite, SumSame
  <1>8. QED BY <1>1, <1>4, <1>5, <1>6, <1>7 DEF longer

\* Lots hold numbers of units, at a cost.
LEMMA LotTotals ==
    ASSUME NEW open \in Seq(Lot)
    PROVE  LotUnits(open) \in Nat /\ LotCost(open) \in Nat
  <1> DEFINE f == [i \in DOMAIN open |-> open[i].units]
             c == [i \in DOMAIN open |-> open[i].cost]
  <1>1. DOMAIN open = 1 .. Len(open) /\ IsFiniteSet(1 .. Len(open))
    BY IntervalFinite
  <1>2. \A i \in 1 .. Len(open) : f[i] \in Nat /\ c[i] \in Nat
    BY LotFacts
  <1>3. /\ LotUnits(open) = SumFunctionOnSet(f, 1 .. Len(open))
        /\ LotCost(open) = SumFunctionOnSet(c, 1 .. Len(open))
    BY <1>1 DEF LotUnits, LotCost, SumFunction
  <1> HIDE DEF f, c
  <1>4. QED BY <1>1, <1>2, <1>3, SumNat

----------------------------------------------------------------------------
(* Lots, positions and realised profit *)

LotsTyped == lots \in [Users -> Seq(Lot)] /\ realized \in [Users -> Int]

\* What a settlement makes of the lots and of the realised profit.
LEMMA SettledLots ==
    ASSUME BookInv, BookInv', LotsTyped, NEW c \in OrderId, MatchSettle(c), NEW u \in Users
    PROVE  LET n         == FillUnits(match.buy, match.sell)
               gross     == Gross(FillPrice(match.buy, match.sell), n)
               buyerFee  == BuyerFee(match.buy, match.sell)
               sellerFee == SellerFee(match.buy, match.sell)
               buyer     == order[match.buy].principal
               seller    == order[match.sell].principal
               disposed  == DisposedCost(lots[u], n)
           IN  /\ lots'[u] \in Seq(Lot) /\ realized'[u] \in Int
               /\ u = buyer =>
                     /\ LotUnits(lots'[u]) = LotUnits(lots[u]) + n
                     /\ LotCost(lots'[u]) = LotCost(lots[u]) + (gross + buyerFee)
                     /\ realized'[u] = realized[u]
               /\ u = seller =>
                     /\ LotUnits(lots'[u]) = LotUnits(lots[u]) - n
                     /\ LotCost(lots'[u]) = LotCost(lots[u]) - disposed
                     /\ realized'[u] = realized[u] + gross - sellerFee - disposed
                     /\ disposed \in Nat
               /\ u \notin {buyer, seller} => lots'[u] = lots[u] /\ realized'[u] = realized[u]
  <1> DEFINE b == match.buy
             s == match.sell
             n == FillUnits(b, s)
             gross == Gross(FillPrice(b, s), n)
             buyer == order[b].principal
             seller == order[s].principal
             buyerFee == BuyerFee(b, s)
             sellerFee == SellerFee(b, s)
             new == BoughtLot(b, s)
             disposed == DisposedCost(lots[u], n)
  <1>1. /\ n \in Nat \ {0} /\ gross \in Nat /\ buyerFee \in Nat /\ sellerFee \in Nat
        /\ buyer # seller
    BY SettledBalances
  <1>2. lots[u] \in Seq(Lot) /\ realized \in [Users -> Int]
    BY DEF LotsTyped
  <1>3. seller \in Users => n <= LotUnits(lots[seller])
    <2>1. LotsSettle(b, s)
      BY DEF MatchSettle, Settles
    <2>2. ASSUME seller \in Users PROVE LotUnits(lots[seller]) >= n
      BY <2>1, <2>2 DEF LotsSettle, CanDispose
    <2>3. ASSUME seller \in Users PROVE LotUnits(lots[seller]) \in Nat
      BY <2>3, LotTotals DEF LotsTyped
    <2>4. QED BY <1>1, <2>2, <2>3
  <1>4. lots'[u] = CASE u = buyer  -> Append(lots[u], new)
                     [] u = seller -> LotsAfter(lots[u], n)
                     [] OTHER      -> lots[u]
    BY DEF MatchSettle, TradedLots
  <1>5. new \in Lot /\ new.units = n /\ new.cost = gross + buyerFee
    <2>1. new = [units |-> n, cost |-> gross + buyerFee]
      BY DEF BoughtLot
    <2> HIDE DEF n, gross, buyerFee, new
    <2>2. gross + buyerFee \in Nat
      BY <1>1
    <2>3. QED BY <1>1, <2>1, <2>2 DEF Lot
  <1>6. realized' = IF seller \in Users
                    THEN [realized EXCEPT ![seller] =
                             @ + gross - sellerFee - DisposedCost(lots[seller], n)]
                    ELSE realized
    BY DEF MatchSettle
  <1> HIDE DEF n, gross, buyer, seller, buyerFee, sellerFee, new
  <1>7. CASE u = buyer
    <2>1. lots'[u] = Append(lots[u], new)
      BY <1>1, <1>4, <1>7
    <2>2. /\ lots'[u] \in Seq(Lot)
          /\ LotUnits(lots'[u]) = LotUnits(lots[u]) + n
          /\ LotCost(lots'[u]) = LotCost(lots[u]) + (gross + buyerFee)
      BY <1>2, <1>5, <2>1, LotAdded
    <2>3. realized'[u] = realized[u] /\ realized[u] \in Int
      BY <1>1, <1>2, <1>6, <1>7
    <2>4. QED BY <1>1, <1>7, <2>2, <2>3
              DEF n, gross, buyer, seller, buyerFee, sellerFee
  <1>8. CASE u = seller
    <2>1. lots'[u] = LotsAfter(lots[u], n)
      BY <1>1, <1>4, <1>8
    <2>2. n \in Nat /\ n <= LotUnits(lots[u])
      BY <1>1, <1>3, <1>8
    <2>3. /\ lots'[u] \in Seq(Lot)
          /\ LotUnits(lots'[u]) = LotUnits(lots[u]) - n
          /\ LotCost(lots'[u]) = LotCost(lots[u]) - disposed
          /\ disposed \in Nat
      BY <1>2, <2>1, <2>2, Disposal
    <2> HIDE DEF disposed
    <2>4. realized'[u] = realized[u] + gross - sellerFee - disposed /\ realized[u] \in Int
      BY <1>2, <1>6, <1>8 DEF disposed
    <2>5. realized'[u] \in Int
      BY <1>1, <2>3, <2>4
    <2>6. QED BY <1>1, <1>8, <2>3, <2>4, <2>5
              DEF n, gross, buyer, seller, buyerFee, sellerFee, disposed
  <1>9. CASE u \notin {buyer, seller}
    <2>1. lots'[u] = lots[u]
      BY <1>4, <1>9
    <2>2. realized'[u] = realized[u] /\ realized[u] \in Int
      BY <1>2, <1>6, <1>9
    <2>3. QED BY <1>2, <1>9, <2>1, <2>2 DEF buyer, seller
  <1>10. QED BY <1>7, <1>8, <1>9

\* Lots and realised profit keep their types: the disposals of every trade leave
\* lots with units and a cost.
LEMMA LotsTypedStep ==
    ASSUME BookInv, BookInv', LotsTyped, [Next]_vars
    PROVE  LotsTyped'
  <1>1. CASE QuietStep \/ UNCHANGED vars
    BY <1>1, QuietKeeps DEF LotsTyped
  <1>2. CASE ClosingStep
    BY <1>2 DEF ClosingStep, CloseAndRelease, LotsTyped
  <1>3. CASE PlacingStep
    BY <1>3 DEF PlacingStep, OpenOrder, LotsTyped
  <1>4. CASE SettlingStep
    <2>1. PICK c \in OrderId : MatchSettle(c)
      BY <1>4 DEF SettlingStep
    <2>2. \A u \in Users : lots'[u] \in Seq(Lot) /\ realized'[u] \in Int
      BY <2>1, SettledLots
    <2>3. lots' = [u \in Users |-> lots'[u]]
      BY <2>1 DEF MatchSettle, TradedLots
    <2>4. PICK x : \/ realized' = realized
                   \/ realized' = [realized EXCEPT ![order[match.sell].principal] = x]
      BY <2>1 DEF MatchSettle
    <2>5. realized' = [u \in Users |-> realized'[u]]
      BY <2>4 DEF LotsTyped
    <2>6. QED BY <2>2, <2>3, <2>5 DEF LotsTyped
  <1>5. QED BY <1>1, <1>2, <1>3, <1>4, StepKinds

\* The lots customers begin with.
LEMMA FirstLots ==
    ASSUME NEW u \in Users
    PROVE  InitialLots(u) \in Seq(Lot) /\ LotUnits(InitialLots(u)) = InitialUnits[u]
  <1> DEFINE n == InitialUnits[u]
             new == [units |-> n, cost |-> Gross(IssuePrice, n)]
  <1>1. n \in Nat /\ Gross(IssuePrice, n) \in Nat
    BY TradingAssumption, ProductNat DEF Principals, Gross
  <1>2. << >> \in Seq(Lot) /\ LotUnits(<< >>) = 0
    <2>1. << >> \in Seq(Lot) /\ Len(<< >>) = 0
      OBVIOUS
    <2>2. QED BY <2>1, OldestOneMore
  <1>3. CASE n = 0
    BY <1>2, <1>3 DEF InitialLots
  <1>4. CASE n # 0
    <2>1. InitialLots(u) = <<new>> /\ <<new>> = Append(<< >>, new)
      BY <1>4 DEF InitialLots
    <2>2. new \in Lot /\ new.units = n
      BY <1>1, <1>4 DEF Lot
    <2> HIDE DEF new, n
    <2>3. /\ InitialLots(u) \in Seq(Lot)
          /\ LotUnits(InitialLots(u)) = LotUnits(<< >>) + new.units
      BY <1>2, <2>1, <2>2, LotAdded
    <2>4. QED BY <1>1, <1>2, <2>2, <2>3 DEF n
  <1>5. QED BY <1>3, <1>4

\* So they have them in every state.
LEMMA LotsTypedInvariant == Spec => []LotsTyped
  <1>1. Init => LotsTyped
    BY FirstLots DEF Init, LotsTyped
  <1>2. BookInv /\ LotsTyped /\ [Next]_vars => LotsTyped'
    BY BookStep, LotsTypedStep
  <1>3. QED BY <1>1, <1>2, BookInvariant, PTL DEF Spec

\* Whatever is traded in whatever portions, a customer's open lots hold exactly the
\* settled units of the position: first-in-first-out disposal loses none.
THEOREM LotsFollowPositions == Spec => []LotsMatchPositions
  <1>1. Init => LotsMatchPositions
    BY FirstLots DEF Init, LotsMatchPositions
  <1>2. ASSUME BookInv, LotsTyped, LotsMatchPositions, [Next]_vars
        PROVE  LotsMatchPositions'
    <2>1. CASE QuietStep \/ UNCHANGED vars
      BY <1>2, <2>1, QuietKeeps DEF LotsMatchPositions
    <2>2. CASE ClosingStep
      BY <1>2, <2>2 DEF ClosingStep, CloseAndRelease, LotsMatchPositions
    <2>3. CASE PlacingStep
      BY <1>2, <2>3 DEF PlacingStep, OpenOrder, LotsMatchPositions
    <2>4. CASE SettlingStep
      <3>1. PICK c \in OrderId : MatchSettle(c)
        BY <2>4 DEF SettlingStep
      <3> SUFFICES ASSUME NEW u \in Users PROVE LotUnits(lots'[u]) = settled'[u]
        BY DEF LotsMatchPositions
      <3> DEFINE n == FillUnits(match.buy, match.sell)
                 buyer == order[match.buy].principal
                 seller == order[match.sell].principal
      <3>2. BookInv'
        BY <1>2, BookStep
      <3>3. /\ u = buyer => LotUnits(lots'[u]) = LotUnits(lots[u]) + n
            /\ u = seller => LotUnits(lots'[u]) = LotUnits(lots[u]) - n
            /\ u \notin {buyer, seller} => lots'[u] = lots[u]
        BY <1>2, <3>1, <3>2, SettledLots
      <3>4. /\ u = buyer => settled'[u] = settled[u] + n
            /\ u = seller => settled'[u] = settled[u] - n
            /\ u \notin {buyer, seller} => settled'[u] = settled[u]
        BY <1>2, <3>1, <3>2, SettledBalances DEF Principals
      <3>5. LotUnits(lots[u]) = settled[u]
        BY <1>2 DEF LotsMatchPositions
      <3> HIDE DEF n, buyer, seller
      <3>6. QED BY <3>3, <3>4, <3>5
    <2>5. QED BY <1>2, <2>1, <2>2, <2>3, <2>4, StepKinds
  <1>3. QED BY <1>1, <1>2, BookInvariant, LotsTypedInvariant, PTL DEF Spec

\* Ledger, lots and fees agree to the penny: every change of a customer's cash is
\* realised profit or a change of the cost of the open lots.
THEOREM CashIsExplained == Spec => []CashExplainedByLots
  <1>1. ASSUME Init PROVE CashExplainedByLots
    <2> SUFFICES ASSUME NEW u \in Users
                 PROVE  cash[u] - InitialCash[u] =
                           realized[u] - (LotCost(lots[u]) - LotCost(InitialLots(u)))
      BY DEF CashExplainedByLots
    <2>1. /\ cash[u] = InitialCash[u] /\ realized[u] = 0 /\ lots[u] = InitialLots(u)
          /\ InitialCash[u] \in Nat
      BY <1>1, TradingAssumption DEF Init, CashAccounts, Principals
    <2>2. LotCost(InitialLots(u)) \in Nat
      BY FirstLots, LotTotals
    <2>3. QED BY <2>1, <2>2
  <1>2. ASSUME BookInv, LotsTyped, CashExplainedByLots, [Next]_vars
        PROVE  CashExplainedByLots'
    <2>1. CASE QuietStep \/ UNCHANGED vars
      BY <1>2, <2>1, QuietKeeps DEF CashExplainedByLots
    <2>2. CASE ClosingStep
      BY <1>2, <2>2 DEF ClosingStep, CloseAndRelease, CashExplainedByLots
    <2>3. CASE PlacingStep
      BY <1>2, <2>3 DEF PlacingStep, OpenOrder, CashExplainedByLots
    <2>4. CASE SettlingStep
      <3>1. PICK c \in OrderId : MatchSettle(c)
        BY <2>4 DEF SettlingStep
      <3> SUFFICES ASSUME NEW u \in Users
                   PROVE  cash'[u] - InitialCash[u] =
                             realized'[u] - (LotCost(lots'[u]) - LotCost(InitialLots(u)))
        BY DEF CashExplainedByLots
      <3> DEFINE n == FillUnits(match.buy, match.sell)
                 gross == Gross(FillPrice(match.buy, match.sell), n)
                 buyerFee == BuyerFee(match.buy, match.sell)
                 sellerFee == SellerFee(match.buy, match.sell)
                 buyer == order[match.buy].principal
                 seller == order[match.sell].principal
                 disposed == DisposedCost(lots[u], n)
      <3>2. BookInv'
        BY <1>2, BookStep
      <3>3. /\ u = buyer => /\ LotCost(lots'[u]) = LotCost(lots[u]) + (gross + buyerFee)
                            /\ realized'[u] = realized[u]
            /\ u = seller => /\ LotCost(lots'[u]) = LotCost(lots[u]) - disposed
                             /\ realized'[u] = realized[u] + gross - sellerFee - disposed
                             /\ disposed \in Nat
            /\ u \notin {buyer, seller} => lots'[u] = lots[u] /\ realized'[u] = realized[u]
        BY <1>2, <3>1, <3>2, SettledLots
      <3>4. /\ gross \in Nat /\ buyerFee \in Nat /\ sellerFee \in Nat
            /\ u = buyer => cash'[u] = cash[u] - (gross + buyerFee)
            /\ u = seller => cash'[u] = cash[u] + (gross - sellerFee)
        BY <1>2, <3>1, <3>2, SettledBalances
      <3>5. u \in CashAccounts /\ u # FeeRevenue
        BY TradingAssumption DEF CashAccounts, Principals
      <3>6. u \notin {buyer, seller} => cash'[u] = cash[u]
        BY <1>2, <3>1, <3>2, <3>5, SettledBalances
      <3>7. /\ cash[u] - InitialCash[u] =
                   realized[u] - (LotCost(lots[u]) - LotCost(InitialLots(u)))
            /\ cash[u] \in Int /\ InitialCash[u] \in Int /\ realized[u] \in Int
            /\ LotCost(lots[u]) \in Int /\ LotCost(InitialLots(u)) \in Int
        <4>1. cash[u] - InitialCash[u] =
                 realized[u] - (LotCost(lots[u]) - LotCost(InitialLots(u)))
          BY <1>2 DEF CashExplainedByLots
        <4>2. cash[u] \in Int /\ InitialCash[u] \in Int /\ realized[u] \in Int
          BY <1>2, <3>5, TradingAssumption DEF BookInv, BookTypeOK, LotsTyped
        <4>3. lots[u] \in Seq(Lot)
          BY <1>2 DEF LotsTyped
        <4>4. LotCost(lots[u]) \in Nat /\ LotCost(InitialLots(u)) \in Nat
          BY <4>3, FirstLots, LotTotals
        <4>5. QED BY <4>1, <4>2, <4>4
      <3> HIDE DEF n, gross, buyerFee, sellerFee, buyer, seller, disposed
      <3>8. QED BY <3>3, <3>4, <3>6, <3>7
    <2>5. QED BY <1>2, <2>1, <2>2, <2>3, <2>4, StepKinds
  <1>3. QED BY <1>1, <1>2, BookInvariant, LotsTypedInvariant, PTL DEF Spec

----------------------------------------------------------------------------
(* Types *)

OutboxTyped == outbox \subseteq EventType

\* Every step appends well-formed events only.
LEMMA OutboxStep ==
    ASSUME BookInv, OutboxTyped, [Next]_vars
    PROVE  OutboxTyped'
  <1>1. CASE outbox' = outbox
    BY <1>1 DEF OutboxTyped
  <1>2. ASSUME NEW p, NEW side, NEW tif, NEW limit, NEW units,
               OpenOrder(p, side, tif, limit, units)
        PROVE  OutboxTyped'
    <2>1. /\ outbox' = outbox \cup {Event("order.opened", nextPriority, 0)}
          /\ nextPriority \in OrderId
      BY <1>2 DEF OpenOrder
    <2>2. QED BY <2>1 DEF OutboxTyped, Event, EventType
  <1>3. ASSUME NEW o \in OrderId, Cancel(o) \/ Expire(o)
        PROVE  OutboxTyped'
    BY <1>3 DEF Cancel, Expire, OutboxTyped, Event, EventType
  <1>4. ASSUME NEW c \in OrderId, MatchSettle(c)
        PROVE  OutboxTyped'
    <2> DEFINE b == match.buy
               s == match.sell
               n == FillUnits(b, s)
               seq == Len(executions) + 1
    <2>1. b \in OrderId /\ s \in OrderId
      BY <1>4, MatchedOrders DEF MatchSettle
    <2>2. seq \in Nat
      BY DEF BookInv, BookTypeOK
    <2>3. outbox' = outbox \cup {Event("trade.completed", 0, seq),
                                 FillEvent(b, n, seq), FillEvent(s, n, seq)}
      BY <1>4 DEF MatchSettle
    <2> HIDE DEF b, s, n, seq
    <2>4. \A o \in OrderId : FillEvent(o, n, seq) \in EventType
      BY <2>2 DEF FillEvent, Event, EventType
    <2>5. Event("trade.completed", 0, seq) \in EventType
      BY <2>2 DEF Event, EventType
    <2>6. QED BY <2>1, <2>3, <2>4, <2>5 DEF OutboxTyped
  <1>5. CASE UNCHANGED vars
    BY <1>1, <1>5 DEF vars
  <1>6. CASE \/ \E u \in Users, side \in {"BUY", "SELL"}, tif \in TimesInForce,
                  limit \in Prices, units \in Quantities : Place(u, side, tif, limit, units)
             \/ \E units \in Quantities : PlaceTreasuryListing(units)
    BY <1>2, <1>6 DEF Place, PlaceTreasuryListing
  <1>7. CASE \/ \E c \in Interruptible : Interrupt(c)
             \/ \E c \in OrderId : Replay(c)
             \/ \E status \in {"OPEN", "HALTED"}, expected \in OperatorExpects :
                   SetMarketStatus(status, expected)
             \/ \E u \in Suspendable : ToggleSuspension(u)
             \/ \E u \in Holdable : ToggleHold(u)
    BY <1>1, <1>7 DEF Interrupt, Replay, SetMarketStatus, ToggleSuspension, ToggleHold
  <1>8. ASSUME NEW c \in OrderId, RequestStep(c)
        PROVE  OutboxTyped'
    <2>1. CASE MatchSettle(c)
      BY <1>4, <2>1
    <2>2. CASE ~MatchSettle(c)
      BY <1>1, <1>8, <2>2 DEF RequestStep, MatchSelect, MatchRefused, MatchStale,
                              MatchSelfTrade, MatchThrows, CancelIocRemainder
    <2>3. QED BY <2>1, <2>2
  <1>9. QED BY <1>3, <1>5, <1>6, <1>7, <1>8 DEF Next

\* Every variable always has its type, whatever is traded: in particular the lots,
\* which never keep a row without units nor a negative cost.
THEOREM TradingTypes == Spec => []TypeOK
  <1>1. Init => OutboxTyped
    BY DEF Init, OutboxTyped
  <1>2. BookInv /\ OutboxTyped /\ [Next]_vars => OutboxTyped'
    BY OutboxStep
  <1>3. BookInv /\ LotsTyped /\ OutboxTyped => TypeOK
    BY DEF BookInv, LotsTyped, OutboxTyped, TypeOK
  <1>4. QED BY <1>1, <1>2, <1>3, BookInvariant, LotsTypedInvariant, PTL DEF Spec

----------------------------------------------------------------------------
(* The head of the book *)

\* Only customers buy.
CustomersBuy == \A o \in OrderId : order[o].side = "BUY" => order[o].principal \in Users

\* The Treasury places sells only, and no later step changes an order's side.
LEMMA CustomersBuyInvariant == Spec => []CustomersBuy
  <1>1. Init => CustomersBuy
    BY DEF Init, CustomersBuy, Unplaced
  <1>2. ASSUME BookInv, CustomersBuy, [Next]_vars
        PROVE  CustomersBuy'
    <2> SUFFICES ASSUME NEW q \in OrderId, order'[q].side = "BUY"
                 PROVE  order'[q].principal \in Users
      BY DEF CustomersBuy
    <2>1. CASE order'[q].side = order[q].side /\ order'[q].principal = order[q].principal
      BY <1>2, <2>1 DEF CustomersBuy
    <2>2. CASE QuietStep \/ UNCHANGED vars
      BY <2>1, <2>2, QuietKeeps
    <2>3. CASE ClosingStep
      <3>1. PICK o \in OrderId, status \in {"CANCELLED", "EXPIRED"} :
              Active(o) /\ CloseAndRelease(o, status)
        BY <2>3 DEF ClosingStep
      <3>2. QED BY <1>2, <2>1, <3>1, Closing
    <2>4. CASE PlacingStep
      <3>1. PICK p \in Principals, side \in {"BUY", "SELL"}, tif \in {"GTC", "IOC"},
                 limit \in Nat, units \in Nat \ {0} :
              (side = "BUY" => p \in Users) /\ OpenOrder(p, side, tif, limit, units)
        BY <2>4 DEF PlacingStep
      <3>2. QED BY <1>2, <2>1, <3>1, Opening
    <2>5. CASE SettlingStep
      <3>1. PICK c \in OrderId : MatchSettle(c)
        BY <2>5 DEF SettlingStep
      <3>2. QED BY <1>2, <2>1, <3>1, Settling
    <2>6. QED BY <1>2, <2>2, <2>3, <2>4, <2>5, StepKinds
  <1>3. QED BY <1>1, <1>2, BookInvariant, PTL DEF Spec

\* A sell order's units are no more than all that its owner has reserved.
LEMMA UnitsWithin ==
    ASSUME BookInv, UnitReservationsExact, NEW o \in OrderId, Active(o), order[o].side = "SELL"
    PROVE  order[o].remaining <= ReservedIn(order, order[o].principal, "SELL")
  <1> DEFINE p == order[o].principal
             f == [q \in OrderId |-> Share(order, p, "SELL", q)]
  <1>1. \A q \in OrderId : order[q].remaining \in Nat
    BY DEF BookInv, BookTypeOK, OrderType
  <1>2. \A q \in OrderId : f[q] \in Nat
    BY <1>1 DEF UnitReservationsExact, Share
  <1>3. f[o] = order[o].remaining
    BY DEF UnitReservationsExact, Share
  <1> HIDE DEF f
  <1>4. f[o] <= SumFunctionOnSet(f, OrderId)
    BY <1>2, OrdersFinite, SumNat
  <1>5. QED BY <1>3, <1>4 DEF f, ReservedIn

\* What order o of a table can still cost customer p.
Worst(table, p, o) ==
    IF /\ table[o].principal = p
       /\ table[o].side = "BUY"
       /\ table[o].reservation.status = "ACTIVE"
    THEN BuyReserve(table[o].limit, table[o].remaining) ELSE 0

WorstIn(table, p) == SumFunctionOnSet([o \in OrderId |-> Worst(table, p, o)], OrderId)

\* A worst case is a natural number, the order's claim and its gap together.
LEMMA WorstParts ==
    ASSUME BookInv, NEW p, NEW o \in OrderId
    PROVE  /\ Worst(order, p, o) \in Nat
           /\ Claim(order, p, o) = Worst(order, p, o) - GapOf(order, p, o)
  <1>1. order[o] \in OrderType
    BY DEF BookInv, BookTypeOK
  <1>2. /\ order[o].limit \in Nat /\ order[o].remaining \in Nat
        /\ order[o].reservation.amount \in Int
    BY <1>1 DEF OrderType, ReservationType
  <1>3. BuyReserve(order[o].limit, order[o].remaining) \in Nat
    BY <1>2, ReserveNat
  <1>4. QED BY <1>2, <1>3 DEF Worst, Claim, GapOf, Gap

\* A customer's active buy orders can cost him what his counter says, and a penny more
\* at most for each of his purchases.
LEMMA WorstWithin ==
    ASSUME BookInv, AllCashBacked, AllGapsBounded, NEW p \in Users
    PROVE  WorstIn(order, p) <= reservedCash[p] + Roundings(Purchases(p))
  <1> DEFINE f == [o \in OrderId |-> Worst(order, p, o)]
             g == [o \in OrderId |-> GapOf(order, p, o)]
             h == [o \in OrderId |-> Claim(order, p, o)]
  <1>1. order \in [OrderId -> OrderType] /\ reservedCash[p] \in Int
    BY DEF BookInv, BookTypeOK
  <1>2. \A o \in OrderId : f[o] \in Int /\ g[o] \in Int /\ h[o] = f[o] - g[o]
    BY <1>1, WorstParts, GapOfInt
  <1> HIDE DEF f, g, h
  <1>3. SumFunctionOnSet(h, OrderId)
           = SumFunctionOnSet(f, OrderId) - SumFunctionOnSet(g, OrderId)
    BY <1>2, OrdersFinite, SumMinus
  <1>4. SumFunctionOnSet(f, OrderId) \in Int /\ SumFunctionOnSet(g, OrderId) \in Int
    BY <1>2, OrdersFinite, SumInt
  <1>5. /\ WorstIn(order, p) = SumFunctionOnSet(f, OrderId)
        /\ GapsOf(order, p) = SumFunctionOnSet(g, OrderId)
        /\ reservedCash[p] = SumFunctionOnSet(h, OrderId)
    BY DEF f, g, h, WorstIn, GapsOf, ClaimsIn, AllCashBacked, CashBacked
  <1>6. GapsOf(order, p) <= Roundings(Purchases(p)) /\ Roundings(Purchases(p)) \in Nat
    BY CountsNat, RoundingsGrow DEF AllGapsBounded, GapsBounded, Principals
  <1>7. QED BY <1>1, <1>3, <1>4, <1>5, <1>6

\* A part of the units needs no more cash than all of them.
LEMMA ReservePart ==
    ASSUME NEW limit \in Nat, NEW m \in Nat, NEW n \in Nat, m <= n
    PROVE  BuyReserve(limit, m) <= BuyReserve(limit, n)
  <1>1. /\ Gross(limit, m) \in Nat /\ Gross(limit, n) \in Nat
        /\ Gross(limit, m) <= Gross(limit, n)
    BY ProductNat, ProductMonotone DEF Gross
  <1>2. TakerFeeBps \in Nat
    BY TradingAssumption
  <1>3. FeeMinor(Gross(limit, m), TakerFeeBps) <= FeeMinor(Gross(limit, n), TakerFeeBps)
    BY <1>1, <1>2, FeeMonotone
  <1>4. /\ FeeMinor(Gross(limit, m), TakerFeeBps) \in Nat
        /\ FeeMinor(Gross(limit, n), TakerFeeBps) \in Nat
    BY <1>1, <1>2, FeeNat
  <1>5. QED BY <1>1, <1>3, <1>4 DEF BuyReserve

\* When reservations are backed, what a matching transaction has locked passes the
\* checks of units and lots, and fails those of cash by roundings at most.
LEMMA HeadSettles ==
    ASSUME BookInv, UnitReservationsExact, AllWithinRounding, AllGapsBounded, CustomersBuy,
           AllUnitsBacked, AllCashBacked, UnitsCovered, LotsMatchPositions,
           match # NoMatch, MatchedPair, StillMatches(match.buy, match.sell)
    PROVE  LET b     == match.buy
               buyer == order[b].principal
               taken == ReserveReduction(b, match.sell)
           IN  /\ OwnershipSettles(b, match.sell)
               /\ LotsSettle(b, match.sell)
               /\ order[b].reservation.status = "ACTIVE"
               /\ order[b].reservation.amount >= taken - Roundings(BuyFills(b))
               /\ reservedCash[buyer] >= taken - Roundings(Purchases(buyer))
  <1> DEFINE b == match.buy
             s == match.sell
             n == FillUnits(b, s)
             taken == ReserveReduction(b, s)
             buyer == order[b].principal
             seller == order[s].principal
             held_b == order[b].reservation.amount
             held_s == order[s].reservation.amount
             worst == BuyReserve(order[b].limit, order[b].remaining)
             gap == Gap(order[b])
  <1>1. /\ b \in OrderId /\ s \in OrderId /\ Active(b) /\ Active(s)
        /\ order[b].side = "BUY" /\ order[s].side = "SELL"
        /\ order[b] \in OrderType /\ order[s] \in OrderType
    BY DEF MatchedPair, StillMatches, BookInv, BookTypeOK
  <1>2. /\ order[b].remaining \in Nat \ {0} /\ order[s].remaining \in Nat \ {0}
        /\ order[b].limit \in Nat /\ held_b \in Int
    BY <1>1 DEF BookInv, OrderEquation, Placed, Active, ActiveStatuses, OrderType,
                ReservationType
  <1>3. n \in Nat \ {0} /\ n <= order[b].remaining /\ n <= order[s].remaining
    BY <1>2 DEF FillUnits, LesserOf
  <1>4. /\ buyer \in Users /\ seller \in Principals
    BY <1>1 DEF CustomersBuy, OrderType
  <1>5. /\ order[b].reservation.status = "ACTIVE" /\ order[s].reservation.status = "ACTIVE"
        /\ held_s = order[s].remaining
    BY <1>1 DEF UnitReservationsExact
  <1>6. /\ taken \in Nat /\ worst \in Nat /\ taken <= worst
    <2>1. n \in Nat /\ order[b].remaining \in Nat
      BY <1>2, <1>3
    <2>2. QED BY <1>2, <1>3, <2>1, ReserveNat, ReservePart DEF ReserveReduction
  <1>7. gap = worst - held_b /\ gap <= Roundings(BuyFills(b))
    BY <1>1 DEF AllWithinRounding, WithinRounding, Gap
  <1>8. Roundings(BuyFills(b)) \in Nat /\ Roundings(Purchases(buyer)) \in Nat
    BY CountsNat, RoundingsGrow
  <1>9. worst <= WorstIn(order, buyer)
    <2> DEFINE f == [o \in OrderId |-> Worst(order, buyer, o)]
    <2>1. \A o \in OrderId : f[o] \in Nat
      BY WorstParts
    <2>2. f[b] = worst
      BY <1>1, <1>5 DEF Worst
    <2> HIDE DEF f
    <2>3. f[b] <= SumFunctionOnSet(f, OrderId)
      BY <1>1, <2>1, OrdersFinite, SumNat
    <2>4. QED BY <2>2, <2>3 DEF f, WorstIn
  <1>10. WorstIn(order, buyer) <= reservedCash[buyer] + Roundings(Purchases(buyer))
    BY <1>4, WorstWithin
  <1>11. WorstIn(order, buyer) \in Int
    <2> DEFINE f == [o \in OrderId |-> Worst(order, buyer, o)]
    <2>1. \A o \in OrderId : f[o] \in Int
      BY WorstParts
    <2> HIDE DEF f
    <2>2. QED BY <2>1, OrdersFinite, SumInt DEF f, WorstIn
  <1>12. held_s <= reservedUnits[seller]
    BY <1>1, <1>4, <1>5, UnitsWithin DEF AllUnitsBacked, UnitsBacked
  <1>13. /\ reservedCash[buyer] \in Int /\ reservedUnits[seller] \in Int
         /\ settled[seller] \in Int /\ reservedUnits[seller] <= settled[seller]
    BY <1>4 DEF BookInv, BookTypeOK, UnitsCovered
  <1>14. seller \in Users => LotUnits(lots[seller]) = settled[seller]
    BY DEF LotsMatchPositions
  <1> HIDE DEF n, taken, worst, gap, held_b, held_s, buyer, seller
  <1>15. OwnershipSettles(b, s)
    <2>1. settled[seller] >= n /\ reservedUnits[seller] >= n /\ held_s >= n
      BY <1>2, <1>3, <1>5, <1>12, <1>13
    <2>2. QED BY <1>5, <2>1 DEF OwnershipSettles, n, held_s, seller
  <1>16. LotsSettle(b, s)
    <2>1. seller \in Users => n > 0 /\ LotUnits(lots[seller]) >= n
      BY <1>2, <1>3, <1>5, <1>12, <1>13, <1>14
    <2>2. QED BY <2>1 DEF LotsSettle, CanDispose, n, seller
  <1>17. held_b >= taken - Roundings(BuyFills(b))
    BY <1>2, <1>6, <1>7, <1>8
  <1>18. reservedCash[buyer] >= taken - Roundings(Purchases(buyer))
    BY <1>6, <1>8, <1>9, <1>10, <1>11, <1>13
  <1>19. QED BY <1>5, <1>15, <1>16, <1>17, <1>18 DEF taken, held_b, buyer

\* The best pair of the book always has the units and the lots it needs, and the
\* buyer's reservation and counter fall short by at most a penny for each earlier fill
\* of the order and of the customer: without a fee, or for a first purchase, no sequence
\* of fills, cancellations and disposals leaves a head of the book that cannot settle.
THEOREM HeadAlwaysSettles == Spec => []HeadOfBookSettles
  <1>1. BookInv => MatchedPair
    BY DEF BookInv
  <1>2. /\ BookInv /\ UnitReservationsExact /\ AllWithinRounding /\ AllGapsBounded
        /\ CustomersBuy /\ AllUnitsBacked /\ AllCashBacked /\ UnitsCovered
        /\ LotsMatchPositions
        => HeadOfBookSettles
    BY <1>1, HeadSettles DEF HeadOfBookSettles
  <1>3. QED BY <1>2, BookInvariant, ReservationsExact, WithinRoundingInvariant,
               GapsBoundedInvariant, CustomersBuyInvariant, BackedInvariant,
               UnitsStayCovered, LotsFollowPositions, PTL

\* An active order can always be released: releaseRemainder never throws, so that every
\* cancellation of a customer, every expiry and every IOC remainder goes through once its
\* other guards hold.  (The part of AlwaysCancellable that is not about ENABLED.)
THEOREM ReleasesGoThrough == Spec => [](\A o \in OrderId : Active(o) => CanRelease(o))
  <1>1. ASSUME BookInv, UnitReservationsExact, AllUnitsBacked,
               NEW o \in OrderId, Active(o), order[o].side = "SELL"
        PROVE  reservedUnits[order[o].principal] >= order[o].remaining
    <2> DEFINE p == order[o].principal
    <2>1. /\ p \in Principals /\ order[o].remaining \in Int
          /\ reservedUnits \in [Principals -> Int]
      <3>1. order \in [OrderId -> OrderType] /\ reservedUnits \in [Principals -> Int]
        BY <1>1 DEF BookInv, BookTypeOK
      <3>2. order[o] \in OrderType
        BY <3>1
      <3>3. QED BY <3>1, <3>2 DEF OrderType
    <2>2. order[o].remaining <= reservedUnits[p]
      BY <1>1, <2>1, UnitsWithin DEF AllUnitsBacked, UnitsBacked
    <2> HIDE DEF p
    <2>3. reservedUnits[p] \in Int
      BY <2>1
    <2>4. reservedUnits[p] >= order[o].remaining
      BY <2>1, <2>2, <2>3
    <2>5. QED BY <2>4 DEF p
  <1>2. BookInv /\ UnitReservationsExact /\ AllUnitsBacked
          => \A o \in OrderId : Active(o) => CanRelease(o)
    BY <1>1 DEF CanRelease
  <1>3. QED BY <1>2, BookInvariant, ReservationsExact, BackedInvariant, PTL

----------------------------------------------------------------------------
(* The market as its customers see it *)

\* What the market shows of an order.
Shown(row) == [principal |-> row.principal, side |-> row.side,
               limit |-> row.limit, remaining |-> row.remaining]

\* The book that Trading shows of itself: the expression Market is given for it.
Book == [o \in ActiveBuys \cup ActiveSells |->
            [principal |-> order[o].principal, side |-> order[o].side,
             limit |-> order[o].limit, remaining |-> order[o].remaining]]

\* The book has the active orders.
LEMMA BookHas ==
    ASSUME BookInv
    PROVE  /\ DOMAIN Book = {o \in OrderId : Active(o)}
           /\ \A o \in DOMAIN Book : Book[o] = Shown(order[o])
  <1>1. \A o \in OrderId : order[o].side \in {"BUY", "SELL"}
    BY DEF BookInv, BookTypeOK, OrderType
  <1>2. ActiveBuys \cup ActiveSells = {o \in OrderId : Active(o)}
    BY <1>1 DEF ActiveBuys, ActiveSells
  <1>3. QED BY <1>2 DEF Book, Shown

\* The book after a step has the orders active then.
LEMMA NextBookHas ==
    ASSUME BookInv'
    PROVE  /\ DOMAIN Book' = {o \in OrderId : Active(o)'}
           /\ \A o \in DOMAIN Book' : Book'[o] = Shown(order'[o])
  <1>1. \A o \in OrderId : order'[o].side \in {"BUY", "SELL"}
    BY DEF BookInv, BookTypeOK, OrderType
  <1>2. (ActiveBuys \cup ActiveSells)' = {o \in OrderId : Active(o)'}
    BY <1>1 DEF ActiveBuys, ActiveSells
  <1>3. QED BY <1>2 DEF Book, Shown

\* The purchases that Trading shows: the expression Market is given for them.
Bought == [p \in Principals |-> Purchases(p)]

\* An activated market shows an empty book.
LEMMA MarketInit == Init => Market!Init
  <1> SUFFICES ASSUME Init PROVE Market!Init
    OBVIOUS
  <1>1. Book = << >>
    <2>1. DOMAIN Book = {}
      BY DEF Init, Unplaced, Book, ActiveBuys, ActiveSells, Active, ActiveStatuses
    <2>2. QED BY <2>1 DEF Book
  <1>2. nextPriority - 1 = 0
    BY DEF Init
  <1>3. /\ settled = InitialUnits
        /\ cash = [a \in Principals \cup {FeeRevenue} |-> IF a \in Users THEN InitialCash[a] ELSE 0]
    BY DEF Init, CashAccounts
  <1>4. Bought = [p \in Principals |-> 0]
    <2> SUFFICES ASSUME NEW p PROVE Purchases(p) = 0
      BY DEF Bought
    <2>1. {i \in DOMAIN executions : order[executions[i].buy].principal = p} = {}
      BY DEF Init
    <2>2. QED BY <2>1, FS_EmptySet DEF Purchases
  <1>5. QED BY <1>1, <1>2, <1>3, <1>4
            DEF Market!Init, Market!Principals, Principals, Book, Bought

\* A step that changes neither orders nor balances shows nothing.
LEMMA ShowsNothing ==
    ASSUME UNCHANGED <<nextPriority, order, executions, cash, settled>>
    PROVE  UNCHANGED Market!bookVars
  BY DEF Market!bookVars, ActiveBuys, ActiveSells, Active, Purchases

\* Purchases show only when an execution is added.
LEMMA BoughtStays ==
    ASSUME BookInv, ExecutedPlaced, [Next]_vars, executions' = executions
    PROVE  Bought' = Bought
  <1>1. \A p : Purchases(p)' = Purchases(p)
    BY CountsStay
  <1>2. QED BY <1>1 DEF Bought

\* Closing an order takes it out of the book.
LEMMA ClosingLeaves ==
    ASSUME BookInv, BookInv', ExecutedPlaced, [Next]_vars, NEW o \in OrderId, Active(o),
           NEW status \in {"CANCELLED", "EXPIRED"}, CloseAndRelease(o, status)
    PROVE  Market!Leave
  <1>1. /\ \A q \in OrderId \ {o} : order'[q] = order[q]
        /\ order'[o].status = status
    BY Closing
  <1>2. \A q \in OrderId : Active(q)' <=> Active(q) /\ q # o
    BY <1>1 DEF Active, ActiveStatuses
  <1>3. DOMAIN Book' = DOMAIN Book \ {o} /\ o \in DOMAIN Book
    BY <1>2, BookHas, NextBookHas
  <1>4. \A q \in DOMAIN Book' : Book'[q] = Book[q]
    BY <1>1, <1>3, BookHas, NextBookHas
  <1>5. Book' = [q \in DOMAIN Book' |-> Book'[q]]
    BY DEF Book
  <1>6. Book' = [q \in DOMAIN Book \ {o} |-> Book[q]]
    BY <1>3, <1>4, <1>5
  <1>7. UNCHANGED <<nextPriority, cash, settled, Bought>>
    BY BoughtStays DEF CloseAndRelease
  <1>8. \E q \in DOMAIN Book : Book' = [r \in DOMAIN Book \ {q} |-> Book[r]]
    BY <1>3, <1>6
  <1>9. QED BY <1>7, <1>8 DEF Market!Leave, Market!Without, Book, Bought

\* Exchange has its own copy of the library's sum.
LEMMA SameSum ==
    ASSUME NEW f, NEW S
    PROVE  Market!SumFunctionOnSet(f, S) = SumFunctionOnSet(f, S)
BY DEF Market!SumFunctionOnSet, Market!FoldFunctionOnSet, Market!MapThenFoldSet,
       SumFunctionOnSet, FoldFunctionOnSet, MapThenFoldSet

\* What the market derives from the book as committed are the worst cases of the buy
\* orders and what the rows of the sell orders reserve.
LEMMA Committed ==
    ASSUME BookInv, UnitReservationsExact, NEW p
    PROVE  /\ Market!CommittedCash(p) = WorstIn(order, p)
           /\ Market!CommittedUnits(p) = ReservedIn(order, p, "SELL")
  <1> DEFINE Of(side) == {o \in OrderId : Active(o) /\ order[o].side = side
                                          /\ order[o].principal = p}
             f == [o \in DOMAIN Book |-> BuyReserve(Book[o].limit, Book[o].remaining)]
             g == [o \in DOMAIN Book |-> Book[o].remaining]
             allF == [o \in OrderId |-> IF o \in Of("BUY") THEN f[o] ELSE 0]
             allG == [o \in OrderId |-> IF o \in Of("SELL") THEN g[o] ELSE 0]
  <1>1. /\ DOMAIN Book = {o \in OrderId : Active(o)}
        /\ \A o \in DOMAIN Book : Book[o] = Shown(order[o])
    BY BookHas
  <1>2. \A o \in Of("BUY") : /\ f[o] = BuyReserve(order[o].limit, order[o].remaining)
                             /\ f[o] = Worst(order, p, o)
    <2> SUFFICES ASSUME NEW o \in Of("BUY")
                 PROVE  /\ f[o] = BuyReserve(order[o].limit, order[o].remaining)
                        /\ order[o].reservation.status = "ACTIVE"
      BY DEF Worst
    <2>1. f[o] = BuyReserve(order[o].limit, order[o].remaining)
      BY <1>1 DEF Shown
    <2>2. QED BY <2>1 DEF UnitReservationsExact
  <1>3. \A o \in Of("SELL") : /\ g[o] = order[o].reservation.amount
                              /\ order[o].reservation.status = "ACTIVE"
    <2> SUFFICES ASSUME NEW o \in Of("SELL")
                 PROVE  /\ g[o] = order[o].reservation.amount
                        /\ order[o].reservation.status = "ACTIVE"
      OBVIOUS
    <2>1. g[o] = order[o].remaining
      BY <1>1 DEF Shown
    <2>2. QED BY <2>1 DEF UnitReservationsExact
  <1>4. \A o \in OrderId : order[o].reservation.amount \in Int
    BY DEF BookInv, BookTypeOK, OrderType, ReservationType
  <1>5. /\ \A o \in OrderId : allF[o] = Worst(order, p, o)
        /\ \A o \in OrderId : allG[o] = Share(order, p, "SELL", o)
    BY <1>2, <1>3 DEF Worst, Share, UnitReservationsExact
  <1>6. /\ allF = [o \in OrderId |-> Worst(order, p, o)]
        /\ allG = [o \in OrderId |-> Share(order, p, "SELL", o)]
    BY <1>5
  <1>7. /\ Market!CommittedCash(p) = SumFunctionOnSet(f, Of("BUY"))
        /\ Market!CommittedUnits(p) = SumFunctionOnSet(g, Of("SELL"))
    <2>1. \A side : {o \in {q \in DOMAIN Book : Book[q].side = side} : Book[o].principal = p}
                      = Of(side)
      BY <1>1 DEF Shown
    <2>2. \A limit, n : Market!Reserve(limit, n) = BuyReserve(limit, n)
      BY DEF Market!Reserve, Market!Gross, Market!FeeMinor, BuyReserve, Gross, FeeMinor
    <2>3. f = [o \in DOMAIN Book |-> Market!Reserve(Book[o].limit, Book[o].remaining)]
      BY <2>2
    <2>4. \A side : Market!Resting(side) = {q \in DOMAIN Book : Book[q].side = side}
      BY DEF Market!Resting, Book
    <2>5. Market!CommittedCash(p) =
             SumFunctionOnSet([o \in DOMAIN Book |-> Market!Reserve(Book[o].limit, Book[o].remaining)],
                              {o \in Market!Resting("BUY") : Book[o].principal = p})
      BY SameSum DEF Market!CommittedCash, Book
    <2>6. Market!CommittedUnits(p) =
             SumFunctionOnSet([o \in DOMAIN Book |-> Book[o].remaining],
                              {o \in Market!Resting("SELL") : Book[o].principal = p})
      BY SameSum DEF Market!CommittedUnits, Book
    <2>7. /\ {o \in Market!Resting("BUY") : Book[o].principal = p} = Of("BUY")
          /\ {o \in Market!Resting("SELL") : Book[o].principal = p} = Of("SELL")
      BY <2>1, <2>4
    <2>8. QED BY <2>3, <2>5, <2>6, <2>7
  <1>8. /\ Of("BUY") \in SUBSET OrderId /\ Of("SELL") \in SUBSET OrderId
        /\ \A o \in Of("BUY") : f[o] \in Int
        /\ \A o \in Of("SELL") : g[o] \in Int
    <2>1. \A o \in OrderId : Worst(order, p, o) \in Int
      BY WorstParts
    <2>2. QED BY <1>2, <1>3, <1>4, <2>1
  <1> HIDE DEF f, g, Of
  <1>9. SumFunctionOnSet(f, Of("BUY")) = SumFunctionOnSet(allF, OrderId)
    BY <1>8, OrdersFinite, SumMasked
  <1>10. SumFunctionOnSet(g, Of("SELL")) = SumFunctionOnSet(allG, OrderId)
    BY <1>8, OrdersFinite, SumMasked
  <1> HIDE DEF allF, allG
  <1>11. QED BY <1>6, <1>7, <1>9, <1>10 DEF ReservedIn, WorstIn

\* A placement enters an order its owner can honour besides all others.
LEMMA PlacingEnters ==
    ASSUME BookInv, BookInv', UnplacedAhead, UnitReservationsExact, ExecutedPlaced,
           AllUnitsBacked, AllCashBacked, AllGapsBounded, [Next]_vars,
           NEW p \in Principals, NEW side \in {"BUY", "SELL"}, NEW tif \in {"GTC", "IOC"},
           NEW limit \in Nat, NEW units \in Nat \ {0}, side = "BUY" => p \in Users,
           OpenOrder(p, side, tif, limit, units)
    PROVE  Market!Enter
  <1> DEFINE o == nextPriority
  <1>1. /\ o \in OrderId /\ nextPriority' = o + 1
        /\ \A q \in OrderId \ {o} : order'[q] = order[q]
        /\ order'[o].side = side /\ order'[o].principal = p
        /\ order'[o].limit = limit /\ order'[o].remaining = units
        /\ order'[o].status = "OPEN"
    BY Opening
  <1>2. o \in Nat /\ o <= MaxOrders
    BY <1>1, TradingAssumption DEF OrderId
  <1>3. \A q \in OrderId : Active(q)' <=> Active(q) \/ q = o
    BY <1>1 DEF Active, ActiveStatuses
  <1>4. DOMAIN Book' = DOMAIN Book \cup {o}
    BY <1>1, <1>3, BookHas, NextBookHas
  <1>5. \A q \in DOMAIN Book : Book'[q] = Book[q]
    <2> SUFFICES ASSUME NEW q \in DOMAIN Book PROVE Book'[q] = Book[q]
      OBVIOUS
    <2>1. q \in OrderId /\ Active(q)
      BY BookHas
    <2>2. q # o
      BY <1>1, <1>2, <2>1 DEF UnplacedAhead, Active, ActiveStatuses
    <2>3. QED BY <1>1, <1>4, <2>1, <2>2, BookHas, NextBookHas
  <1>6. /\ Book'[o].principal = p /\ Book'[o].side = side
        /\ Book'[o].limit = limit /\ Book'[o].remaining = units
    <2>1. o \in DOMAIN Book'
      BY <1>4
    <2>2. Book'[o] = Shown(order'[o])
      BY <2>1, NextBookHas
    <2>3. QED BY <1>1, <2>2 DEF Shown
  <1>7. side = "BUY" => Market!CommittedCash(p) + BuyReserve(limit, units)
                            <= cash[p] + Roundings(Purchases(p))
    <2> SUFFICES ASSUME side = "BUY"
                 PROVE  Market!CommittedCash(p) + BuyReserve(limit, units)
                            <= cash[p] + Roundings(Purchases(p))
      OBVIOUS
    <2>1. cash[p] - reservedCash[p] >= BuyReserve(limit, units)
      BY DEF OpenOrder, AvailableCash
    <2>2. /\ Market!CommittedCash(p) = WorstIn(order, p)
          /\ WorstIn(order, p) <= reservedCash[p] + Roundings(Purchases(p))
      BY Committed, WorstWithin
    <2>3. cash[p] \in Int /\ reservedCash[p] \in Int
      BY DEF BookInv, BookTypeOK, CashAccounts
    <2>4. BuyReserve(limit, units) \in Nat /\ Roundings(Purchases(p)) \in Nat
      BY ReserveNat, CountsNat, RoundingsGrow
    <2>5. WorstIn(order, p) \in Int
      <3> DEFINE f == [q \in OrderId |-> Worst(order, p, q)]
      <3>1. \A q \in OrderId : f[q] \in Int
        BY WorstParts
      <3> HIDE DEF f
      <3>2. QED BY <3>1, OrdersFinite, SumInt DEF f, WorstIn
    <2>6. QED BY <2>1, <2>2, <2>3, <2>4, <2>5
  <1>8. side = "SELL" => Market!CommittedUnits(p) + units <= settled[p]
    <2> SUFFICES ASSUME side = "SELL"
                 PROVE  Market!CommittedUnits(p) + units <= settled[p]
      OBVIOUS
    <2>1. settled[p] - reservedUnits[p] >= units
      BY DEF OpenOrder, AvailableUnits
    <2>2. reservedUnits[p] = Market!CommittedUnits(p)
      BY Committed DEF AllUnitsBacked, UnitsBacked
    <2>3. settled[p] \in Int /\ reservedUnits[p] \in Int
      BY DEF BookInv, BookTypeOK
    <2>4. QED BY <2>1, <2>2, <2>3
  <1>9. UNCHANGED <<cash, settled, Bought>>
    BY BoughtStays DEF OpenOrder
  <1>10. Market!Reserve(limit, units) = BuyReserve(limit, units)
    BY DEF Market!Reserve, Market!Gross, Market!FeeMinor, BuyReserve, Gross, FeeMinor
  <1>11. nextPriority - 1 + 1 = o /\ nextPriority' - 1 = o
    BY <1>1, <1>2
  <1> DEFINE slack == IF TakerFeeBps = 0 THEN 0 ELSE Bought[p]
  <1>12. Market!Rounding(p) = slack /\ slack = Roundings(Purchases(p))
    BY DEF Market!Rounding, Bought, Roundings
  <1> HIDE DEF o, slack
  <1>13. \E pr \in Market!Principals, sd \in {"BUY", "SELL"} :
            /\ o <= MaxOrders
            /\ nextPriority' - 1 = o
            /\ DOMAIN Book' = DOMAIN Book \cup {o}
            /\ \A q \in DOMAIN Book : Book'[q] = Book[q]
            /\ Book'[o].principal = pr
            /\ Book'[o].side = sd
            /\ Book'[o].remaining > 0
            /\ IF sd = "BUY"
               THEN Market!CommittedCash(pr) + Market!Reserve(Book'[o].limit, Book'[o].remaining)
                       <= cash[pr] + Market!Rounding(pr)
               ELSE Market!CommittedUnits(pr) + Book'[o].remaining <= settled[pr]
            /\ UNCHANGED <<cash, settled, Bought>>
    <2>1. p \in Market!Principals
      BY DEF Market!Principals, Principals
    <2>2. Book'[o].remaining > 0
      BY <1>6
    <2>3. IF side = "BUY"
          THEN Market!CommittedCash(p) + Market!Reserve(Book'[o].limit, Book'[o].remaining)
                  <= cash[p] + Market!Rounding(p)
          ELSE Market!CommittedUnits(p) + Book'[o].remaining <= settled[p]
      BY <1>6, <1>7, <1>8, <1>10, <1>12
    <2>4. QED BY <1>2, <1>4, <1>5, <1>6, <1>9, <1>11, <2>1, <2>2, <2>3
  <1>14. QED BY <1>11, <1>13 DEF Market!Enter, Book, Bought

\* A matching transaction holds the best buy and the best sell of the book.
MatchIsBest ==
    match # NoMatch =>
        /\ \A o \in ActiveBuys : \/ order[o].limit < order[match.buy].limit
                                 \/ /\ order[o].limit = order[match.buy].limit
                                    /\ match.buy <= o
        /\ \A o \in ActiveSells : \/ order[o].limit > order[match.sell].limit
                                  \/ /\ order[o].limit = order[match.sell].limit
                                     /\ match.sell <= o

\* It holds them to its end: between its two steps orders only leave the book.
LEMMA MatchIsBestInvariant == Spec => []MatchIsBest
  <1>1. Init => MatchIsBest
    BY DEF Init, MatchIsBest
  <1>2. ASSUME BookInv, MatchIsBest, [Next]_vars
        PROVE  MatchIsBest'
    <2>1. CASE match' = NoMatch
      BY <2>1 DEF MatchIsBest, NoMatch
    <2>2. CASE QuietStep \/ UNCHANGED vars
      <3>1. UNCHANGED order
        BY <2>2, QuietKeeps
      <3>2. CASE match' = match
        BY <1>2, <3>1, <3>2 DEF MatchIsBest, NoMatch, ActiveBuys, ActiveSells, Active
      <3>3. CASE \E c \in OrderId : MatchSelect(c)
        <4>1. PICK c \in OrderId : MatchSelect(c)
          BY <3>3
        <4>2. CASE UNCHANGED match
          BY <3>2, <4>2
        <4>3. CASE \E b \in ActiveBuys, s \in ActiveSells :
                      BestBuy(b) /\ BestSell(s) /\ match' = [caller |-> c, buy |-> b, sell |-> s]
          BY <3>1, <4>3 DEF MatchIsBest, BestBuy, BestSell, ActiveBuys, ActiveSells, Active
        <4>4. QED BY <4>1, <4>2, <4>3 DEF MatchSelect
      <3>4. CASE \A c \in OrderId : ~MatchSelect(c)
        BY <2>1, <2>2, <3>2, <3>4
           DEF QuietStep, vars, MatchRefused, MatchStale, MatchThrows, Interrupt, Replay,
               CancelIocRemainder, SetMarketStatus, ToggleSuspension, ToggleHold
      <3>5. QED BY <3>3, <3>4
    <2>3. CASE ClosingStep
      <3>1. PICK o \in OrderId, status \in {"CANCELLED", "EXPIRED"} :
              Active(o) /\ CloseAndRelease(o, status)
        BY <2>3 DEF ClosingStep
      <3>2. \A q \in OrderId :
              /\ order'[q].side = order[q].side /\ order'[q].limit = order[q].limit
              /\ Active(q)' => Active(q)
        <4> SUFFICES ASSUME NEW q \in OrderId
                     PROVE  /\ order'[q].side = order[q].side /\ order'[q].limit = order[q].limit
                            /\ Active(q)' => Active(q)
          OBVIOUS
        <4>1. CASE q = o
          BY <1>2, <3>1, <4>1, Closing
        <4>2. CASE q # o
          BY <1>2, <3>1, <4>2, Closing DEF Active
        <4>3. QED BY <4>1, <4>2
      <3>3. CASE match' = match /\ match # NoMatch
        <4>1. match.buy \in OrderId /\ match.sell \in OrderId
          BY <1>2, <3>3 DEF BookInv, MatchedPair
        <4>2. QED BY <1>2, <3>2, <3>3, <4>1 DEF MatchIsBest, ActiveBuys, ActiveSells
      <3>4. match' = match \/ match' = NoMatch
        BY <2>3 DEF ClosingStep, Cancel, Expire, CancelIocRemainder, MatchSelfTrade
      <3>5. QED BY <2>1, <3>3, <3>4
    <2>4. CASE PlacingStep
      <3>1. match' = NoMatch
        BY <1>2, <2>4, Opening DEF PlacingStep
      <3>2. QED BY <2>1, <3>1
    <2>5. CASE SettlingStep
      BY <2>1, <2>5 DEF SettlingStep, MatchSettle
    <2>6. QED BY <1>2, <2>2, <2>3, <2>4, <2>5, StepKinds
  <1>3. QED BY <1>1, <1>2, BookInvariant, PTL DEF Spec

\* What the market shows of a settled pair: less the units, or nothing.
LEMMA SettledBook ==
    ASSUME BookInv, BookInv', NEW c \in OrderId, MatchSettle(c)
    PROVE  LET b == match.buy
               s == match.sell
               n == FillUnits(b, s)
               filled == [Book EXCEPT ![b].remaining = @ - n, ![s].remaining = @ - n]
           IN  Book' = Market!Without(filled, {o \in {b, s} : filled[o].remaining = 0})
  <1> DEFINE b == match.buy
             s == match.sell
             n == FillUnits(b, s)
             filled == [Book EXCEPT ![b].remaining = @ - n, ![s].remaining = @ - n]
             gone == {o \in {b, s} : filled[o].remaining = 0}
  <1>1. StillMatches(b, s) /\ match.caller = c
    BY DEF MatchSettle
  <1>2. /\ b \in OrderId /\ s \in OrderId /\ b # s /\ Active(b) /\ Active(s)
        /\ order[b].remaining \in Nat /\ order[s].remaining \in Nat /\ n \in Nat
    BY <1>1, MatchedOrders DEF StillMatches, OrderType
  <1>3. /\ \A q \in OrderId \ {b, s} : order'[q] = order[q]
        /\ \A q \in {b, s} : FillEffect(order[q], order'[q], n, FillPrice(b, s))
    BY Settling
  <1>4. \A q \in {b, s} :
          /\ order'[q].remaining = order[q].remaining - n
          /\ order'[q].side = order[q].side
          /\ order'[q].principal = order[q].principal
          /\ order'[q].limit = order[q].limit
          /\ order'[q].status = (IF n = order[q].remaining THEN "FILLED" ELSE "PARTIALLY_FILLED")
    BY <1>3 DEF FillEffect
  <1> HIDE DEF n, b, s
  <1>5. b \in DOMAIN Book /\ s \in DOMAIN Book /\ DOMAIN Book = {o \in OrderId : Active(o)}
    BY <1>2, BookHas
  <1>6. /\ DOMAIN filled = DOMAIN Book
        /\ \A q \in {b, s} : filled[q] = [Shown(order[q]) EXCEPT !.remaining = @ - n]
        /\ \A q \in DOMAIN Book \ {b, s} : filled[q] = Shown(order[q])
    <2>1. Book = [o \in DOMAIN Book |-> Book[o]]
      BY DEF Book
    <2>2. \A o \in DOMAIN Book : Book[o] = Shown(order[o])
      BY BookHas
    <2>3. /\ DOMAIN filled = DOMAIN Book
          /\ filled[b] = [Book[b] EXCEPT !.remaining = @ - n]
          /\ filled[s] = [Book[s] EXCEPT !.remaining = @ - n]
          /\ \A q \in DOMAIN Book \ {b, s} : filled[q] = Book[q]
      BY <1>2, <1>5, <2>1
    <2> HIDE DEF filled
    <2>4. QED BY <1>5, <2>2, <2>3
  <1> HIDE DEF filled
  <1>7. \A q \in {b, s} : filled[q] = Shown(order'[q])
    BY <1>4, <1>6 DEF Shown
  <1>8. gone = {o \in {b, s} : order[o].remaining = n}
    BY <1>2, <1>4, <1>7 DEF Shown
  <1>9. \A q \in OrderId : Active(q)' <=> Active(q) /\ q \notin gone
    <2> SUFFICES ASSUME NEW q \in OrderId
                 PROVE  Active(q)' <=> Active(q) /\ q \notin gone
      OBVIOUS
    <2>1. CASE q \in {b, s}
      BY <1>2, <1>4, <1>8, <2>1 DEF Active, ActiveStatuses
    <2>2. CASE q \notin {b, s}
      BY <1>3, <2>2 DEF Active
    <2>3. QED BY <2>1, <2>2
  <1>10. DOMAIN Book' = DOMAIN Book \ gone
    BY <1>5, <1>9, NextBookHas
  <1>11. \A q \in DOMAIN Book' : Book'[q] = filled[q]
    <2> SUFFICES ASSUME NEW q \in DOMAIN Book' PROVE Book'[q] = filled[q]
      OBVIOUS
    <2>1. Book'[q] = Shown(order'[q]) /\ q \in DOMAIN Book /\ q \in OrderId
      BY <1>5, <1>10, NextBookHas
    <2>2. QED BY <1>3, <1>6, <1>7, <2>1
  <1>12. Book' = [q \in DOMAIN Book' |-> Book'[q]]
    BY DEF Book
  <1>13. Book' = [q \in DOMAIN filled \ gone |-> filled[q]]
    BY <1>6, <1>10, <1>11, <1>12
  <1>14. QED BY <1>13 DEF Market!Without, filled, n, b, s

\* A matching transaction holds the pair the market would match.
LEMMA BestPairLocked ==
    ASSUME BookInv, MatchIsBest, NEW c \in OrderId, match.caller = c,
           StillMatches(match.buy, match.sell)
    PROVE  match.buy \in Market!BestOf("BUY") /\ match.sell \in Market!BestOf("SELL")
  <1> DEFINE b == match.buy
             s == match.sell
             Rests(side) == {q \in DOMAIN Book : Book[q].side = side}
             Beats(side, o, q) ==
                 \/ side = "BUY"  /\ Book[o].limit > Book[q].limit
                 \/ side = "SELL" /\ Book[o].limit < Book[q].limit
                 \/ Book[o].limit = Book[q].limit /\ o < q
  <1>1. /\ b \in OrderId /\ s \in OrderId /\ Active(b) /\ Active(s)
        /\ order[b].side = "BUY" /\ order[s].side = "SELL"
    BY MatchedOrders DEF StillMatches
  <1>2. /\ DOMAIN Book = {o \in OrderId : Active(o)}
        /\ \A o \in DOMAIN Book : /\ Book[o].side = order[o].side
                                 /\ Book[o].limit = order[o].limit
    BY BookHas DEF Shown
  <1>3. /\ \A side : Market!Resting(side) = Rests(side)
        /\ \A side, o, q : Market!Better(side, o, q) <=> Beats(side, o, q)
    BY DEF Market!Resting, Market!Better, Book
  <1>4. \A side : Market!BestOf(side) =
                    {o \in Rests(side) : \A q \in Rests(side) \ {o} : Beats(side, o, q)}
    BY <1>3 DEF Market!BestOf
  <1>5. match # NoMatch
    BY DEF NoMatch, OrderId
  <1>6. \A o \in OrderId : o \in Nat /\ order[o].limit \in Nat
    BY TradingAssumption DEF OrderId, BookInv, BookTypeOK, OrderType
  <1>7. /\ \A q \in Rests("BUY") \ {b} : Beats("BUY", b, q)
        /\ \A q \in Rests("SELL") \ {s} : Beats("SELL", s, q)
    BY <1>1, <1>2, <1>5, <1>6 DEF MatchIsBest, ActiveBuys, ActiveSells
  <1>8. b \in Rests("BUY") /\ s \in Rests("SELL")
    BY <1>1, <1>2
  <1>9. QED BY <1>4, <1>7, <1>8

\* A settlement is the trade of the market's best pair.
LEMMA SettlingTrades ==
    ASSUME BookInv, BookInv', UnplacedAhead, ExecutedPlaced, MatchIsBest,
           NEW c \in OrderId, MatchSettle(c)
    PROVE  Market!Trade
  <1> DEFINE b      == match.buy
             s      == match.sell
             n      == LesserOf(Book[b].remaining, Book[s].remaining)
             price  == MakerPrice(b, s, Book[b].limit, Book[s].limit)
             gross  == Gross(price, n)
             buyFee == FeeMinor(gross, IF b < s THEN MakerFeeBps ELSE TakerFeeBps)
             selFee == FeeMinor(gross, IF b < s THEN TakerFeeBps ELSE MakerFeeBps)
             buyer  == Book[b].principal
             seller == Book[s].principal
             filled == [Book EXCEPT ![b].remaining = @ - n, ![s].remaining = @ - n]
  <1>1. StillMatches(b, s) /\ match.caller = c /\ ~SelfTrade(b, s)
    BY DEF MatchSettle
  <1>2. b \in OrderId /\ s \in OrderId /\ Active(b) /\ Active(s) /\ Crossing(b, s)
    BY <1>1, MatchedOrders DEF StillMatches
  <1>3. /\ Book[b].remaining = order[b].remaining /\ Book[s].remaining = order[s].remaining
        /\ Book[b].limit = order[b].limit /\ Book[s].limit = order[s].limit
        /\ Book[b].principal = order[b].principal /\ Book[s].principal = order[s].principal
    BY <1>2, BookHas DEF Shown
  <1>4. n = FillUnits(b, s) /\ price = FillPrice(b, s)
    BY <1>3 DEF FillUnits, FillPrice
  <1>5. gross = Gross(FillPrice(b, s), FillUnits(b, s))
    BY <1>4
  <1>6. buyFee = BuyerFee(b, s) /\ selFee = SellerFee(b, s)
    BY <1>5 DEF BuyerFee, SellerFee
  <1>7. buyer # seller /\ Crosses(Book[b].limit, Book[s].limit)
    BY <1>1, <1>2, <1>3 DEF SelfTrade, Crossing
  <1>8. Book' = Market!Without(filled, {o \in {b, s} : filled[o].remaining = 0})
    BY <1>4, SettledBook
  <1>9. settled' = [settled EXCEPT ![seller] = @ - n, ![buyer] = @ + n]
    BY <1>3, <1>4 DEF MatchSettle
  <1>10. cash' = [cash EXCEPT ![buyer]      = @ - (gross + buyFee),
                              ![seller]     = @ + (gross - selFee),
                              ![FeeRevenue] = @ + (buyFee + selFee)]
    <2>1. cash' = CashAfter(b, s)
      BY DEF MatchSettle
    <2>2. QED BY <1>3, <1>5, <1>6, <2>1 DEF CashAfter
  <1>11. b \in Market!BestOf("BUY") /\ s \in Market!BestOf("SELL")
    BY <1>1, BestPairLocked
  <1>12. nextPriority' - 1 = nextPriority - 1
    BY DEF MatchSettle
  <1> DEFINE m   == Market!LesserOf(Book[b].remaining, Book[s].remaining)
             at  == Market!MakerPrice(b, s, Book[b].limit, Book[s].limit)
             g   == Market!Gross(at, m)
             bf  == Market!FeeMinor(g, IF b < s THEN MakerFeeBps ELSE TakerFeeBps)
             sf  == Market!FeeMinor(g, IF b < s THEN TakerFeeBps ELSE MakerFeeBps)
             fl  == [Book EXCEPT ![b].remaining = @ - m, ![s].remaining = @ - m]
  <1>13. m = n /\ at = price
    BY DEF Market!LesserOf, LesserOf, Market!MakerPrice, MakerPrice
  <1>14. g = gross
    <2> HIDE DEF n, m, price, at
    <2>1. QED BY <1>13 DEF Market!Gross, Gross
  <1>15. bf = buyFee /\ sf = selFee
    <2> HIDE DEF g, gross
    <2>1. QED BY <1>14 DEF Market!FeeMinor, FeeMinor
  <1>16. fl = filled
    <2> HIDE DEF n, m
    <2>1. QED BY <1>13
  <1>17. Market!Crosses(Book[b].limit, Book[s].limit)
    BY <1>7 DEF Market!Crosses, Crosses
  <1> HIDE DEF n, price, gross, buyFee, selFee, filled, m, at, g, bf, sf, fl
  <1>18. /\ Book' = Market!Without(fl, {o \in {b, s} : fl[o].remaining = 0})
         /\ settled' = [settled EXCEPT ![seller] = @ - m, ![buyer] = @ + m]
         /\ cash' = [cash EXCEPT ![buyer]      = @ - (g + bf),
                                 ![seller]     = @ + (g - sf),
                                 ![FeeRevenue] = @ + (bf + sf)]
    BY <1>8, <1>9, <1>10, <1>13, <1>14, <1>15, <1>16
  <1>19. Bought' = [Bought EXCEPT ![buyer] = @ + 1]
    <2>1. buyer \in Principals
      BY <1>2, <1>3 DEF BookInv, BookTypeOK, OrderType
    <2>2. \A p : Purchases(p)' = IF p = buyer THEN Purchases(p) + 1 ELSE Purchases(p)
      BY <1>3, PurchaseCounts
    <2> HIDE DEF buyer
    <2>3. QED BY <2>1, <2>2 DEF Bought
  <1> HIDE DEF b, s
  <1>20. QED BY <1>7, <1>11, <1>12, <1>17, <1>18, <1>19
             DEF Market!Trade, Book, Bought, m, at, g, bf, sf, fl

\* The market as a refinement, whatever the fees: every transaction of the service
\* enters an order its owner can honour besides all others, up to the roundings of his
\* purchases, takes one out, trades the best bid with the best ask at the older one's
\* limit, or shows the market nothing.
THEOREM MarketImplementsExchange == Spec => ImplementsExchange
  <1> DEFINE Inv == /\ BookInv /\ MatchIsBest /\ UnplacedAhead
                    /\ UnitReservationsExact /\ AllExecutionsSound /\ ExecutedPlaced
                    /\ AllUnitsBacked /\ AllCashBacked /\ AllGapsBounded
  <1>1. Spec => []Inv
    BY BookInvariant, MatchIsBestInvariant, UnplacedAheadInvariant, ReservationsExact,
       ExecutionsInvariant, BackedInvariant, GapsBoundedInvariant, PTL
  <1>2. ASSUME Inv, Inv', [Next]_vars
        PROVE  [Market!Next]_(Market!bookVars)
    <2>1. CASE QuietStep \/ UNCHANGED vars
      BY <2>1, QuietKeeps, ShowsNothing
    <2>2. CASE ClosingStep
      BY <1>2, <2>2, ClosingLeaves DEF ClosingStep, Market!Next
    <2>3. CASE PlacingStep
      BY <1>2, <2>3, PlacingEnters DEF PlacingStep, Market!Next
    <2>4. CASE SettlingStep
      BY <1>2, <2>4, SettlingTrades DEF SettlingStep, Market!Next
    <2>5. QED BY <1>2, <2>1, <2>2, <2>3, <2>4, StepKinds
  <1>3. QED BY <1>1, <1>2, MarketInit, PTL DEF Spec, ImplementsExchange, Market!Spec
=============================================================================
