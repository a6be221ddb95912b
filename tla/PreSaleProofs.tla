----------------------------- MODULE PreSaleProofs -----------------------------
(***************************************************************************)
(* For any number of sales, buyers, commitments and sweeps: a commitment   *)
(* stands on its own cash reservation until both end the same way, a sale  *)
(* that has ended has no commitment left, the cash of each buyer adds up   *)
(* (CashInv: no more is reserved for a commitment than settling it whole   *)
(* takes, so that finalizing leaves nothing reserved but for one that was  *)
(* cut short), and no sale promises more than it offers.  OpenedFirst is   *)
(* why a late launch does not revive a sale that was converted.            *)
(***************************************************************************)
EXTENDS PreSale, SumLemmas

USE PreSaleAssumption

Sale == [status : SaleStatuses, deadline : Int]

\* The types the argument needs: of the sales, the commitments, their cash and units.
StatesOK ==
    /\ now \in Int
    /\ sale \in [Sales -> Sale]
    /\ commitment \in [Commitments -> CommitmentStatuses]
    /\ funds \in [Commitments -> Funds]
    /\ bought \in [Commitments -> Nat]
    /\ unsold \in [Sales -> 0 .. Offered]

\* Sweeps remember sales.
SweepsOK == due \in [Sweeps -> SUBSET Sales]

\* What can be converted has been opened, and what has been opened is not launched any more.
OpenedFirst ==
    /\ finalizing \subseteq opened
    /\ launching \cap opened = {}
    /\ \A c \in Commitments : commitment[c] = "CONVERTED" => SaleOf[c] \in opened

PreSaleInv == StatesOK /\ FundsFollow /\ EndedSalesHoldNothing

\* A product of naturals is a natural.
LEMMA ProductNat ==
    ASSUME NEW a \in Nat, NEW b \in Nat
    PROVE  a * b \in Nat
  OBVIOUS

\* What settling some units takes covers what they cost.
LEMMA ReductionNat ==
    ASSUME NEW u \in Nat
    PROVE  /\ Gross(Price, u) \in Nat /\ Reduction(u) \in Nat
           /\ Gross(Price, u) <= Reduction(u)
  <1>1. Gross(Price, u) \in Nat
    BY ProductNat DEF Gross
  <1>2. Gross(Price, u) * TakerFeeBps \in Nat
    BY <1>1, ProductNat
  <1> DEFINE fee == Gross(Price, u) * TakerFeeBps
  <1>3. (fee + 9999) \div 10000 \in Nat
    <2> HIDE DEF fee
    <2>1. fee \in Nat
      BY <1>2 DEF fee
    <2>2. QED BY <2>1
  <1>4. FeeMinor(Gross(Price, u), TakerFeeBps) \in Nat
    BY <1>3 DEF FeeMinor
  <1>5. QED BY <1>1, <1>4 DEF Reduction

\* Amounts are natural; a commitment reserves at least its notional.
LEMMA AmountsNat ==
    ASSUME NEW c \in Commitments
    PROVE  /\ Notional[c] \in Nat
           /\ Reservation(c) \in Nat /\ Reservation(c) >= Notional[c]
  <1>1. Notional[c] \in Nat
    BY ProductNat DEF Notional, Gross
  <1>2. Notional[c] * TakerFeeBps \in Nat
    BY <1>1, ProductNat
  <1> DEFINE fee == Notional[c] * TakerFeeBps
  <1>3. fee \div 10000 \in Nat
    <2> HIDE DEF fee
    <2>1. fee \in Nat
      BY <1>2 DEF fee
    <2>2. QED BY <2>1
  <1>4. Reservation(c) \in Nat /\ Reservation(c) >= Notional[c]
    BY <1>1, <1>3 DEF Reservation
  <1>5. QED BY <1>1, <1>4

\* A step that only writes the row of one sale, which has not ended or does not end.
LEMMA SaleStep ==
    ASSUME PreSaleInv, UNCHANGED <<now, commitment, funds, bought, unsold>>, NEW s \in Sales,
           NEW new \in Sale, sale' = [sale EXCEPT ![s] = new],
           new.status \in {"CANCELLED", "CONVERTED"} => Promised(s) = {}
    PROVE  PreSaleInv'
  <1>1. sale' \in [Sales -> Sale]
    BY DEF PreSaleInv, StatesOK
  <1>2. StatesOK' /\ FundsFollow'
    BY <1>1 DEF PreSaleInv, StatesOK, FundsFollow, CutShort
  <1>3. ASSUME NEW r \in Sales, sale'[r].status \in {"CANCELLED", "CONVERTED"}
        PROVE  Promised(r)' = {}
    <2>1. Promised(r)' = Promised(r)
      BY DEF Promised
    <2>2. CASE r = s
      BY <1>3, <2>1, <2>2 DEF PreSaleInv, StatesOK
    <2>3. CASE r # s
      BY <1>3, <2>1, <2>3 DEF PreSaleInv, StatesOK, EndedSalesHoldNothing
    <2>4. QED BY <2>2, <2>3
  <1>4. QED BY <1>2, <1>3 DEF PreSaleInv, EndedSalesHoldNothing

\* A row with its status written, or its deadline.
LEMMA SaleRow ==
    ASSUME StatesOK, NEW s \in Sales
    PROVE  /\ \A status \in SaleStatuses : BecomesSale(s, status) =>
                 \E new \in Sale : /\ new.status = status
                                   /\ sale' = [sale EXCEPT ![s] = new]
           /\ \A until \in Int : sale' = [sale EXCEPT ![s].deadline = until] =>
                 \E new \in Sale : /\ new.status = sale[s].status
                                   /\ sale' = [sale EXCEPT ![s] = new]
  <1>1. sale[s] \in Sale
    BY DEF StatesOK
  <1>2. ASSUME NEW status \in SaleStatuses, BecomesSale(s, status)
        PROVE  \E new \in Sale : new.status = status /\ sale' = [sale EXCEPT ![s] = new]
    <2> DEFINE new == [sale[s] EXCEPT !.status = status]
    <2>1. new \in Sale /\ new.status = status
      BY <1>1 DEF Sale
    <2>2. sale' = [sale EXCEPT ![s] = new]
      BY <1>2 DEF BecomesSale, StatesOK
    <2> HIDE DEF new
    <2>3. QED BY <2>1, <2>2
  <1>3. ASSUME NEW until \in Int, sale' = [sale EXCEPT ![s].deadline = until]
        PROVE  \E new \in Sale : new.status = sale[s].status /\ sale' = [sale EXCEPT ![s] = new]
    <2> DEFINE new == [sale[s] EXCEPT !.deadline = until]
    <2>1. new \in Sale /\ new.status = sale[s].status
      BY <1>1 DEF Sale
    <2>2. sale' = [sale EXCEPT ![s] = new]
      BY <1>3 DEF StatesOK
    <2> HIDE DEF new
    <2>3. QED BY <2>1, <2>2
  <1>4. QED BY <1>2, <1>3

\* Steps that leave sales, commitments and their cash alone.
LEMMA StutterStep ==
    ASSUME PreSaleInv, UNCHANGED <<sale, commitment, funds, bought, unsold>>, now' \in Int
    PROVE  PreSaleInv'
  BY DEF PreSaleInv, StatesOK, FundsFollow, CutShort, EndedSalesHoldNothing, Promised

----------------------------------------------------------------------------
(* Each step that writes them keeps the invariant. *)

\* Launching, pausing, resuming and extending end no sale and touch no commitment; a sale
\* without commitments is finalized alone.
LEMMA AdministrationKeeps ==
    ASSUME PreSaleInv, NEW s \in Sales,
           FinalizeEmpty(s) \/ Launch(s) \/ Pause(s) \/ Resume(s) \/ \E until \in 0 .. MaxTime : Extend(s, until)
    PROVE  PreSaleInv'
  <1>1. UNCHANGED <<now, commitment, funds, bought, unsold>> /\ StatesOK
    BY DEF FinalizeEmpty, Launch, Pause, Resume, Extend, money, offering, PreSaleInv
  <1>2. CASE Launch(s)
    <2> DEFINE new == [status |-> "ACTIVE", deadline |-> now + Term]
    <2>1. sale' = [sale EXCEPT ![s] = new]
      BY <1>2 DEF Launch
    <2>2. new \in Sale /\ new.status = "ACTIVE"
      BY <1>1 DEF StatesOK, Sale, SaleStatuses
    <2> HIDE DEF new
    <2>3. QED BY <1>1, <2>1, <2>2, SaleStep
  <1>3. CASE Pause(s) \/ Resume(s)
    <2>1. \E status \in {"PAUSED", "ACTIVE"} : BecomesSale(s, status)
      BY <1>3 DEF Pause, Resume
    <2>2. PICK new \in Sale : new.status \in {"PAUSED", "ACTIVE"} /\ sale' = [sale EXCEPT ![s] = new]
      BY <1>1, <2>1, SaleRow DEF SaleStatuses
    <2>3. QED BY <1>1, <2>2, SaleStep
  <1>4. CASE \E until \in 0 .. MaxTime : Extend(s, until)
    <2>0. PICK until \in 0 .. MaxTime : Extend(s, until)
      BY <1>4
    <2>1. until \in Int /\ sale' = [sale EXCEPT ![s].deadline = until]
      BY <2>0 DEF Extend
    <2>2. PICK new \in Sale : new.status = sale[s].status /\ sale' = [sale EXCEPT ![s] = new]
      BY <1>1, <2>1, SaleRow
    <2>3. sale[s].status \in {"CANCELLED", "CONVERTED"} => Promised(s) = {}
      BY DEF PreSaleInv, EndedSalesHoldNothing
    <2>4. QED BY <1>1, <2>2, <2>3, SaleStep
  <1>5. CASE FinalizeEmpty(s)
    <2>1. BecomesSale(s, "CONVERTED") /\ Promised(s) = {}
      BY <1>5 DEF FinalizeEmpty
    <2>2. PICK new \in Sale : sale' = [sale EXCEPT ![s] = new]
      BY <1>1, <2>1, SaleRow DEF SaleStatuses
    <2>3. QED BY <1>1, <2>1, <2>2, SaleStep
  <1>6. QED BY <1>2, <1>3, <1>4, <1>5

\* A customer's commitment reserves its own cash, of a sale that has not ended.
LEMMA ReserveKeeps ==
    ASSUME PreSaleInv, NEW c \in Commitments, Reserve(c)
    PROVE  PreSaleInv'
  <1>1. /\ commitment' = [commitment EXCEPT ![c] = "ACTIVE"]
        /\ funds' = [funds EXCEPT ![c] = [status |-> "ACTIVE", amount |-> Reservation(c)]]
        /\ UNCHANGED <<now, sale, bought, unsold>>
        /\ sale[SaleOf[c]].status = "ACTIVE"
    BY DEF Reserve, Accepting, offering
  <1>2. Reservation(c) \in Nat /\ Reservation(c) >= Notional[c]
    BY AmountsNat
  <1>3. commitment \in [Commitments -> CommitmentStatuses] /\ funds \in [Commitments -> Funds]
    BY DEF PreSaleInv, StatesOK
  <1>4. StatesOK'
    BY <1>1, <1>2 DEF PreSaleInv, StatesOK, CommitmentStatuses, Funds
  <1>5. /\ commitment'[c] = "ACTIVE" /\ funds'[c].status = "ACTIVE"
        /\ funds'[c].amount = Reservation(c)
        /\ \A d \in Commitments : d # c => commitment'[d] = commitment[d] /\ funds'[d] = funds[d]
    BY <1>1, <1>3
  <1>6. FundsFollow'
    BY <1>1, <1>2, <1>5 DEF PreSaleInv, FundsFollow, CutShort
  <1>7. ASSUME NEW s \in Sales, sale'[s].status \in {"CANCELLED", "CONVERTED"}
        PROVE  Promised(s)' = {}
    <2>1. s # SaleOf[c] /\ Promised(s) = {}
      BY <1>1, <1>7 DEF PreSaleInv, EndedSalesHoldNothing
    <2>2. QED BY <1>5, <2>1 DEF Promised
  <1>8. QED BY <1>4, <1>6, <1>7 DEF PreSaleInv, EndedSalesHoldNothing

\* When the commitments of a sale all end one way and the sale with them, nothing is
\* left of it.
LEMMA SaleEnds ==
    ASSUME PreSaleInv, NEW s \in Sales, UNCHANGED now,
           BecomesSale(s, "CANCELLED") \/ BecomesSale(s, "CONVERTED"),
           StatesOK', FundsFollow',
           \A c \in Commitments \ Promised(s) : commitment'[c] = commitment[c],
           \A c \in Promised(s) : commitment'[c] # "ACTIVE"
    PROVE  PreSaleInv'
  <1>1. /\ \A r \in Sales : r # s => sale'[r] = sale[r]
        /\ sale'[s].status \in {"CANCELLED", "CONVERTED"}
    BY DEF BecomesSale, PreSaleInv, StatesOK, Sale
  <1>2. ASSUME NEW r \in Sales, sale'[r].status \in {"CANCELLED", "CONVERTED"}
        PROVE  Promised(r)' = {}
    <2>1. CASE r = s
      BY <2>1 DEF Promised
    <2>2. CASE r # s
      <3>1. Promised(r) = {}
        BY <1>1, <1>2, <2>2 DEF PreSaleInv, EndedSalesHoldNothing
      <3>2. QED BY <2>2, <3>1 DEF Promised
    <2>3. QED BY <2>1, <2>2
  <1>3. QED BY <1>2 DEF PreSaleInv, EndedSalesHoldNothing

\* Cancelling releases every commitment of the sale together with its cash.
LEMMA CancelsKeeps ==
    ASSUME PreSaleInv, NEW s \in Sales, Cancels(s), UNCHANGED <<now, bought, unsold>>
    PROVE  PreSaleInv'
  <1>1. /\ BecomesSale(s, "CANCELLED")
        /\ commitment' = [c \in Commitments |->
                             IF c \in Promised(s) THEN "RELEASED" ELSE commitment[c]]
        /\ funds' = [c \in Commitments |->
                        IF c \in Promised(s) /\ funds[c].status = "ACTIVE"
                        THEN [funds[c] EXCEPT !.status = "RELEASED"] ELSE funds[c]]
    BY DEF Cancels
  <1>2. \A c \in Promised(s) : c \in Commitments /\ commitment[c] = "ACTIVE" /\ funds[c].status = "ACTIVE"
    BY DEF Promised, PreSaleInv, FundsFollow
  <1>3. commitment \in [Commitments -> CommitmentStatuses] /\ funds \in [Commitments -> Funds]
    BY DEF PreSaleInv, StatesOK
  <1>4. ASSUME NEW c \in Commitments
        PROVE  /\ c \in Promised(s) => /\ commitment'[c] = "RELEASED" /\ funds'[c] \in Funds
                                       /\ funds'[c].status = "RELEASED"
               /\ c \notin Promised(s) => commitment'[c] = commitment[c] /\ funds'[c] = funds[c]
    <2>1. [funds[c] EXCEPT !.status = "RELEASED"] \in Funds
          /\ [funds[c] EXCEPT !.status = "RELEASED"].status = "RELEASED"
      BY <1>3 DEF Funds
    <2>2. QED BY <1>1, <1>2, <2>1
  <1>5. PICK new \in Sale : new.status = "CANCELLED" /\ sale' = [sale EXCEPT ![s] = new]
    BY <1>1, SaleRow DEF PreSaleInv, SaleStatuses
  <1>6. StatesOK'
    <2>1. commitment' \in [Commitments -> CommitmentStatuses]
      BY <1>1, <1>3 DEF CommitmentStatuses
    <2>2. funds' \in [Commitments -> Funds]
      <3>1. DOMAIN funds' = Commitments /\ funds' = [c \in Commitments |-> funds'[c]]
        BY <1>1
      <3>2. \A c \in Commitments : funds'[c] \in Funds
        BY <1>3, <1>4
      <3>3. QED BY <3>1, <3>2
    <2>3. QED BY <1>5, <2>1, <2>2 DEF PreSaleInv, StatesOK
  <1>7. FundsFollow'
    BY <1>4 DEF PreSaleInv, FundsFollow, CutShort
  <1>8. QED BY <1>1, <1>2, <1>4, <1>6, <1>7, SaleEnds

\* Finalize, with the units filled of each commitment named.
Conversion(s, last, filled) ==
    LET cs == Promised(s)
        cost == [c \in Commitments |-> Gross(Price, filled[c])]
        taken == [c \in Commitments |-> Reduction(filled[c])]
    IN
    /\ filled = [c \in Commitments |-> Units[c] - IF c = last THEN Missing(s) ELSE 0]
    /\ s \in finalizing /\ filled[last] > 0
    /\ \A c \in cs : Settles(c, filled[c])
    /\ BecomesSale(s, "CONVERTED")
    /\ commitment' = [c \in Commitments |-> IF c \in cs THEN "CONVERTED" ELSE commitment[c]]
    /\ bought' = [c \in Commitments |-> IF c \in cs THEN filled[c] ELSE bought[c]]
    /\ funds' = [c \in Commitments |->
                    IF c \in cs
                    THEN [status |-> FundsAfter(c, filled[c]), amount |-> funds[c].amount - taken[c]]
                    ELSE funds[c]]
    /\ cash' = [b \in Buyers |-> cash[b] - SumOf(cost, b, cs)]
    /\ reserved' = [b \in Buyers |-> reserved[b] - SumOf(taken, b, cs)]
    /\ unsold' = [unsold EXCEPT ![s] = @ - (UnitsOf(cs) - Missing(s))]
    /\ finalizing' = finalizing \ {s}
    /\ UNCHANGED <<now, opened, outside, due, launching, faults>>

\* Finalizing is one of them.
LEMMA FinalizeConverts ==
    ASSUME NEW s, Finalize(s)
    PROVE  \E last \in Promised(s) : \E filled : Conversion(s, last, filled)
  <1>1. PICK last \in Promised(s) :
            Conversion(s, last, [c \in Commitments |-> Units[c] - IF c = last THEN Missing(s) ELSE 0])
    BY DEF Finalize, Conversion
  <1>2. QED BY <1>1

\* Units of commitments add up to a natural number; what a sale promises and its order has
\* is at most what the order has, and all of it when units are missing.
LEMMA MissingUnits ==
    ASSUME StatesOK, NEW s \in Sales
    PROVE  /\ UnitsOf(Promised(s)) \in Nat /\ Missing(s) \in Nat
           /\ UnitsOf(Promised(s)) - Missing(s) \in 0 .. unsold[s]
           /\ Missing(s) # 0 => UnitsOf(Promised(s)) - Missing(s) = unsold[s]
  <1>1. IsFiniteSet(Commitments)
    BY PreSaleAssumption, Zenon
  <1>2. Promised(s) \in SUBSET Commitments
    BY DEF Promised
  <1>3. IsFiniteSet(Promised(s))
    BY <1>1, <1>2, FS_Subset
  <1>4. \A c \in Promised(s) : Units[c] \in Nat
    BY <1>2
  <1>5. UnitsOf(Promised(s)) \in Nat
    BY <1>3, <1>4, SumNat DEF UnitsOf
  <1>6. unsold[s] \in Nat
    BY DEF StatesOK
  <1>7. Missing(s) = IF UnitsOf(Promised(s)) > unsold[s]
                     THEN UnitsOf(Promised(s)) - unsold[s] ELSE 0
    BY DEF Missing
  <1>8. QED BY <1>5, <1>6, <1>7

\* Each commitment that is converted gets some of its units, and all unless it is the last.
LEMMA ConversionFills ==
    ASSUME StatesOK, NEW s \in Sales, NEW last \in Promised(s), NEW filled,
           Conversion(s, last, filled)
    PROVE  \A c \in Promised(s) :
              /\ c \in Commitments /\ filled[c] \in 1 .. Units[c]
              /\ filled[c] # Units[c] => Missing(s) # 0
  <1>1. Promised(s) \in SUBSET Commitments /\ Missing(s) \in Nat
    BY MissingUnits DEF Promised
  <1>2. /\ filled = [c \in Commitments |-> Units[c] - IF c = last THEN Missing(s) ELSE 0]
        /\ filled[last] > 0
    BY DEF Conversion
  <1>3. SUFFICES ASSUME NEW c \in Promised(s)
        PROVE  /\ c \in Commitments /\ filled[c] \in 1 .. Units[c]
               /\ filled[c] # Units[c] => Missing(s) # 0
    OBVIOUS
  <1>4. c \in Commitments /\ Units[c] \in Nat \ {0}
    BY <1>1
  <1>5. filled[c] = Units[c] - IF c = last THEN Missing(s) ELSE 0
    BY <1>2, <1>4
  <1>6. CASE c = last
    BY <1>1, <1>2, <1>4, <1>5, <1>6
  <1>7. CASE c # last
    BY <1>4, <1>5, <1>7
  <1>8. QED BY <1>6, <1>7

\* Finalizing ends the cash of every commitment it converts whole, and leaves none; if it
\* cuts one short the order has nothing more.
LEMMA FinalizeKeeps ==
    ASSUME PreSaleInv, NEW s \in Sales, Finalize(s)
    PROVE  PreSaleInv'
  <1>a. PICK last \in Promised(s) : \E filled : Conversion(s, last, filled)
    BY FinalizeConverts
  <1>0. PICK filled : Conversion(s, last, filled)
    BY <1>a
  <1>1. /\ BecomesSale(s, "CONVERTED") /\ UNCHANGED now
        /\ \A c \in Promised(s) : Settles(c, filled[c])
        /\ commitment' = [c \in Commitments |->
                             IF c \in Promised(s) THEN "CONVERTED" ELSE commitment[c]]
        /\ bought' = [c \in Commitments |-> IF c \in Promised(s) THEN filled[c] ELSE bought[c]]
        /\ funds' = [c \in Commitments |->
                        IF c \in Promised(s)
                        THEN [status |-> FundsAfter(c, filled[c]),
                              amount |-> funds[c].amount - Reduction(filled[c])]
                        ELSE funds[c]]
        /\ unsold' = [unsold EXCEPT ![s] = @ - (UnitsOf(Promised(s)) - Missing(s))]
    BY <1>0 DEF Conversion
  <1>2. /\ StatesOK /\ bought \in [Commitments -> Nat] /\ unsold \in [Sales -> 0 .. Offered]
        /\ commitment \in [Commitments -> CommitmentStatuses] /\ funds \in [Commitments -> Funds]
    BY DEF PreSaleInv, StatesOK
  <1>3. \A c \in Promised(s) :
            /\ c \in Commitments /\ filled[c] \in 1 .. Units[c]
            /\ filled[c] # Units[c] => Missing(s) # 0
    BY <1>0, <1>2, ConversionFills
  <1>4. ASSUME NEW c \in Commitments
        PROVE  /\ c \in Promised(s) =>
                     /\ commitment'[c] = "CONVERTED" /\ funds'[c] \in Funds
                     /\ bought'[c] = filled[c] /\ bought'[c] \in Nat
                     /\ funds'[c].status = IF filled[c] = Units[c] THEN "CONSUMED" ELSE "ACTIVE"
               /\ c \notin Promised(s) => /\ commitment'[c] = commitment[c] /\ funds'[c] = funds[c]
                                          /\ bought'[c] = bought[c]
    <2>1. CASE c \in Promised(s)
      <3>1. filled[c] \in Nat
        <4>1. filled[c] \in 1 .. Units[c] /\ Units[c] \in Nat
          BY <1>3, <2>1
        <4>2. QED BY <4>1
      <3>2. funds[c].amount \in Nat /\ Reduction(filled[c]) \in Nat
        BY <1>2, <3>1, ReductionNat DEF Funds
      <3>3. funds[c].amount >= Reduction(filled[c])
        BY <1>1, <2>1 DEF Settles
      <3> DEFINE rest == funds[c].amount - Reduction(filled[c])
      <3>4. rest \in Nat
        BY <3>2, <3>3
      <3>5. funds'[c] = [status |-> FundsAfter(c, filled[c]), amount |-> rest]
        BY <1>1, <2>1
      <3> HIDE DEF rest
      <3>6. funds'[c] \in Funds
            /\ funds'[c].status = IF filled[c] = Units[c] THEN "CONSUMED" ELSE "ACTIVE"
        BY <3>4, <3>5 DEF Funds, FundsAfter
      <3>7. QED BY <1>1, <2>1, <3>1, <3>6
    <2>2. CASE c \notin Promised(s)
      BY <1>1, <2>2
    <2>3. QED BY <2>1, <2>2
  <1>5. PICK new \in Sale : new.status = "CONVERTED" /\ sale' = [sale EXCEPT ![s] = new]
    BY <1>1, <1>2, SaleRow DEF SaleStatuses
  <1>6. /\ unsold'[s] = unsold[s] - (UnitsOf(Promised(s)) - Missing(s))
        /\ \A r \in Sales : r # s => unsold'[r] = unsold[r]
        /\ unsold'[s] \in 0 .. unsold[s]
        /\ Missing(s) # 0 => unsold'[s] = 0
    <2>1. /\ unsold'[s] = unsold[s] - (UnitsOf(Promised(s)) - Missing(s))
          /\ \A r \in Sales : r # s => unsold'[r] = unsold[r]
      BY <1>1, <1>2
    <2>2. /\ UnitsOf(Promised(s)) - Missing(s) \in 0 .. unsold[s] /\ unsold[s] \in Nat
          /\ Missing(s) # 0 => UnitsOf(Promised(s)) - Missing(s) = unsold[s]
      BY <1>2, MissingUnits
    <2>3. QED BY <2>1, <2>2
  <1>7. StatesOK'
    <2>1. commitment' \in [Commitments -> CommitmentStatuses]
      BY <1>1, <1>2 DEF CommitmentStatuses
    <2>2. funds' \in [Commitments -> Funds] /\ bought' \in [Commitments -> Nat]
      <3>1. /\ funds' = [c \in Commitments |-> funds'[c]]
            /\ bought' = [c \in Commitments |-> bought'[c]]
        BY <1>1
      <3>2. \A c \in Commitments : funds'[c] \in Funds /\ bought'[c] \in Nat
        BY <1>2, <1>4
      <3>3. QED BY <3>1, <3>2
    <2>3. unsold' \in [Sales -> 0 .. Offered]
      <3>1. \A r \in Sales : unsold'[r] \in 0 .. Offered
        <4>1. unsold[s] \in 0 .. Offered
          BY <1>2
        <4>2. unsold'[s] \in 0 .. Offered
          BY <1>6, <4>1
        <4>3. QED BY <1>2, <1>6, <4>2
      <3>2. unsold' = [r \in Sales |-> unsold'[r]]
        BY <1>1, <1>2
      <3>3. QED BY <3>1, <3>2
    <2>4. QED BY <1>1, <1>2, <1>5, <2>1, <2>2, <2>3 DEF StatesOK
  <1>8. FundsFollow'
    <2> SUFFICES ASSUME NEW c \in Commitments
                 PROVE  /\ commitment'[c] = "NONE" => funds'[c].status = "NONE"
                        /\ commitment'[c] = "ACTIVE" => /\ funds'[c].status = "ACTIVE"
                                                        /\ funds'[c].amount >= Notional[c]
                        /\ commitment'[c] = "RELEASED" => funds'[c].status = "RELEASED"
                        /\ commitment'[c] = "CONVERTED" =>
                              /\ bought'[c] \in 1 .. Units[c]
                              /\ funds'[c].status = IF CutShort(c)' THEN "ACTIVE" ELSE "CONSUMED"
                              /\ CutShort(c)' => unsold'[SaleOf[c]] = 0
      BY DEF FundsFollow
    <2>1. CASE c \in Promised(s)
      <3>1. SaleOf[c] = s
        BY <2>1 DEF Promised
      <3>2. /\ commitment'[c] = "CONVERTED" /\ bought'[c] = filled[c]
            /\ funds'[c].status = IF filled[c] = Units[c] THEN "CONSUMED" ELSE "ACTIVE"
        BY <1>4, <2>1
      <3>3. filled[c] \in 1 .. Units[c] /\ Units[c] \in Nat
        BY <1>3, <2>1
      <3>4. CutShort(c)' <=> filled[c] # Units[c]
        BY <3>2, <3>3 DEF CutShort
      <3>5. CutShort(c)' => unsold'[s] = 0
        BY <1>3, <1>6, <2>1, <3>4
      <3>6. QED BY <3>1, <3>2, <3>3, <3>4, <3>5
    <2>2. CASE c \notin Promised(s)
      <3>1. commitment'[c] = commitment[c] /\ funds'[c] = funds[c] /\ bought'[c] = bought[c]
        BY <1>4, <2>2
      <3>2. CutShort(c)' = CutShort(c)
        BY <3>1 DEF CutShort
      <3>3. unsold[SaleOf[c]] = 0 => unsold'[SaleOf[c]] = 0
        <4>1. SaleOf[c] \in Sales
          OBVIOUS
        <4>2. CASE SaleOf[c] = s
          BY <1>6, <4>2
        <4>3. CASE SaleOf[c] # s
          BY <1>6, <4>1, <4>3
        <4>4. QED BY <4>2, <4>3
      <3>4. QED BY <3>1, <3>2, <3>3 DEF PreSaleInv, FundsFollow
    <2>3. QED BY <2>1, <2>2
  <1>9. /\ \A c \in Commitments \ Promised(s) : commitment'[c] = commitment[c]
        /\ \A c \in Promised(s) : commitment'[c] # "ACTIVE"
    BY <1>3, <1>4
  <1>10. QED BY <1>1, <1>7, <1>8, <1>9, SaleEnds

\* The offering opens before it has converted anything, and has nothing to sell in the
\* market when a commitment was cut short.
LEMMA OfferingKeeps ==
    ASSUME PreSaleInv, OpenedFirst, NEW s \in Sales, OpenOffering(s) \/ SellInMarket(s)
    PROVE  PreSaleInv'
  <1>1. UNCHANGED <<now, sale, commitment, funds, bought>>
    BY DEF OpenOffering, SellInMarket, money
  <1>2. unsold \in [Sales -> 0 .. Offered]
    BY DEF PreSaleInv, StatesOK
  <1>3. PICK n \in 0 .. Offered : unsold' = [unsold EXCEPT ![s] = n]
    <2>1. CASE OpenOffering(s)
      <3>1. Offered \in 0 .. Offered
        OBVIOUS
      <3>2. QED BY <2>1, <3>1 DEF OpenOffering
    <2>2. CASE SellInMarket(s)
      <3>1. unsold[s] - 1 \in 0 .. Offered
        BY <1>2, <2>2 DEF SellInMarket
      <3>2. QED BY <2>2, <3>1 DEF SellInMarket
    <2>3. QED BY <2>1, <2>2
  <1>4. StatesOK'
    BY <1>1, <1>2, <1>3 DEF PreSaleInv, StatesOK
  <1>5. ASSUME NEW c \in Commitments, CutShort(c)
        PROVE  unsold'[SaleOf[c]] = 0
    <2>1. SaleOf[c] \in opened /\ unsold[SaleOf[c]] = 0 /\ SaleOf[c] \in Sales
      BY <1>5 DEF CutShort, OpenedFirst, PreSaleInv, FundsFollow
    <2>2. SaleOf[c] # s
      BY <2>1 DEF OpenOffering, SellInMarket
    <2>3. QED BY <1>2, <1>3, <2>1, <2>2
  <1>6. \A c \in Commitments : CutShort(c)' = CutShort(c)
    BY <1>1 DEF CutShort
  <1>7. FundsFollow'
    BY <1>1, <1>5, <1>6 DEF PreSaleInv, FundsFollow
  <1>8. EndedSalesHoldNothing'
    BY <1>1 DEF PreSaleInv, EndedSalesHoldNothing, Promised
  <1>9. QED BY <1>4, <1>7, <1>8 DEF PreSaleInv

\* The sweep cancels, or changes nothing but what it remembers.
LEMMA ExpireNextKeeps ==
    ASSUME PreSaleInv, SweepsOK, NEW k \in Sweeps, ExpireNext(k)
    PROVE  PreSaleInv'
  <1>1. PICK s \in due[k] : /\ Cancels(s) \/ UNCHANGED <<sale, commitment, funds>>
                            /\ UNCHANGED <<now, bought, unsold>>
    BY DEF ExpireNext, offering
  <1>2. s \in Sales
    BY DEF SweepsOK
  <1>3. QED BY <1>1, <1>2, CancelsKeeps, StutterStep DEF PreSaleInv, StatesOK

\* Sweeps remember sales.
LEMMA SweepsKnowSales == SweepsOK /\ [Next]_vars => SweepsOK'
  <1> SUFFICES ASSUME SweepsOK, [Next]_vars PROVE SweepsOK'
    OBVIOUS
  <1>1. CASE \E k \in Sweeps : ReadDue(k) \/ ExpireNext(k) \/ FailSweep(k)
    <2>1. PICK k \in Sweeps : ReadDue(k) \/ ExpireNext(k) \/ FailSweep(k)
      BY <1>1
    <2>2. PICK left \in SUBSET Sales : due' = [due EXCEPT ![k] = left]
      <3>1. CASE ReadDue(k)
        BY <3>1 DEF ReadDue
      <3>2. CASE ExpireNext(k)
        <4>1. PICK s \in due[k] : \/ due' = [due EXCEPT ![k] = due[k] \ {s}]
                                  \/ due' = [due EXCEPT ![k] = {}]
          BY <3>2 DEF ExpireNext, SweepsOK
        <4>2. due[k] \ {s} \in SUBSET Sales
          BY DEF SweepsOK
        <4>3. QED BY <4>1, <4>2
      <3>3. CASE FailSweep(k)
        BY <3>3 DEF FailSweep
      <3>4. QED BY <2>1, <3>1, <3>2, <3>3
    <2>3. QED BY <2>2 DEF SweepsOK
  <1>2. CASE UNCHANGED due
    BY <1>2 DEF SweepsOK
  <1>3. QED BY <1>1, <1>2
        DEF Next, vars, ReadDraft, Launch, Pause, Resume, Cancel, FinalizeEmpty, ReadSeller,
            Finalize, Abandon, Extend, OpenOffering, SellInMarket, Secure, Reserve, ToggleHold, Tick

\* A sale is converted only after a finalization found it opened, and opened only once
\* no launch is in progress.
LEMMA OpenedFirstNext == PreSaleInv /\ SweepsOK /\ OpenedFirst /\ [Next]_vars => OpenedFirst'
  <1> SUFFICES ASSUME PreSaleInv, SweepsOK, OpenedFirst, [Next]_vars PROVE OpenedFirst'
    OBVIOUS
  <1>0. commitment \in [Commitments -> CommitmentStatuses]
    BY DEF PreSaleInv, StatesOK
  <1>1. ASSUME NEW s \in Sales, Finalize(s)
        PROVE  OpenedFirst'
    <2>1. /\ s \in finalizing /\ finalizing' = finalizing \ {s} /\ UNCHANGED <<opened, launching>>
          /\ commitment' = [c \in Commitments |->
                               IF c \in Promised(s) THEN "CONVERTED" ELSE commitment[c]]
      BY <1>1 DEF Finalize
    <2>2. QED BY <2>1 DEF OpenedFirst, Promised
  <1>2. ASSUME UNCHANGED <<launching, finalizing, opened>>,
               \A c \in Commitments : commitment'[c] = "CONVERTED" => commitment[c] = "CONVERTED"
        PROVE  OpenedFirst'
    BY <1>2 DEF OpenedFirst
  <1>3. ASSUME NEW s \in Sales, Cancels(s)
        PROVE  \A c \in Commitments : commitment'[c] = "CONVERTED" => commitment[c] = "CONVERTED"
    BY <1>3 DEF Cancels
  <1>4. ASSUME NEW s \in Sales, Cancel(s)
        PROVE  OpenedFirst'
    BY <1>2, <1>3, <1>4 DEF Cancel, calls, offering
  <1>5. ASSUME NEW k \in Sweeps, ExpireNext(k)
        PROVE  OpenedFirst'
    <2>1. PICK s \in due[k] : Cancels(s) \/ UNCHANGED commitment
      BY <1>5 DEF ExpireNext
    <2>2. s \in Sales /\ UNCHANGED <<launching, finalizing, opened>>
      BY <1>5 DEF SweepsOK, ExpireNext, calls, offering
    <2>3. QED BY <1>2, <1>3, <2>1, <2>2
  <1>6. ASSUME NEW c \in Commitments, Reserve(c)
        PROVE  OpenedFirst'
    <2>1. commitment' = [commitment EXCEPT ![c] = "ACTIVE"]
          /\ UNCHANGED <<launching, finalizing, opened>>
      BY <1>6 DEF Reserve, calls, offering
    <2>2. QED BY <1>0, <1>2, <2>1
  <1>7. ASSUME NEW s \in Sales,
               ReadDraft(s) \/ Launch(s) \/ ReadSeller(s) \/ Abandon(s) \/ OpenOffering(s)
        PROVE  OpenedFirst'
    <2>1. UNCHANGED commitment
      BY <1>7 DEF ReadDraft, Launch, ReadSeller, Abandon, OpenOffering
    <2>2. finalizing' \subseteq opened' /\ launching' \cap opened' = {} /\ opened \subseteq opened'
      BY <1>7 DEF OpenedFirst, ReadDraft, Launch, ReadSeller, Abandon, OpenOffering, offering, calls
    <2>3. QED BY <2>1, <2>2 DEF OpenedFirst
  <1>8. CASE \/ \E s \in Sales : \/ Pause(s) \/ Resume(s) \/ FinalizeEmpty(s) \/ SellInMarket(s)
                                 \/ Secure(s) \/ \E until \in 0 .. MaxTime : Extend(s, until)
             \/ \E k \in Sweeps : ReadDue(k) \/ FailSweep(k)
             \/ \E b \in Buyers : ToggleHold(b)
             \/ Tick \/ UNCHANGED vars
    <2>1. UNCHANGED <<commitment, launching, finalizing, opened>>
      BY <1>8 DEF Pause, Resume, FinalizeEmpty, SellInMarket, Secure, Extend, ReadDue, FailSweep,
                  ToggleHold, Tick, vars, calls, offering
    <2>2. QED BY <1>2, <2>1
  <1>9. QED BY <1>1, <1>4, <1>5, <1>6, <1>7, <1>8 DEF Next

----------------------------------------------------------------------------
(* The invariant *)

\* The invariant holds of drafts.
LEMMA PreSaleInvInit == Init => PreSaleInv /\ SweepsOK /\ OpenedFirst
  <1> SUFFICES ASSUME Init PROVE PreSaleInv /\ SweepsOK /\ OpenedFirst
    OBVIOUS
  <1>1. StatesOK /\ SweepsOK /\ OpenedFirst
    BY DEF Init, StatesOK, SweepsOK, OpenedFirst, Sale, SaleStatuses, CommitmentStatuses, Funds
  <1>2. FundsFollow /\ EndedSalesHoldNothing
    BY DEF Init, FundsFollow, EndedSalesHoldNothing, Promised
  <1>3. QED BY <1>1, <1>2 DEF PreSaleInv

\* Every step keeps the invariant.
LEMMA PreSaleInvNext == PreSaleInv /\ SweepsOK /\ OpenedFirst /\ [Next]_vars => PreSaleInv'
  <1> SUFFICES ASSUME PreSaleInv, SweepsOK, OpenedFirst, [Next]_vars PROVE PreSaleInv'
    OBVIOUS
  <1>1. ASSUME NEW s \in Sales,
               \/ FinalizeEmpty(s) \/ Launch(s) \/ Pause(s) \/ Resume(s)
               \/ \E until \in 0 .. MaxTime : Extend(s, until)
        PROVE  PreSaleInv'
    BY <1>1, AdministrationKeeps
  <1>2. ASSUME NEW s \in Sales, Cancel(s) \/ Finalize(s)
        PROVE  PreSaleInv'
    BY <1>2, CancelsKeeps, FinalizeKeeps DEF Cancel, offering
  <1>3. CASE \E c \in Commitments : Reserve(c)
    BY <1>3, ReserveKeeps
  <1>4. CASE \E k \in Sweeps : ExpireNext(k)
    BY <1>4, ExpireNextKeeps
  <1>5. ASSUME NEW s \in Sales, OpenOffering(s) \/ SellInMarket(s)
        PROVE  PreSaleInv'
    BY <1>5, OfferingKeeps
  <1>6. CASE \/ \E s \in Sales : ReadDraft(s) \/ ReadSeller(s) \/ Abandon(s) \/ Secure(s)
             \/ \E k \in Sweeps : ReadDue(k) \/ FailSweep(k)
             \/ \E b \in Buyers : ToggleHold(b)
             \/ Tick \/ UNCHANGED vars
    <2>1. UNCHANGED <<sale, commitment, funds, bought, unsold>> /\ now' \in Int
      BY <1>6 DEF ReadDraft, ReadSeller, Abandon, Secure, ReadDue, FailSweep, ToggleHold, Tick, vars,
                  money, offering, PreSaleInv, StatesOK
    <2>2. QED BY <2>1, StutterStep
  <1>7. QED BY <1>1, <1>2, <1>3, <1>4, <1>5, <1>6 DEF Next

\* Launches, reservations, pauses, extensions, cancellations, finalizations and sweeps
\* keep the inductive invariant, for any sales and commitments.
THEOREM PreSaleInvariant == Spec => [](PreSaleInv /\ SweepsOK /\ OpenedFirst)
  BY PreSaleInvInit, PreSaleInvNext, SweepsKnowSales, OpenedFirstNext, PTL DEF Spec

\* A commitment never stands without its cash, nor cash without its commitment,
\* whatever ends the sale and however late the sweep comes.
THEOREM FundsFollowAlways == Spec => []FundsFollow
  <1>1. PreSaleInv => FundsFollow
    BY DEF PreSaleInv
  <1>2. QED BY <1>1, PreSaleInvariant, PTL

\* Cancelled and converted sales have no commitment left, also after they are
\* extended, finalized or swept once more.
THEOREM EndedSalesHoldNothingAlways == Spec => []EndedSalesHoldNothing
  <1>1. PreSaleInv => EndedSalesHoldNothing
    BY DEF PreSaleInv
  <1>2. QED BY <1>1, PreSaleInvariant, PTL

----------------------------------------------------------------------------
(* What the cash of a buyer adds up to *)

\* The commitments of buyer b, and those of them whose cash is held.
By(b) == {c \in Commitments : BuyerOf[c] = b}

Backing(b) == {c \in Commitments : funds[c].status = "ACTIVE" /\ BuyerOf[c] = b}

PromisedBy(s, b) == {c \in Promised(s) : BuyerOf[c] = b}

Accounted(b) ==
    /\ cash[b] = Opening[b] - SumFunctionOnSet(Paid, By(b))
    /\ reserved[b] = SumFunctionOnSet(Held, Backing(b))
    /\ reserved[b] <= cash[b]

\* What a commitment holds until it ends is its reservation, and nothing is bought of it.
Pending ==
    \A c \in Commitments :
        /\ commitment[c] = "ACTIVE" => funds[c].amount = Reservation(c)
        /\ commitment[c] # "CONVERTED" => bought[c] = 0

CashInv ==
    /\ cash \in [Buyers -> Int] /\ reserved \in [Buyers -> Int]
    /\ Pending
    /\ \A b \in Buyers : Accounted(b)

\* Every buyer opens with some cash, or none.
LEMMA OpeningNat == \A b \in Buyers : Opening[b] \in Nat
  <1>1. Opening \in [Buyers -> Nat]
    BY PreSaleAssumption, Zenon
  <1>2. QED BY <1>1

\* What a commitment reserves is at most what settling it whole takes: one fee is rounded
\* down, the other up.
LEMMA ReservationIsNoMore ==
    ASSUME NEW c \in Commitments
    PROVE  Reservation(c) <= Reduction(Units[c])
  <1>0. Notional[c] \in Nat
    BY AmountsNat
  <1>1. Notional[c] * TakerFeeBps \in Nat
    BY <1>0, ProductNat
  <1> DEFINE fee == Notional[c] * TakerFeeBps
  <1>2. Reduction(Units[c]) = Notional[c] + (fee + 9999) \div 10000
    BY DEF Reduction, FeeMinor, Notional
  <1>3. Reservation(c) = Notional[c] + fee \div 10000
    BY DEF Reservation
  <1> HIDE DEF fee
  <1>4. fee \div 10000 <= (fee + 9999) \div 10000 /\ (fee + 9999) \div 10000 >= 0
        /\ fee \div 10000 \in Int /\ (fee + 9999) \div 10000 \in Int
    <2>1. fee \in Nat
      BY <1>1 DEF fee
    <2>2. QED BY <2>1
  <1>5. QED BY <1>0, <1>2, <1>3, <1>4

\* Amounts of finitely many commitments have a sum.
LEMMA AmountsSum ==
    ASSUME StatesOK, NEW T \in SUBSET Commitments
    PROVE  /\ IsFiniteSet(T)
           /\ SumFunctionOnSet(Paid, T) \in Nat
           /\ SumFunctionOnSet(Held, T) \in Nat
           /\ \A c \in T : Paid[c] \in Nat /\ Held[c] \in Nat
  <1>1. IsFiniteSet(Commitments)
    BY PreSaleAssumption, Zenon
  <1>2. IsFiniteSet(T)
    BY <1>1, FS_Subset
  <1>3. ASSUME NEW c \in T PROVE Paid[c] \in Nat /\ Held[c] \in Nat
    <2>1. c \in Commitments /\ bought[c] \in Nat
      BY DEF StatesOK
    <2>2. QED BY <2>1, ReductionNat DEF StatesOK, Funds, Held, Paid
  <1>4. SumFunctionOnSet(Paid, T) \in Nat /\ SumFunctionOnSet(Held, T) \in Nat
    BY <1>2, <1>3, SumNat
  <1>5. QED BY <1>2, <1>3, <1>4

\* Steps that leave the cash and what it stands for alone.
LEMMA UntouchedAccounts ==
    ASSUME CashInv, UNCHANGED <<commitment, funds, bought, cash, reserved>>
    PROVE  CashInv'
  <1>1. Held' = Held /\ Paid' = Paid /\ \A b \in Buyers : Backing(b)' = Backing(b)
    BY DEF Held, Paid, Backing
  <1>2. \A b \in Buyers : Accounted(b)'
    BY <1>1 DEF CashInv, Accounted, By
  <1>3. QED BY <1>2 DEF CashInv, Pending

\* A new commitment adds its reservation to those of its buyer, who has the cash.
LEMMA ReserveAccounts ==
    ASSUME PreSaleInv, CashInv, NEW c \in Commitments, Reserve(c)
    PROVE  CashInv'
  <1> DEFINE amount == Reservation(c)
             buyer == BuyerOf[c]
  <1>1. /\ commitment' = [commitment EXCEPT ![c] = "ACTIVE"]
        /\ funds' = [funds EXCEPT ![c] = [status |-> "ACTIVE", amount |-> amount]]
        /\ reserved' = [reserved EXCEPT ![buyer] = @ + amount]
        /\ cash' = cash /\ cash[buyer] - reserved[buyer] >= amount
        /\ commitment[c] = "NONE" /\ bought' = bought
    BY DEF Reserve
  <1>2. /\ commitment \in [Commitments -> CommitmentStatuses] /\ funds \in [Commitments -> Funds]
        /\ cash \in [Buyers -> Int] /\ reserved \in [Buyers -> Int]
        /\ StatesOK /\ funds[c].status = "NONE" /\ amount \in Nat
    BY <1>1, AmountsNat DEF PreSaleInv, StatesOK, FundsFollow, CashInv
  <1>3. StatesOK'
    BY ReserveKeeps DEF PreSaleInv
  <1> HIDE DEF amount
  <1>4. /\ funds'[c].status = "ACTIVE" /\ funds'[c].amount = amount
        /\ commitment'[c] = "ACTIVE"
        /\ \A d \in Commitments : d # c => funds'[d] = funds[d] /\ commitment'[d] = commitment[d]
    BY <1>1, <1>2
  <1>5. Held'[c] = amount /\ \A d \in Commitments : d # c => Held'[d] = Held[d]
    BY <1>4 DEF Held
  <1>6. ASSUME NEW b \in Buyers PROVE Accounted(b)'
    <2>1. /\ cash[b] = Opening[b] - SumFunctionOnSet(Paid, By(b))
          /\ reserved[b] = SumFunctionOnSet(Held, Backing(b))
          /\ reserved[b] <= cash[b]
      BY DEF CashInv, Accounted
    <2>2. Paid' = Paid /\ By(b)' = By(b)
      BY <1>1 DEF Paid, By
    <2>3. /\ Backing(b) \in SUBSET Commitments /\ c \notin Backing(b)
          /\ Backing(b)' = IF b = buyer THEN Backing(b) \cup {c} ELSE Backing(b)
      BY <1>2, <1>4 DEF Backing
    <2>4. IsFiniteSet(Backing(b)) /\ SumFunctionOnSet(Held, Backing(b)) \in Nat
      BY <1>2, <2>3, AmountsSum
    <2>5. SumFunctionOnSet(Held', Backing(b)) = SumFunctionOnSet(Held, Backing(b))
      <3>1. \A d \in Backing(b) : Held'[d] = Held[d]
        BY <1>5, <2>3
      <3>2. QED BY <2>4, <3>1, SumSame
    <2>6. CASE b = buyer
      <3>1. SumFunctionOnSet(Held', Backing(b) \cup {c})
                = amount + SumFunctionOnSet(Held', Backing(b))
        <4>1. \A d \in Backing(b) \cup {c} : Held'[d] \in Int
          BY <1>3, <2>3 DEF StatesOK, Funds, Held
        <4>2. QED BY <1>5, <2>3, <2>4, <4>1, SumAdd
      <3>2. reserved'[b] = reserved[b] + amount /\ cash'[b] = cash[b]
        BY <1>1, <1>2, <2>6
      <3>3. reserved[b] \in Int /\ cash[b] \in Int /\ cash[b] - reserved[b] >= amount
        BY <1>1, <1>2, <2>6
      <3>4. reserved'[b] = SumFunctionOnSet(Held', Backing(b)')
        BY <1>2, <2>1, <2>3, <2>4, <2>5, <2>6, <3>1, <3>2, <3>3
      <3>5. reserved'[b] <= cash'[b]
        BY <1>2, <3>2, <3>3
      <3>6. QED BY <2>1, <2>2, <3>2, <3>4, <3>5 DEF Accounted
    <2>7. CASE b # buyer
      <3>1. reserved'[b] = reserved[b] /\ cash'[b] = cash[b]
        BY <1>1, <1>2, <2>7
      <3>2. QED BY <2>1, <2>2, <2>3, <2>5, <2>7, <3>1 DEF Accounted
    <2>8. QED BY <2>6, <2>7
  <1>7. Pending'
    <2> SUFFICES ASSUME NEW d \in Commitments
                 PROVE  /\ commitment'[d] = "ACTIVE" => funds'[d].amount = Reservation(d)
                        /\ commitment'[d] # "CONVERTED" => bought'[d] = 0
      BY DEF Pending, Reservation, Notional
    <2>1. QED BY <1>1, <1>4 DEF CashInv, Pending, amount
  <1>8. reserved' \in [Buyers -> Int]
    <2>1. \A b \in Buyers : reserved[b] \in Int /\ reserved[b] + amount \in Int
      BY <1>2
    <2>2. QED BY <1>1, <1>2, <2>1
  <1>9. QED BY <1>1, <1>2, <1>6, <1>7, <1>8 DEF CashInv

\* The commitments of a sale are among those that hold cash.
LEMMA PromisedBacks ==
    ASSUME PreSaleInv, NEW s \in Sales, NEW b \in Buyers
    PROVE  /\ Promised(s) \in SUBSET Commitments
           /\ \A c \in Promised(s) : commitment[c] = "ACTIVE" /\ funds[c].status = "ACTIVE"
           /\ PromisedBy(s, b) \in SUBSET Backing(b)
           /\ Backing(b) \in SUBSET Commitments
           /\ SumFunctionOnSet(Held, Backing(b)) =
                  SumFunctionOnSet(Held, PromisedBy(s, b))
                  + SumFunctionOnSet(Held, Backing(b) \ PromisedBy(s, b))
  <1>1. /\ Promised(s) \in SUBSET Commitments
        /\ \A c \in Promised(s) : commitment[c] = "ACTIVE" /\ funds[c].status = "ACTIVE"
    BY DEF Promised, PreSaleInv, FundsFollow
  <1>2. /\ PromisedBy(s, b) \in SUBSET Backing(b)
        /\ Backing(b) \in SUBSET Commitments
    BY <1>1 DEF PromisedBy, Backing
  <1>3. StatesOK
    BY DEF PreSaleInv
  <1>4. IsFiniteSet(Backing(b))
    BY <1>2, <1>3, AmountsSum
  <1>5. \A c \in Backing(b) : Held[c] \in Int
    BY <1>2, <1>3 DEF StatesOK, Funds, Held
  <1>6. QED BY <1>1, <1>2, <1>4, <1>5, SumSplit

\* Cancelling gives back what the commitments of the sale hold.
LEMMA CancelsAccounts ==
    ASSUME PreSaleInv, CashInv, NEW s \in Sales, Cancels(s), UNCHANGED <<bought, cash>>
    PROVE  CashInv'
  <1>1. \A c \in Promised(s) : commitment[c] = "ACTIVE" /\ funds[c].status = "ACTIVE"
    BY DEF Promised, PreSaleInv, FundsFollow
  <1>2. {c \in Promised(s) : funds[c].status = "ACTIVE"} = Promised(s)
    BY <1>1
  <1>3. /\ commitment' = [c \in Commitments |->
                             IF c \in Promised(s) THEN "RELEASED" ELSE commitment[c]]
        /\ funds' = [c \in Commitments |->
                        IF c \in Promised(s) THEN [funds[c] EXCEPT !.status = "RELEASED"]
                        ELSE funds[c]]
        /\ reserved' = [b \in Buyers |->
                           reserved[b] - SumFunctionOnSet(Held, PromisedBy(s, b))]
    BY <1>2 DEF Cancels, SumOf, PromisedBy
  <1>4. /\ StatesOK /\ funds \in [Commitments -> Funds]
        /\ cash \in [Buyers -> Int] /\ reserved \in [Buyers -> Int]
    BY DEF PreSaleInv, StatesOK, CashInv
  <1>5. ASSUME NEW c \in Commitments
        PROVE  /\ funds'[c].amount = funds[c].amount
               /\ c \in Promised(s) => funds'[c].status = "RELEASED" /\ commitment'[c] = "RELEASED"
               /\ c \notin Promised(s) => funds'[c] = funds[c] /\ commitment'[c] = commitment[c]
    <2>1. funds[c] \in Funds
      BY <1>4
    <2>2. /\ [funds[c] EXCEPT !.status = "RELEASED"].status = "RELEASED"
          /\ [funds[c] EXCEPT !.status = "RELEASED"].amount = funds[c].amount
      BY <2>1 DEF Funds
    <2>3. QED BY <1>3, <2>2
  <1>6. Held' = Held
    BY <1>5 DEF Held
  <1>7. ASSUME NEW b \in Buyers
        PROVE  Accounted(b)' /\ reserved'[b] \in Int
    <2>1. /\ cash[b] = Opening[b] - SumFunctionOnSet(Paid, By(b))
          /\ reserved[b] = SumFunctionOnSet(Held, Backing(b))
          /\ reserved[b] <= cash[b]
      BY DEF CashInv, Accounted
    <2>2. /\ PromisedBy(s, b) \in SUBSET Backing(b) /\ Backing(b) \in SUBSET Commitments
          /\ SumFunctionOnSet(Held, Backing(b)) =
                SumFunctionOnSet(Held, PromisedBy(s, b))
                + SumFunctionOnSet(Held, Backing(b) \ PromisedBy(s, b))
      BY PromisedBacks
    <2>3. Backing(b)' = Backing(b) \ PromisedBy(s, b)
      BY <1>5 DEF Backing, PromisedBy
    <2>4. Paid' = Paid /\ By(b)' = By(b)
      BY DEF Paid, By
    <2>5. /\ SumFunctionOnSet(Held, PromisedBy(s, b)) \in Nat
          /\ SumFunctionOnSet(Held, Backing(b) \ PromisedBy(s, b)) \in Nat
      BY <1>4, <2>2, AmountsSum
    <2>6. reserved'[b] = reserved[b] - SumFunctionOnSet(Held, PromisedBy(s, b))
      BY <1>3
    <2>7. reserved[b] \in Int /\ cash[b] \in Int
      BY <1>4
    <2>8. /\ reserved'[b] = SumFunctionOnSet(Held, Backing(b) \ PromisedBy(s, b))
          /\ reserved'[b] <= cash[b] /\ reserved'[b] \in Int
      BY <2>1, <2>2, <2>5, <2>6, <2>7
    <2>9. QED BY <1>6, <2>1, <2>3, <2>4, <2>8 DEF Accounted
  <1>8. reserved' \in [Buyers -> Int]
    BY <1>3, <1>7
  <1>9. Pending'
    <2> SUFFICES ASSUME NEW c \in Commitments
                 PROVE  /\ commitment'[c] = "ACTIVE" => funds'[c].amount = Reservation(c)
                        /\ commitment'[c] # "CONVERTED" => bought'[c] = 0
      BY DEF Pending, Reservation, Notional
    <2>1. commitment[c] = "CONVERTED" => commitment'[c] = "CONVERTED"
      BY <1>1, <1>5
    <2>2. QED BY <1>5, <2>1 DEF CashInv, Pending
  <1>10. QED BY <1>4, <1>7, <1>8, <1>9 DEF CashInv

\* Finalizing takes the reserved cash of the commitments, which pays for the units filled:
\* of a whole one the settlement takes exactly what it holds, of one cut short a part.
LEMMA FinalizeAccounts ==
    ASSUME PreSaleInv, CashInv, NEW s \in Sales, Finalize(s)
    PROVE  CashInv'
  <1>a. PICK last \in Promised(s) : \E filled : Conversion(s, last, filled)
    BY FinalizeConverts
  <1>0. PICK filled : Conversion(s, last, filled)
    BY <1>a
  <1> DEFINE cost == [c \in Commitments |-> Gross(Price, filled[c])]
             taken == [c \in Commitments |-> Reduction(filled[c])]
  <1>1. /\ Promised(s) \in SUBSET Commitments
        /\ \A c \in Promised(s) : commitment[c] = "ACTIVE" /\ funds[c].status = "ACTIVE"
    BY DEF Promised, PreSaleInv, FundsFollow
  <1>2. /\ \A c \in Promised(s) : Settles(c, filled[c])
        /\ commitment' = [c \in Commitments |->
                             IF c \in Promised(s) THEN "CONVERTED" ELSE commitment[c]]
        /\ bought' = [c \in Commitments |-> IF c \in Promised(s) THEN filled[c] ELSE bought[c]]
        /\ funds' = [c \in Commitments |->
                        IF c \in Promised(s)
                        THEN [status |-> FundsAfter(c, filled[c]),
                              amount |-> funds[c].amount - taken[c]]
                        ELSE funds[c]]
        /\ cash' = [b \in Buyers |-> cash[b] - SumFunctionOnSet(cost, PromisedBy(s, b))]
        /\ reserved' = [b \in Buyers |-> reserved[b] - SumFunctionOnSet(taken, PromisedBy(s, b))]
    BY <1>0 DEF Conversion, SumOf, PromisedBy
  <1>3. /\ StatesOK /\ cash \in [Buyers -> Int] /\ reserved \in [Buyers -> Int] /\ Pending
    BY DEF PreSaleInv, StatesOK, CashInv
  <1>4. StatesOK'
    BY FinalizeKeeps DEF PreSaleInv
  <1>5. ASSUME NEW c \in Commitments, c \notin Promised(s)
        PROVE  /\ funds'[c] = funds[c] /\ commitment'[c] = commitment[c] /\ bought'[c] = bought[c]
               /\ Held'[c] = Held[c] /\ Paid'[c] = Paid[c]
    BY <1>2, <1>5 DEF Held, Paid
  <1>6. ASSUME NEW c \in Promised(s)
        PROVE  /\ c \in Commitments /\ commitment'[c] = "CONVERTED"
               /\ Held'[c] = Held[c] - taken[c] /\ Paid'[c] = cost[c] /\ Paid[c] = 0
               /\ cost[c] \in Nat /\ taken[c] \in Nat /\ cost[c] <= taken[c]
               /\ funds'[c].status # "ACTIVE" => Held'[c] = 0
    <2>1. c \in Commitments /\ filled[c] \in 1 .. Units[c] /\ Units[c] \in Nat
      BY <1>0, <1>1, <1>3, ConversionFills
    <2>2. filled[c] \in Nat
      BY <2>1
    <2>3. cost[c] \in Nat /\ taken[c] \in Nat /\ cost[c] <= taken[c]
      BY <2>1, <2>2, ReductionNat
    <2>4. commitment'[c] = "CONVERTED" /\ bought'[c] = filled[c]
          /\ funds'[c].amount = funds[c].amount - taken[c]
          /\ funds'[c].status = FundsAfter(c, filled[c])
      BY <1>2, <2>1
    <2>5. Held'[c] = Held[c] - taken[c] /\ Held'[c] = funds'[c].amount
      BY <2>1, <2>4 DEF Held
    <2>6. Paid'[c] = cost[c]
      BY <2>1, <2>4 DEF Paid
    <2>7. Paid[c] = 0
      <3>1. bought[c] = 0
        BY <1>1, <1>3, <2>1 DEF Pending
      <3>2. Gross(Price, 0) = 0
        BY DEF Gross
      <3>3. QED BY <2>1, <3>1, <3>2 DEF Paid
    <2>8. ASSUME funds'[c].status # "ACTIVE"
          PROVE  Held'[c] = 0
      <3>1. filled[c] = Units[c]
        BY <2>4, <2>8 DEF FundsAfter
      <3>2. funds[c].amount = Reservation(c) /\ funds[c].amount >= taken[c]
        BY <1>1, <1>2, <1>3, <2>1 DEF Pending, Settles
      <3>3. Reservation(c) <= taken[c] /\ Reservation(c) \in Nat
        BY <2>1, <3>1, ReservationIsNoMore, AmountsNat
      <3>4. funds'[c].amount = Reservation(c) - taken[c]
        BY <2>4, <3>2
      <3> HIDE DEF taken
      <3>5. Reservation(c) - taken[c] = 0
        BY <2>3, <3>2, <3>3
      <3>6. QED BY <2>5, <3>4, <3>5
    <2> HIDE DEF cost, taken
    <2>9. QED BY <2>1, <2>3, <2>4, <2>5, <2>6, <2>7, <2>8
  <1> HIDE DEF cost, taken
  <1>7. ASSUME NEW b \in Buyers
        PROVE  Accounted(b)' /\ reserved'[b] \in Int /\ cash'[b] \in Int
    <2> DEFINE P == PromisedBy(s, b)
               B == Backing(b)
               C == Backing(b)'
               O == By(b)
               paid == SumFunctionOnSet(cost, P)
               gone == SumFunctionOnSet(taken, P)
    <2>1. /\ cash[b] = Opening[b] - SumFunctionOnSet(Paid, O)
          /\ reserved[b] = SumFunctionOnSet(Held, B)
          /\ reserved[b] <= cash[b]
      BY DEF CashInv, Accounted
    <2>2. /\ P \in SUBSET B /\ B \in SUBSET O /\ O \in SUBSET Commitments
          /\ P \in SUBSET Promised(s) /\ \A c \in O \ P : c \notin Promised(s)
      BY <1>1 DEF PromisedBy, Backing, By
    <2>3. C \in SUBSET B /\ \A c \in B \ C : c \in P /\ funds'[c].status # "ACTIVE"
      <3>1. \A c \in Commitments \ Promised(s) : funds'[c] = funds[c]
        BY <1>5
      <3>2. QED BY <1>1, <3>1 DEF Backing, PromisedBy
    <2> HIDE DEF P, B, C, O
    <2>4. /\ IsFiniteSet(P) /\ IsFiniteSet(B) /\ IsFiniteSet(O)
          /\ IsFiniteSet(O \ P) /\ IsFiniteSet(B \ P) /\ IsFiniteSet(B \ C)
      BY <1>3, <2>2, <2>3, AmountsSum, FS_Subset
    <2>5. \A c \in O : /\ Held[c] \in Int /\ Held'[c] \in Int
                       /\ Paid[c] \in Int /\ Paid'[c] \in Int
      <3>1. \A c \in O : Held[c] \in Nat /\ Paid[c] \in Nat
        BY <1>3, <2>2, AmountsSum
      <3>2. \A c \in Commitments : Held'[c] \in Nat /\ Paid'[c] \in Nat
        <4> SUFFICES ASSUME NEW c \in Commitments PROVE Held'[c] \in Nat /\ Paid'[c] \in Nat
          OBVIOUS
        <4>1. bought'[c] \in Nat /\ funds'[c].amount \in Nat
          BY <1>4 DEF StatesOK, Funds
        <4>2. QED BY <4>1, ReductionNat DEF Held, Paid
      <3>3. QED BY <2>2, <3>1, <3>2
    <2>6. paid \in Nat /\ gone \in Nat /\ paid <= gone
      <3>1. \A c \in P : cost[c] \in Nat /\ taken[c] \in Nat /\ cost[c] <= taken[c]
        BY <1>6, <2>2
      <3>2. paid \in Nat /\ gone \in Nat
        BY <2>4, <3>1, SumNat
      <3>3. paid <= gone
        BY <2>4, <3>1, SumAtMost
      <3>4. QED BY <3>2, <3>3
    <2>7. SumFunctionOnSet(Held', B) = SumFunctionOnSet(Held, B) - gone
      <3>1. SumFunctionOnSet(Held', B)
                = SumFunctionOnSet(Held', P) + SumFunctionOnSet(Held', B \ P)
        BY <2>2, <2>4, <2>5, SumSplit
      <3>2. SumFunctionOnSet(Held, B)
                = SumFunctionOnSet(Held, P) + SumFunctionOnSet(Held, B \ P)
        BY <2>2, <2>4, <2>5, SumSplit
      <3>3. SumFunctionOnSet(Held', P) = SumFunctionOnSet(Held, P) - gone
        <4>1. \A c \in P : /\ Held[c] \in Int /\ taken[c] \in Int
                           /\ Held'[c] = Held[c] - taken[c]
          BY <1>6, <2>2, <2>5
        <4>2. QED BY <2>4, <4>1, SumMinus
      <3>4. SumFunctionOnSet(Held', B \ P) = SumFunctionOnSet(Held, B \ P)
        <4>1. \A c \in B \ P : Held'[c] = Held[c]
          BY <1>5, <2>2
        <4>2. QED BY <2>4, <4>1, SumSame
      <3>5. SumFunctionOnSet(Held, P) \in Int /\ SumFunctionOnSet(Held, B \ P) \in Int
        BY <2>2, <2>4, <2>5, SumInt
      <3> HIDE DEF gone
      <3>6. QED BY <2>6, <3>1, <3>2, <3>3, <3>4, <3>5
    <2>8. SumFunctionOnSet(Held', C) = SumFunctionOnSet(Held', B)
      <3>1. SumFunctionOnSet(Held', B)
                = SumFunctionOnSet(Held', C) + SumFunctionOnSet(Held', B \ C)
        BY <2>2, <2>3, <2>4, <2>5, SumSplit
      <3>2. SumFunctionOnSet(Held', B \ C) = 0
        <4>1. \A c \in B \ C : Held'[c] = 0
          BY <1>6, <2>2, <2>3
        <4>2. QED BY <2>4, <4>1, SumZero
      <3>3. IsFiniteSet(C) /\ \A c \in C : Held'[c] \in Int
        BY <2>2, <2>3, <2>4, <2>5, FS_Subset
      <3>4. SumFunctionOnSet(Held', C) \in Int
        BY <3>3, SumInt
      <3>5. QED BY <3>1, <3>2, <3>4
    <2>9. SumFunctionOnSet(Paid', O) = SumFunctionOnSet(Paid, O) + paid
      <3>1. SumFunctionOnSet(Paid', O)
                = SumFunctionOnSet(Paid', P) + SumFunctionOnSet(Paid', O \ P)
        BY <2>2, <2>4, <2>5, SumSplit
      <3>2. SumFunctionOnSet(Paid, O)
                = SumFunctionOnSet(Paid, P) + SumFunctionOnSet(Paid, O \ P)
        BY <2>2, <2>4, <2>5, SumSplit
      <3>3. SumFunctionOnSet(Paid', P) = paid
        <4>1. \A c \in P : Paid'[c] = cost[c]
          BY <1>6, <2>2
        <4>2. QED BY <2>4, <4>1, SumSame
      <3>4. SumFunctionOnSet(Paid, P) = 0
        <4>1. \A c \in P : Paid[c] = 0
          BY <1>6, <2>2
        <4>2. QED BY <2>4, <4>1, SumZero
      <3>5. SumFunctionOnSet(Paid', O \ P) = SumFunctionOnSet(Paid, O \ P)
        <4>1. \A c \in O \ P : Paid'[c] = Paid[c]
          BY <1>5, <2>2
        <4>2. QED BY <2>4, <4>1, SumSame
      <3>6. SumFunctionOnSet(Paid, O \ P) \in Int
        BY <2>2, <2>4, <2>5, SumInt
      <3> HIDE DEF paid
      <3>7. QED BY <2>6, <3>1, <3>2, <3>3, <3>4, <3>5, <3>6
    <2>10. reserved'[b] = reserved[b] - gone /\ cash'[b] = cash[b] - paid
      BY <1>2 DEF P
    <2>11. /\ reserved[b] \in Int /\ cash[b] \in Int /\ Opening[b] \in Int
           /\ SumFunctionOnSet(Paid, O) \in Int /\ SumFunctionOnSet(Held, B) \in Int
      BY <1>3, <2>2, <2>4, <2>5, OpeningNat, SumInt
    <2> HIDE DEF paid, gone
    <2>12. /\ reserved'[b] = SumFunctionOnSet(Held', C)
           /\ cash'[b] = Opening[b] - SumFunctionOnSet(Paid', O)
           /\ reserved'[b] <= cash'[b] /\ reserved'[b] \in Int /\ cash'[b] \in Int
      BY <2>1, <2>6, <2>7, <2>8, <2>9, <2>10, <2>11
    <2>13. By(b)' = O
      BY DEF By, O
    <2>14. QED BY <2>12, <2>13 DEF Accounted, C
  <1>8. cash' \in [Buyers -> Int] /\ reserved' \in [Buyers -> Int]
    BY <1>2, <1>7
  <1>9. Pending'
    <2> SUFFICES ASSUME NEW c \in Commitments
                 PROVE  /\ commitment'[c] = "ACTIVE" => funds'[c].amount = Reservation(c)
                        /\ commitment'[c] # "CONVERTED" => bought'[c] = 0
      BY DEF Pending, Reservation, Notional
    <2>1. QED BY <1>3, <1>5, <1>6 DEF Pending
  <1>10. QED BY <1>7, <1>8, <1>9 DEF CashInv

\* Nothing is held or bought of a draft.
LEMMA CashInvInit == Init => CashInv
  <1> SUFFICES ASSUME Init PROVE CashInv
    OBVIOUS
  <1>1. \A b \in Buyers : Backing(b) = {}
    BY DEF Init, Backing
  <1>2. \A b \in Buyers : Opening[b] \in Nat /\ cash[b] = Opening[b] /\ reserved[b] = 0
    BY OpeningNat DEF Init
  <1>5. cash \in [Buyers -> Int] /\ reserved \in [Buyers -> Int]
    <2>1. Opening \in [Buyers -> Nat]
      BY PreSaleAssumption, Zenon
    <2>2. QED BY <2>1 DEF Init
  <1>6. Pending
    BY DEF Init, Pending
  <1>3. \A b \in Buyers : Accounted(b)
    <2> SUFFICES ASSUME NEW b \in Buyers PROVE Accounted(b)
      OBVIOUS
    <2>1. SumFunctionOnSet(Held, Backing(b)) = 0
      BY <1>1, SumEmpty, Zenon
    <2>0. SumFunctionOnSet(Paid, By(b)) = 0
      <3>1. IsFiniteSet(Commitments) /\ By(b) \in SUBSET Commitments
        BY PreSaleAssumption, Zenon DEF By
      <3>2. Gross(Price, 0) = 0
        BY DEF Gross
      <3>3. \A c \in By(b) : Paid[c] = 0
        BY <3>1, <3>2 DEF Init, Paid
      <3>4. QED BY <3>1, <3>3, FS_Subset, SumZero
    <2>2. Opening[b] - 0 = Opening[b] /\ 0 <= Opening[b]
      BY <1>2
    <2>3. QED BY <1>2, <2>0, <2>1, <2>2 DEF Accounted
  <1>4. QED BY <1>3, <1>5, <1>6 DEF CashInv

\* Every step keeps the cash accounted for.
LEMMA CashInvNext == PreSaleInv /\ SweepsOK /\ CashInv /\ [Next]_vars => CashInv'
  <1> SUFFICES ASSUME PreSaleInv, SweepsOK, CashInv, [Next]_vars PROVE CashInv'
    OBVIOUS
  <1>1. ASSUME NEW s \in Sales, Cancel(s) \/ Finalize(s)
        PROVE  CashInv'
    BY <1>1, CancelsAccounts, FinalizeAccounts DEF Cancel
  <1>2. CASE \E c \in Commitments : Reserve(c)
    BY <1>2, ReserveAccounts
  <1>3. ASSUME NEW k \in Sweeps, ExpireNext(k)
        PROVE  CashInv'
    <2>1. PICK s \in due[k] : /\ Cancels(s) \/ UNCHANGED <<commitment, funds, reserved>>
                              /\ UNCHANGED <<bought, cash>>
      BY <1>3 DEF ExpireNext
    <2>2. s \in Sales
      BY DEF SweepsOK
    <2>3. QED BY <2>1, <2>2, CancelsAccounts, UntouchedAccounts
  <1>4. CASE \/ \E s \in Sales : \/ ReadDraft(s) \/ Launch(s) \/ Pause(s) \/ Resume(s)
                                 \/ FinalizeEmpty(s) \/ ReadSeller(s) \/ Abandon(s)
                                 \/ \E until \in 0 .. MaxTime : Extend(s, until)
                                 \/ OpenOffering(s) \/ SellInMarket(s) \/ Secure(s)
             \/ \E k \in Sweeps : ReadDue(k) \/ FailSweep(k)
             \/ \E b \in Buyers : ToggleHold(b)
             \/ Tick \/ UNCHANGED vars
    <2>1. UNCHANGED <<commitment, funds, bought, cash, reserved>>
      BY <1>4 DEF ReadDraft, Launch, Pause, Resume, FinalizeEmpty, ReadSeller, Abandon, Extend, OpenOffering, SellInMarket, Secure, ReadDue,
                  FailSweep, ToggleHold, Tick, vars, money
    <2>2. QED BY <2>1, UntouchedAccounts
  <1>5. QED BY <1>1, <1>2, <1>3, <1>4 DEF Next

\* Reservations, cancellations, finalizations and sweeps leave the cash of every buyer
\* accounted for.
THEOREM CashInvariant == Spec => []CashInv
  BY CashInvInit, CashInvNext, PreSaleInvariant, PTL DEF Spec

\* What is held of a buyer's cash is what its standing commitments hold, what is gone is
\* what its converted ones cost, and it never holds more than it has.
THEOREM CashAlwaysAddsUp == Spec => []CashAddsUp
  <1>1. CashInv => CashAddsUp
    <2> SUFFICES ASSUME CashInv, NEW b \in Buyers
                 PROVE  /\ cash[b] = Opening[b] - SumOf(Paid, b, Commitments)
                        /\ reserved[b] = SumOf(Held, b,
                                         {c \in Commitments : funds[c].status = "ACTIVE"})
                        /\ reserved[b] <= cash[b]
      BY DEF CashAddsUp
    <2>1. {c \in {d \in Commitments : funds[d].status = "ACTIVE"} : BuyerOf[c] = b} = Backing(b)
      BY DEF Backing
    <2>2. QED BY <2>1 DEF CashInv, Accounted, SumOf, By
  <1>2. QED BY <1>1, CashInvariant, PTL

----------------------------------------------------------------------------
(* What a sale has promised and converted *)

Placed(s) == {c \in Commitments : SaleOf[c] = s /\ commitment[c] \in {"ACTIVE", "CONVERTED"}}

\* A sale that has converted a commitment has ended for good.
ConvertedEnded ==
    \A c \in Commitments : commitment[c] = "CONVERTED" => sale[SaleOf[c]].status = "CONVERTED"

OfferInv == ConvertedEnded /\ NeverOversold

\* Units of finitely many commitments add up, and those of a part to no more.
LEMMA UnitsSum ==
    ASSUME NEW S \in SUBSET Commitments, NEW T \in SUBSET S
    PROVE  /\ IsFiniteSet(S) /\ UnitsOf(S) \in Nat /\ UnitsOf(T) \in Nat
           /\ UnitsOf(T) <= UnitsOf(S)
  <1>1. IsFiniteSet(Commitments)
    BY PreSaleAssumption, Zenon
  <1>2. IsFiniteSet(S) /\ IsFiniteSet(T) /\ IsFiniteSet(S \ T)
    BY <1>1, FS_Subset
  <1>3. \A c \in S : Units[c] \in Nat
    OBVIOUS
  <1>4. /\ SumFunctionOnSet(Units, S) \in Nat /\ SumFunctionOnSet(Units, T) \in Nat
        /\ SumFunctionOnSet(Units, S \ T) \in Nat
    BY <1>2, <1>3, SumNat
  <1>5. SumFunctionOnSet(Units, S)
           = SumFunctionOnSet(Units, T) + SumFunctionOnSet(Units, S \ T)
    BY <1>2, <1>3, SumSplit
  <1>6. QED BY <1>2, <1>4, <1>5 DEF UnitsOf

\* A step that writes no commitment keeps it, unless it takes a sale that has
\* converted commitments out of CONVERTED.
LEMMA OfferUntouched ==
    ASSUME OfferInv, UNCHANGED commitment,
           \A c \in Commitments :
              commitment[c] = "CONVERTED" /\ sale[SaleOf[c]].status = "CONVERTED"
              => sale'[SaleOf[c]].status = "CONVERTED"
    PROVE  OfferInv'
  <1>2. ConvertedEnded'
    BY DEF OfferInv, ConvertedEnded
  <1>3. NeverOversold'
    BY DEF OfferInv, NeverOversold
  <1>4. QED BY <1>2, <1>3 DEF OfferInv

\* A reservation is accepted by a sale that has converted nothing: what it counts is all
\* that the sale has promised.
LEMMA ReserveOffers ==
    ASSUME PreSaleInv, OfferInv, NEW c \in Commitments, Reserve(c)
    PROVE  OfferInv'
  <1> DEFINE r == SaleOf[c]
  <1>1. /\ commitment' = [commitment EXCEPT ![c] = "ACTIVE"] /\ UNCHANGED sale
        /\ commitment[c] = "NONE" /\ sale[r].status = "ACTIVE"
        /\ UnitsOf(Promised(r)) + Units[c] <= Offered
    BY DEF Reserve, Accepting
  <1>2. commitment \in [Commitments -> CommitmentStatuses]
    BY DEF PreSaleInv, StatesOK
  <1>3. /\ commitment'[c] = "ACTIVE"
        /\ \A d \in Commitments : d # c => commitment'[d] = commitment[d]
    BY <1>1, <1>2
  <1>4. ConvertedEnded'
    BY <1>1, <1>3 DEF OfferInv, ConvertedEnded
  <1>5. ASSUME NEW s \in Sales
        PROVE  UnitsOf(Placed(s)') <= Offered
    <2>1. CASE s = r
      <3>1. Placed(s)' = Promised(s) \cup {c}
        BY <1>1, <1>3, <2>1 DEF Placed, Promised, OfferInv, ConvertedEnded
      <3>2. c \notin Promised(s) /\ Promised(s) \in SUBSET Commitments
        BY <1>1 DEF Promised
      <3>3. IsFiniteSet(Promised(s))
        BY <3>2, UnitsSum
      <3>4. \A d \in Promised(s) \cup {c} : Units[d] \in Int
        BY <3>2
      <3>5. UnitsOf(Promised(s) \cup {c}) = Units[c] + UnitsOf(Promised(s))
        BY <3>2, <3>3, <3>4, SumAdd DEF UnitsOf
      <3>6. UnitsOf(Promised(s)) \in Nat /\ Units[c] \in Nat
        BY <3>2, UnitsSum
      <3>7. QED BY <1>1, <2>1, <3>1, <3>5, <3>6
    <2>2. CASE s # r
      <3>1. Placed(s)' = Placed(s)
        BY <1>3, <2>2 DEF Placed
      <3>2. QED BY <3>1 DEF OfferInv, NeverOversold, Placed
    <2>3. QED BY <2>1, <2>2
  <1>6. QED BY <1>4, <1>5 DEF OfferInv, NeverOversold, Placed

\* When commitments of a sale end, it has placed no more than before.
LEMMA EndingOffers ==
    ASSUME OfferInv, ConvertedEnded',
           \A s \in Sales : Placed(s)' \in SUBSET Placed(s)
    PROVE  OfferInv'
  <1>1. ASSUME NEW s \in Sales
        PROVE  UnitsOf(Placed(s)') <= Offered
    <2>1. UnitsOf(Placed(s)) <= Offered
      BY DEF OfferInv, NeverOversold, Placed
    <2>2. Placed(s) \in SUBSET Commitments /\ Placed(s)' \in SUBSET Placed(s)
      BY DEF Placed
    <2>3. /\ UnitsOf(Placed(s)') <= UnitsOf(Placed(s))
          /\ UnitsOf(Placed(s)) \in Nat /\ UnitsOf(Placed(s)') \in Nat
      BY <2>2, UnitsSum
    <2>4. Offered \in Nat
      BY PreSaleAssumption
    <2>5. QED BY <2>1, <2>3, <2>4
  <1>2. QED BY <1>1 DEF OfferInv, NeverOversold, Placed

\* A converted sale is not cancelled; another one gives up its promises.
LEMMA CancelsOffers ==
    ASSUME PreSaleInv, OfferInv, NEW s \in Sales, Cancels(s)
    PROVE  OfferInv'
  <1>1. /\ sale[s].status # "CONVERTED" /\ sale' = [sale EXCEPT ![s].status = "CANCELLED"]
        /\ commitment' = [c \in Commitments |->
                             IF c \in Promised(s) THEN "RELEASED" ELSE commitment[c]]
    BY DEF Cancels, BecomesSale
  <1>2. \A r \in Sales : r # s => sale'[r] = sale[r]
    BY <1>1 DEF PreSaleInv, StatesOK
  <1>3. \A c \in Commitments : SaleOf[c] \in Sales
    BY PreSaleAssumption
  <1>4. ConvertedEnded'
    BY <1>1, <1>2, <1>3 DEF OfferInv, ConvertedEnded
  <1>5. \A r \in Sales : Placed(r)' \in SUBSET Placed(r)
    BY <1>1 DEF Placed
  <1>6. QED BY <1>4, <1>5, EndingOffers

\* Finalizing converts what was promised, and the sale with it.
LEMMA FinalizeOffers ==
    ASSUME PreSaleInv, OfferInv, NEW s \in Sales, Finalize(s)
    PROVE  OfferInv'
  <1>1. /\ sale' = [sale EXCEPT ![s].status = "CONVERTED"]
        /\ commitment' = [c \in Commitments |->
                             IF c \in Promised(s) THEN "CONVERTED" ELSE commitment[c]]
    BY DEF Finalize, BecomesSale
  <1>2. sale'[s].status = "CONVERTED" /\ \A r \in Sales : r # s => sale'[r] = sale[r]
    BY <1>1 DEF PreSaleInv, StatesOK, Sale
  <1>3. \A c \in Commitments : SaleOf[c] \in Sales
    BY PreSaleAssumption
  <1>4. ConvertedEnded'
    BY <1>1, <1>2, <1>3 DEF OfferInv, ConvertedEnded, Promised
  <1>5. \A r \in Sales : Placed(r)' \in SUBSET Placed(r)
    BY <1>1 DEF Placed, Promised
  <1>6. QED BY <1>4, <1>5, EndingOffers

\* Nothing is placed in a draft.
LEMMA OfferInvInit == Init => OfferInv
  <1> SUFFICES ASSUME Init PROVE OfferInv
    OBVIOUS
  <1>1. \A c \in Commitments : commitment[c] = "NONE"
    BY DEF Init
  <1>2. ConvertedEnded
    BY <1>1 DEF ConvertedEnded
  <1>3. ASSUME NEW s \in Sales
        PROVE  UnitsOf(Placed(s)) <= Offered
    <2>1. Placed(s) = {}
      BY <1>1 DEF Placed
    <2>2. UnitsOf({}) = 0
      BY SumEmpty DEF UnitsOf
    <2>3. Offered \in Nat
      BY PreSaleAssumption
    <2>4. QED BY <2>1, <2>2, <2>3
  <1>4. QED BY <1>2, <1>3 DEF OfferInv, NeverOversold, Placed

\* Every step keeps what a sale has placed within its offer.
LEMMA OfferInvNext == PreSaleInv /\ SweepsOK /\ OpenedFirst /\ OfferInv /\ [Next]_vars => OfferInv'
  <1> SUFFICES ASSUME PreSaleInv, SweepsOK, OpenedFirst, OfferInv, [Next]_vars PROVE OfferInv'
    OBVIOUS
  <1>0. sale \in [Sales -> Sale]
    BY DEF PreSaleInv, StatesOK
  <1>1. ASSUME NEW s \in Sales, Cancel(s) \/ Finalize(s)
        PROVE  OfferInv'
    BY <1>1, CancelsOffers, FinalizeOffers DEF Cancel
  <1>2. CASE \E c \in Commitments : Reserve(c)
    BY <1>2, ReserveOffers
  <1>3. ASSUME NEW k \in Sweeps, ExpireNext(k)
        PROVE  OfferInv'
    <2>1. PICK s \in due[k] : Cancels(s) \/ UNCHANGED <<sale, commitment>>
      BY <1>3 DEF ExpireNext
    <2>2. s \in Sales
      BY DEF SweepsOK
    <2>3. QED BY <2>1, <2>2, CancelsOffers, OfferUntouched
  <1>4. ASSUME NEW s \in Sales, Launch(s) \/ Pause(s) \/ Resume(s) \/ FinalizeEmpty(s)
        PROVE  OfferInv'
    <2>1. UNCHANGED commitment
      BY <1>4 DEF Launch, Pause, Resume, FinalizeEmpty
    <2>2. \A r \in Sales : r # s => sale'[r] = sale[r]
      BY <1>0, <1>4 DEF Launch, Pause, Resume, FinalizeEmpty, BecomesSale
    <2>3. CASE Launch(s)
      <3>1. \A c \in Commitments : commitment[c] = "CONVERTED" => SaleOf[c] # s
        BY <2>3 DEF Launch, OpenedFirst
      <3>2. QED BY <2>1, <2>2, <3>1, OfferUntouched
    <2>4. CASE Pause(s) \/ Resume(s)
      <3>1. sale[s].status # "CONVERTED"
        BY <2>4 DEF Pause, Resume
      <3>2. QED BY <2>1, <2>2, <3>1, OfferUntouched
    <2>5. CASE FinalizeEmpty(s)
      <3>1. sale'[s].status = "CONVERTED"
        BY <1>0, <2>5 DEF FinalizeEmpty, BecomesSale, Sale
      <3>2. QED BY <2>1, <2>2, <3>1, OfferUntouched
    <2>6. QED BY <1>4, <2>3, <2>4, <2>5
  <1>5. ASSUME NEW s \in Sales, NEW until \in 0 .. MaxTime, Extend(s, until)
        PROVE  OfferInv'
    <2>1. UNCHANGED commitment /\ \A r \in Sales : sale'[r].status = sale[r].status
      BY <1>0, <1>5 DEF Extend, Sale
    <2>2. QED BY <2>1, OfferUntouched
  <1>6. CASE \/ \E s \in Sales : \/ ReadDraft(s) \/ ReadSeller(s) \/ Abandon(s)
                                 \/ OpenOffering(s) \/ SellInMarket(s) \/ Secure(s)
             \/ \E k \in Sweeps : ReadDue(k) \/ FailSweep(k)
             \/ \E b \in Buyers : ToggleHold(b)
             \/ Tick \/ UNCHANGED vars
    <2>1. UNCHANGED <<sale, commitment>>
      BY <1>6 DEF ReadDraft, ReadSeller, Abandon, OpenOffering, SellInMarket, Secure, ReadDue,
                  FailSweep, ToggleHold, Tick, vars
    <2>2. QED BY <2>1, OfferUntouched
  <1>7. QED BY <1>1, <1>2, <1>3, <1>4, <1>5, <1>6 DEF Next

\* Reservations that come before, between and after conversions, extensions of ended
\* sales included, never promise more units than the sale offers.
THEOREM NeverOversoldAlways == Spec => []NeverOversold
  <1>1. OfferInv => NeverOversold
    BY DEF OfferInv
  <1>2. QED BY <1>1, OfferInvInit, OfferInvNext, PreSaleInvariant, PTL DEF Spec

\* The money of a commitment is held for it until it ends, and then is paid or free
\* again, and no sale is oversold: whatever customers, administrators and sweeps do.
THEOREM CommitmentsKeptAlways == Spec => []CommitmentsKept
  BY FundsFollowAlways, EndedSalesHoldNothingAlways, CashAlwaysAddsUp, NeverOversoldAlways, PTL
     DEF CommitmentsKept

----------------------------------------------------------------------------
(* Types *)

\* Every variable of the pre-sales keeps its type: no more is ever sold of an offering
\* than it has, in the market and to those who committed together.
THEOREM PreSaleTypes == Spec => []TypeOK
  <1> DEFINE Rest ==
        /\ now \in 0 .. MaxTime
        /\ \A s \in Sales : sale[s].deadline \in 0 .. MaxTime
        /\ opened \subseteq Sales /\ secured \subseteq Sales /\ restricted \subseteq Buyers
        /\ launching \subseteq Sales /\ finalizing \subseteq Sales
        /\ faults \in 0 .. MaxFaults
  <1>1. Init => Rest
    BY DEF Init
  <1>2. PreSaleInv /\ SweepsOK /\ Rest /\ [Next]_vars => Rest'
    <2> SUFFICES ASSUME PreSaleInv, SweepsOK, Rest, [Next]_vars PROVE Rest'
      OBVIOUS
    <2>0. sale \in [Sales -> Sale]
      BY DEF PreSaleInv, StatesOK
    <2>1. ASSUME NEW s \in Sales, Launch(s)
          PROVE  Rest'
      BY <2>0, <2>1 DEF Launch, offering, outside
    <2>2. ASSUME NEW s \in Sales, NEW until \in 0 .. MaxTime, Extend(s, until)
          PROVE  Rest'
      BY <2>0, <2>2 DEF Extend, offering, outside, calls, Sale
    <2>3. ASSUME NEW s \in Sales, NEW status \in SaleStatuses, BecomesSale(s, status)
          PROVE  \A r \in Sales : sale'[r].deadline = sale[r].deadline
      BY <2>0, <2>3 DEF BecomesSale, Sale
    <2>4. ASSUME NEW s \in Sales, Pause(s) \/ Resume(s) \/ Cancel(s) \/ FinalizeEmpty(s)
          PROVE  Rest'
      <3>1. \A r \in Sales : sale'[r].deadline = sale[r].deadline
        BY <2>3, <2>4 DEF Pause, Resume, Cancel, Cancels, FinalizeEmpty, SaleStatuses
      <3>2. UNCHANGED <<now, offering, outside, calls, faults>>
        BY <2>4 DEF Pause, Resume, Cancel, FinalizeEmpty
      <3>3. QED BY <3>1, <3>2 DEF offering, outside, calls
    <2>5. ASSUME NEW s \in Sales, Finalize(s)
          PROVE  Rest'
      <3>1. \A r \in Sales : sale'[r].deadline = sale[r].deadline
        BY <2>3, <2>5 DEF Finalize, SaleStatuses
      <3>2. UNCHANGED <<now, opened, outside, launching, faults>>
            /\ finalizing' = finalizing \ {s}
        BY <2>5 DEF Finalize
      <3>3. QED BY <3>1, <3>2 DEF outside
    <2>6. ASSUME NEW s \in Sales,
                 \/ OpenOffering(s) \/ SellInMarket(s) \/ Secure(s)
                 \/ ReadDraft(s) \/ ReadSeller(s) \/ Abandon(s)
          PROVE  Rest'
      <3>1. UNCHANGED <<now, sale, restricted, faults>>
        BY <2>6 DEF OpenOffering, SellInMarket, Secure, ReadDraft, ReadSeller, Abandon, outside
      <3>2. /\ opened' \subseteq Sales /\ secured' \subseteq Sales
            /\ launching' \subseteq Sales /\ finalizing' \subseteq Sales
        BY <2>6 DEF OpenOffering, SellInMarket, Secure, ReadDraft, ReadSeller, Abandon, outside,
                    offering, calls
      <3>3. QED BY <3>1, <3>2
    <2>7. ASSUME NEW c \in Commitments, Reserve(c)
          PROVE  Rest'
      BY <2>7 DEF Reserve, offering, outside, calls
    <2>8. ASSUME NEW k \in Sweeps, ReadDue(k) \/ FailSweep(k)
          PROVE  Rest'
      BY <2>8 DEF ReadDue, FailSweep, offering, outside, calls
    <2>9. ASSUME NEW k \in Sweeps, ExpireNext(k)
          PROVE  Rest'
      <3>1. PICK s \in due[k] : Cancels(s) \/ UNCHANGED sale
        BY <2>9 DEF ExpireNext
      <3>2. s \in Sales
        BY DEF SweepsOK
      <3>3. \A r \in Sales : sale'[r].deadline = sale[r].deadline
        BY <2>3, <3>1, <3>2 DEF Cancels, SaleStatuses
      <3>4. UNCHANGED <<now, offering, outside, calls, faults>>
        BY <2>9 DEF ExpireNext
      <3>5. QED BY <3>3, <3>4 DEF offering, outside, calls
    <2>10. CASE (\E b \in Buyers : ToggleHold(b)) \/ Tick \/ UNCHANGED vars
      BY <2>10 DEF ToggleHold, Tick, vars, offering, outside, calls
    <2> HIDE DEF Rest
    <2>11. QED BY <2>1, <2>2, <2>4, <2>5, <2>6, <2>7, <2>8, <2>9, <2>10 DEF Next
  <1>3. PreSaleInv /\ SweepsOK /\ CashInv /\ Rest => TypeOK
    <2> SUFFICES ASSUME PreSaleInv, SweepsOK, CashInv, Rest PROVE TypeOK
      OBVIOUS
    <2>1. sale \in [Sales -> [status : SaleStatuses, deadline : 0 .. MaxTime]]
      BY DEF PreSaleInv, StatesOK, Sale
    <2>2. QED BY <2>1 DEF TypeOK, PreSaleInv, StatesOK, SweepsOK, CashInv
  <1> HIDE DEF Rest
  <1>4. QED BY <1>1, <1>2, <1>3, CashInvariant, PreSaleInvariant, PTL DEF Spec
=============================================================================
