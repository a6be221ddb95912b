------------------------------- MODULE PreSale -------------------------------
(***************************************************************************)
(* Pre-sales: customers commit cash to units of an initial offering before *)
(* the asset has arrived (pre-sale/pre-sale.service, pre-sale.worker), and *)
(* finalization settles the commitments against the sell order of the      *)
(* opened offering (initial-offering.service, trading.service).            *)
(*                                                                         *)
(* A call is one transaction under the lock of its PreSale row, with two   *)
(* exceptions that take two steps: a launch reads the draft without the    *)
(* lock, and a finalization holds the lock but not that of the sell order  *)
(* it reads.  The deadline sweep of each server process is a read and a    *)
(* transaction per sale.  Of a customer's cash the module has what the     *)
(* commitments do.                                                         *)
(***************************************************************************)
EXTENDS OrderPolicy, FiniteSets, Functions

CONSTANTS
    Sales, Buyers,
    Commitments,             \* requests to reserve, each of
    SaleOf, BuyerOf, Units,  \* one sale, by one buyer, for some units
    Price,                   \* of a unit, the same for every sale
    TakerFeeBps,             \* of the markets
    Offered,                 \* units of each sale
    Opening,                 \* cash of each buyer
    Term,                    \* from launch to deadline
    Sweeps,                  \* server processes running the worker
    MaxExtension,            \* at one time: 90 days
    MaxTime,                 \* bound: the last instant, and the last deadline
    MaxFaults,               \* bound: sweeps that fail or die
    Arriving,                \* bound: sales whose asset may arrive and be offered
    Holdable                 \* bound: buyers who may come under a hold

ASSUME PreSaleAssumption ==
    /\ IsFiniteSet(Commitments)
    /\ SaleOf \in [Commitments -> Sales]
    /\ BuyerOf \in [Commitments -> Buyers]
    /\ Units \in [Commitments -> Nat \ {0}]
    /\ Price \in Nat \ {0} /\ TakerFeeBps \in Nat /\ Offered \in Nat
    /\ Opening \in [Buyers -> Nat]
    /\ Term \in Nat \ {0} /\ MaxExtension \in Nat /\ MaxTime \in Nat /\ MaxFaults \in Nat
    /\ Arriving \subseteq Sales /\ Holdable \subseteq Buyers

VARIABLES
    now,
    sale,        \* status and deadline of each PreSale row
    commitment,  \* status of each PreSaleReservation row
    funds,       \* the CashReservation row of each commitment
    bought,      \* units each commitment has been settled for
    cash,        \* posted, of each buyer
    reserved,    \* the counter of each buyer's balance
    unsold,      \* remaining units of the offering's sell order
    opened,      \* sales whose offering has been opened
    secured,     \* sales whose asset was received, verified and put in custody
    restricted,  \* buyers under a returned-funds hold
    due,         \* sales each sweep has read and not yet expired
    launching,   \* sales a launch has read as drafts and not yet written
    finalizing,  \* sales a finalization has locked, with enough units left when it looked
    faults

money == <<funds, bought, cash, reserved>>
offering == <<unsold, opened>>
outside == <<secured, restricted>>
calls == <<launching, finalizing>>
vars == <<now, sale, commitment, money, offering, outside, due, calls, faults>>

SaleStatuses == {"DRAFT", "ACTIVE", "PAUSED", "CANCELLED", "CONVERTED"}

CommitmentStatuses == {"NONE", "ACTIVE", "CONVERTED", "RELEASED"}

Funds == [status : {"NONE", "ACTIVE", "RELEASED", "CONSUMED"}, amount : Nat]

Init ==
    /\ now = 0
    /\ sale = [s \in Sales |-> [status |-> "DRAFT", deadline |-> 0]]
    /\ commitment = [c \in Commitments |-> "NONE"]
    /\ funds = [c \in Commitments |-> [status |-> "NONE", amount |-> 0]]
    /\ bought = [c \in Commitments |-> 0]
    /\ cash = Opening
    /\ reserved = [b \in Buyers |-> 0]
    /\ unsold = [s \in Sales |-> 0]
    /\ opened = {} /\ secured = {} /\ restricted = {}
    /\ due = [k \in Sweeps |-> {}]
    /\ launching = {} /\ finalizing = {}
    /\ faults = 0

(* Definitions commented "Faulty variant" are no part of the specification:   *)
(* each is the definition after it with a plausible slip in the code.         *)

Promised(s) == {c \in Commitments : SaleOf[c] = s /\ commitment[c] = "ACTIVE"}

UnitsOf(cs) == SumFunctionOnSet(Units, cs)

\* What each commitment's units cost, of which bought are settled so far.
Notional == [c \in Commitments |-> Gross(Price, Units[c])]

Paid == [c \in Commitments |-> Gross(Price, bought[c])]

\* What a commitment reserves: its fee is rounded DOWN.
Reservation(c) == Notional[c] + (Notional[c] * TakerFeeBps) \div 10000

\* What the settlement of so many units takes off it: the fee is rounded UP.
Reduction(units) == Gross(Price, units) + FeeMinor(Gross(Price, units), TakerFeeBps)

Held == [c \in Commitments |-> funds[c].amount]

\* What amount comes to over buyer b's commitments among cs.
SumOf(amount, b, cs) == SumFunctionOnSet(amount, {c \in cs : BuyerOf[c] = b})

BecomesSale(s, status) == sale' = [sale EXCEPT ![s].status = status]

\* A finalization in progress makes every other call on the sale wait.
Unlocked(s) == s \notin finalizing

----------------------------------------------------------------------------
(* Administrators and customers *)

\* open: whether the sale is a draft is read without its lock.
ReadDraft(s) ==
    /\ sale[s].status = "DRAFT"
    /\ s \notin opened
    /\ launching' = launching \cup {s}
    /\ UNCHANGED <<now, sale, commitment, money, offering, outside, due, finalizing, faults>>

\* The row is written by its id, whatever it says by now.  Launches that overlap are
\* one here: the later one would resume the sale with a later deadline.
Launch(s) ==
    /\ s \in launching /\ Unlocked(s)
    /\ now + Term <= MaxTime
    /\ sale' = [sale EXCEPT ![s] = [status |-> "ACTIVE", deadline |-> now + Term]]
    /\ launching' = launching \ {s}
    /\ UNCHANGED <<now, commitment, money, offering, outside, due, finalizing, faults>>

\* Faulty variant: looks at the deadline only.
AcceptingBeforeDeadline(s) == sale[s].deadline > now

Accepting(s) == sale[s].status = "ACTIVE" /\ sale[s].deadline > now

Reserve(c) ==
    LET s == SaleOf[c]
        b == BuyerOf[c]
    IN
    /\ commitment[c] = "NONE"
    /\ Accepting(s) /\ Unlocked(s)
    /\ UnitsOf(Promised(s)) + Units[c] <= Offered
    /\ cash[b] - reserved[b] >= Reservation(c)
    /\ commitment' = [commitment EXCEPT ![c] = "ACTIVE"]
    /\ funds' = [funds EXCEPT ![c] = [status |-> "ACTIVE", amount |-> Reservation(c)]]
    /\ reserved' = [reserved EXCEPT ![b] = @ + Reservation(c)]
    /\ UNCHANGED <<now, sale, bought, cash, offering, outside, due, calls, faults>>

Pause(s) ==
    /\ sale[s].status = "ACTIVE" /\ Unlocked(s)
    /\ BecomesSale(s, "PAUSED")
    /\ UNCHANGED <<now, commitment, money, offering, outside, due, calls, faults>>

Resume(s) ==
    /\ sale[s].status = "PAUSED" /\ Unlocked(s)
    /\ BecomesSale(s, "ACTIVE")
    /\ UNCHANGED <<now, commitment, money, offering, outside, due, calls, faults>>

\* The status is not looked at: any sale that has a deadline may be extended.
Extend(s, until) ==
    /\ sale[s].deadline # 0 /\ Unlocked(s)
    /\ until > sale[s].deadline /\ until <= sale[s].deadline + MaxExtension
    /\ sale' = [sale EXCEPT ![s].deadline = until]
    /\ UNCHANGED <<now, commitment, money, offering, outside, due, calls, faults>>

\* cancelInTransaction: the cash of every commitment is given back.
Cancels(s) ==
    LET active == {c \in Promised(s) : funds[c].status = "ACTIVE"} IN
    /\ sale[s].status \notin {"CANCELLED", "CONVERTED"} /\ Unlocked(s)
    /\ BecomesSale(s, "CANCELLED")
    /\ commitment' = [c \in Commitments |->
                         IF c \in Promised(s) THEN "RELEASED" ELSE commitment[c]]
    /\ funds' = [c \in Commitments |->
                    IF c \in active THEN [funds[c] EXCEPT !.status = "RELEASED"] ELSE funds[c]]
    /\ reserved' = [b \in Buyers |-> reserved[b] - SumOf(Held, b, active)]

Cancel(s) == Cancels(s) /\ UNCHANGED <<now, bought, cash, offering, outside, due, calls, faults>>

\* The status of the sale is not looked at: whatever it is, it becomes CONVERTED.
\* Without commitments there is nothing to settle.
FinalizeEmpty(s) ==
    /\ s \in secured /\ Unlocked(s)
    /\ Promised(s) = {}
    /\ BecomesSale(s, "CONVERTED")
    /\ UNCHANGED <<now, commitment, money, offering, outside, due, calls, faults>>

\* Else the offering's order must have the units: it is read, not locked.
ReadSeller(s) ==
    /\ s \in secured /\ Unlocked(s)
    /\ Promised(s) # {}
    /\ s \in opened /\ unsold[s] >= UnitsOf(Promised(s))
    /\ finalizing' = finalizing \cup {s}
    /\ UNCHANGED <<now, sale, commitment, money, offering, outside, due, launching, faults>>

\* settleExecution of so many units of one commitment goes through.
Settles(c, units) ==
    /\ funds[c].status = "ACTIVE"
    /\ funds[c].amount >= Reduction(units)
    /\ BuyerOf[c] \notin restricted

\* Units that the sale promises and its order no longer has.
Missing(s) ==
    LET units == UnitsOf(Promised(s)) IN IF units > unsold[s] THEN units - unsold[s] ELSE 0

\* The reservation of a buy order ends when the order is filled.
FundsAfter(c, units) == IF units = Units[c] THEN "CONSUMED" ELSE "ACTIVE"

\* All commitments settle, in turn, or none.  From the first settlement on no other trade
\* gets in (the market's sequence is unique, then its row is locked); units sold before it
\* are missing to the last commitment, which is converted with what is left for it.
Finalize(s) ==
    \E last \in Promised(s) :
        LET cs == Promised(s)
            filled == [c \in Commitments |-> Units[c] - IF c = last THEN Missing(s) ELSE 0]
            cost == [c \in Commitments |-> Gross(Price, filled[c])]
            taken == [c \in Commitments |-> Reduction(filled[c])]
        IN
        /\ s \in finalizing
        /\ filled[last] > 0
        /\ \A c \in cs : Settles(c, filled[c])
        /\ BecomesSale(s, "CONVERTED")
        /\ commitment' = [c \in Commitments |-> IF c \in cs THEN "CONVERTED" ELSE commitment[c]]
        /\ bought' = [c \in Commitments |-> IF c \in cs THEN filled[c] ELSE bought[c]]
        /\ funds' = [c \in Commitments |->
                        IF c \in cs
                        THEN [status |-> FundsAfter(c, filled[c]),
                              amount |-> funds[c].amount - taken[c]]
                        ELSE funds[c]]
        /\ cash' = [b \in Buyers |-> cash[b] - SumOf(cost, b, cs)]
        /\ reserved' = [b \in Buyers |-> reserved[b] - SumOf(taken, b, cs)]
        /\ unsold' = [unsold EXCEPT ![s] = @ - (UnitsOf(cs) - Missing(s))]
        /\ finalizing' = finalizing \ {s}
        /\ UNCHANGED <<now, opened, outside, due, launching, faults>>

\* It throws or times out, and nothing of it stays: a settlement is refused, the market or
\* the offering is not open, the terms have changed, another trade got in.
Abandon(s) ==
    /\ s \in finalizing
    /\ finalizing' = finalizing \ {s}
    /\ UNCHANGED <<now, sale, commitment, money, offering, outside, due, launching, faults>>

----------------------------------------------------------------------------
(* The deadline sweep *)

\* Faulty variant: a paused sale is not looked for.
DueActive(s) == sale[s].status = "ACTIVE" /\ sale[s].deadline <= now

Due(s) == sale[s].status \in {"ACTIVE", "PAUSED"} /\ sale[s].deadline <= now

ReadDue(k) ==
    /\ due[k] = {}
    /\ \E s \in Sales : Due(s)
    /\ due' = [due EXCEPT ![k] = {s \in Sales : Due(s)}]
    /\ UNCHANGED <<now, sale, commitment, money, offering, outside, calls, faults>>

\* The sale is cancelled as it was read to be due: a deadline extended since is not
\* looked at.  A sale converted since throws, which ends the sweep.
ExpireNext(k) ==
    \E s \in due[k] :
        /\ Unlocked(s)
        /\ \/ /\ Cancels(s)
              /\ due' = [due EXCEPT ![k] = @ \ {s}]
           \/ /\ sale[s].status = "CANCELLED"
              /\ due' = [due EXCEPT ![k] = @ \ {s}]
              /\ UNCHANGED <<sale, commitment, funds, reserved>>
           \/ /\ sale[s].status = "CONVERTED"
              /\ due' = [due EXCEPT ![k] = {}]
              /\ UNCHANGED <<sale, commitment, funds, reserved>>
        /\ UNCHANGED <<now, bought, cash, offering, outside, calls, faults>>

\* A transaction fails, or the process stops: the rest of the sweep is dropped.
FailSweep(k) ==
    /\ due[k] # {}
    /\ faults < MaxFaults
    /\ faults' = faults + 1
    /\ due' = [due EXCEPT ![k] = {}]
    /\ UNCHANGED <<now, sale, commitment, money, offering, outside, calls>>

----------------------------------------------------------------------------
(* The offering and the rest of the world *)

\* The offering's inventory becomes a sell order in the book, open to everyone.  From the
\* provisional terms a launch demands, that takes an approval of the supply and one of the
\* offering first: longer than a transaction lasts.
OpenOffering(s) ==
    /\ s \in Arriving \ (opened \cup launching)
    /\ opened' = opened \cup {s}
    /\ unsold' = [unsold EXCEPT ![s] = Offered]
    /\ UNCHANGED <<now, sale, commitment, money, outside, due, calls, faults>>

\* A buyer in the market takes a unit of it, promised or not.
SellInMarket(s) ==
    /\ unsold[s] > 0
    /\ unsold' = [unsold EXCEPT ![s] = @ - 1]
    /\ UNCHANGED <<now, sale, commitment, money, opened, outside, due, calls, faults>>

Secure(s) ==
    /\ s \in Arriving \ secured
    /\ secured' = secured \cup {s}
    /\ UNCHANGED <<now, sale, commitment, money, offering, restricted, due, calls, faults>>

ToggleHold(b) ==
    /\ b \in Holdable
    /\ restricted' = IF b \in restricted THEN restricted \ {b} ELSE restricted \cup {b}
    /\ UNCHANGED <<now, sale, commitment, money, offering, secured, due, calls, faults>>

Tick ==
    /\ now < MaxTime
    /\ now' = now + 1
    /\ UNCHANGED <<sale, commitment, money, offering, outside, due, calls, faults>>

----------------------------------------------------------------------------
Next ==
    \/ \E s \in Sales :
          \/ ReadDraft(s) \/ Launch(s) \/ Pause(s) \/ Resume(s) \/ Cancel(s)
          \/ FinalizeEmpty(s) \/ ReadSeller(s) \/ Finalize(s) \/ Abandon(s)
          \/ \E until \in 0 .. MaxTime : Extend(s, until)
          \/ OpenOffering(s) \/ SellInMarket(s) \/ Secure(s)
    \/ \E c \in Commitments : Reserve(c)
    \/ \E k \in Sweeps : ReadDue(k) \/ ExpireNext(k) \/ FailSweep(k)
    \/ \E b \in Buyers : ToggleHold(b)
    \/ Tick

Spec == Init /\ [][Next]_vars

\* Time passes, and each process sweeps once a minute, whatever the last sweep met.  A
\* finalization commits, throws or times out; waiting for its lock is first come, first
\* served, so that trying again and again does not keep the sweep out (strong fairness).
FairSpec ==
    /\ Spec
    /\ WF_vars(Tick)
    /\ \A s \in Sales : WF_vars(Finalize(s) \/ Abandon(s))
    /\ \A k \in Sweeps : WF_vars(ReadDue(k)) /\ SF_vars(ExpireNext(k))

----------------------------------------------------------------------------
(* Properties *)

\* Every variable has its type.
TypeOK ==
    /\ now \in 0 .. MaxTime
    /\ sale \in [Sales -> [status : SaleStatuses, deadline : 0 .. MaxTime]]
    /\ commitment \in [Commitments -> CommitmentStatuses]
    /\ funds \in [Commitments -> Funds]
    /\ bought \in [Commitments -> Nat]
    /\ cash \in [Buyers -> Int] /\ reserved \in [Buyers -> Int]
    /\ unsold \in [Sales -> 0 .. Offered]
    /\ opened \subseteq Sales /\ secured \subseteq Sales /\ restricted \subseteq Buyers
    /\ due \in [Sweeps -> SUBSET Sales]
    /\ launching \subseteq Sales /\ finalizing \subseteq Sales
    /\ faults \in 0 .. MaxFaults

\* A commitment that was cut short: converted, with a buy order left for the rest.
CutShort(c) == commitment[c] = "CONVERTED" /\ bought[c] < Units[c]

\* A commitment stands on its own cash reservation, which ends with it and as it did; one
\* that was cut short keeps its reservation for the order left of it, and only when the
\* offering has nothing more to sell.
FundsFollow ==
    \A c \in Commitments :
        /\ commitment[c] = "NONE" => funds[c].status = "NONE"
        /\ commitment[c] = "ACTIVE" => funds[c].status = "ACTIVE" /\ funds[c].amount >= Notional[c]
        /\ commitment[c] = "RELEASED" => funds[c].status = "RELEASED"
        /\ commitment[c] = "CONVERTED" =>
              /\ bought[c] \in 1 .. Units[c]
              /\ funds[c].status = IF CutShort(c) THEN "ACTIVE" ELSE "CONSUMED"
              /\ CutShort(c) => unsold[SaleOf[c]] = 0

\* A sale that has ended, converted or cancelled, has no commitment left.
EndedSalesHoldNothing ==
    \A s \in Sales : sale[s].status \in {"CANCELLED", "CONVERTED"} => Promised(s) = {}

\* Buyers paid for the units they got and for nothing else, never beyond their cash.
CashAddsUp ==
    \A b \in Buyers :
        /\ cash[b] = Opening[b] - SumOf(Paid, b, Commitments)
        /\ reserved[b] =
              SumOf(Held, b, {c \in Commitments : funds[c].status = "ACTIVE"})
        /\ reserved[b] <= cash[b]

\* No more units are promised or converted than a sale offers.  A reservation counts the
\* ACTIVE commitments only: a sale must never accept one again after converting others.
NeverOversold ==
    \A s \in Sales :
        UnitsOf({c \in Commitments :
                    SaleOf[c] = s /\ commitment[c] \in {"ACTIVE", "CONVERTED"}}) <= Offered

\* Across pauses, extensions, launches, sweeps and finalizations that work on what they
\* read before, cancelled sales that are extended or finalized and buyers in several
\* sales: the money of a commitment is held for it until it ends, and then is paid or
\* free again, but for what one cut short still waits for, and no sale is oversold.
CommitmentsKept == FundsFollow /\ EndedSalesHoldNothing /\ CashAddsUp /\ NeverOversold

\* No customer's cash is held for ever: a commitment is converted or released in the
\* end, its deadline being swept if nothing else happens, of a paused sale as well.
CommitmentsEnd ==
    \A c \in Commitments :
        commitment[c] = "ACTIVE" ~> commitment[c] \in {"CONVERTED", "RELEASED"}
=============================================================================
