----------------------------- MODULE CustomerCash -----------------------------
(***************************************************************************)
(* One customer's available cash in the ledger: what the transactions of   *)
(* finance/financial-ledger.service do to its balance, the journals and    *)
(* reservations behind it, the deficits a returned deposit leaves and the  *)
(* compliance holds that go with them.  A customer has one cash account.   *)
(*                                                                         *)
(* Each operator is what one call, inside a transaction of its caller,     *)
(* makes of the book b.                                                    *)
(***************************************************************************)
EXTENDS Integers, Sequences, FiniteSets

CONSTANTS Deposits, Withdrawals,   \* the customer's money movements
          Amount,                  \* of each, in minor units
          Opening                  \* cash before any of them

Movements == Deposits \cup Withdrawals

ASSUME CustomerCashAssumption ==
    /\ IsFiniteSet(Movements) /\ Deposits \cap Withdrawals = {}
    /\ Amount \in [Movements -> Nat \ {0}]
    /\ Opening \in Nat

Restrictions == {"RETURNED_FUNDS_DEFICIT", "RETURNED_FUNDS_RESERVATION_REVIEW"}

Deficit == [of : Deposits, amount : Nat \ {0}, recovered : Nat]

\* restrictions: the reasons of the customer's active holds of scope ACCOUNT;
\* held: the movements with an active hold of scope EXTERNAL_MOVEMENT.
Book ==
    [cash         : Int,
     reserved     : Int,
     journal      : [Movements -> {"NONE", "POSTED", "REVERSED"}],
     reservation  : [Withdrawals -> {"NONE", "ACTIVE", "RELEASED", "CONSUMED"}],
     deficits     : Seq(Deficit),
     restrictions : SUBSET Restrictions,
     held         : SUBSET Movements]

OpeningBook ==
    [cash |-> Opening, reserved |-> 0,
     journal |-> [m \in Movements |-> "NONE"],
     reservation |-> [w \in Withdrawals |-> "NONE"],
     deficits |-> <<>>, restrictions |-> {}, held |-> {}]

(* Definitions commented "Faulty variant" are no part of the ledger: each is  *)
(* the definition after it with a plausible slip in the code.                 *)

Available(b) == b.cash - b.reserved

Held(b) == b.restrictions # {} \/ b.held # {}

Outstanding(deficit) == deficit.amount - deficit.recovered

OpenDeficits(b) == {i \in DOMAIN b.deficits : Outstanding(b.deficits[i]) > 0}

----------------------------------------------------------------------------
(* Reservations *)

Reservable(b, w) == Available(b) >= Amount[w] /\ b.reservation[w] = "NONE"

Reserved(b, w) ==
    [b EXCEPT !.reserved = @ + Amount[w], !.reservation[w] = "ACTIVE"]

\* Ends an active reservation; one that has already ended this way stays.
Ended(b, w, as) ==
    IF b.reservation[w] = as THEN b
    ELSE [b EXCEPT !.reserved = @ - Amount[w], !.reservation[w] = as]

Endable(b, w, as) == b.reservation[w] \in {"ACTIVE", as}

Released(b, w) == Ended(b, w, "RELEASED")

Consumed(b, w) == Ended(b, w, "CONSUMED")

----------------------------------------------------------------------------
(* Journals.  A movement's journal is posted once, and reversed once: a repeat *)
(* within 24 hours is a replay, a later one is refused.                        *)

Effect(m) == IF m \in Deposits THEN Amount[m] ELSE -Amount[m]

\* Faulty variant: no idempotency record is looked for.
PostedAgain(b, m) == [b EXCEPT !.cash = @ + Effect(m), !.journal[m] = "POSTED"]

Posted(b, m) ==
    IF b.journal[m] # "NONE" THEN b
    ELSE [b EXCEPT !.cash = @ + Effect(m), !.journal[m] = "POSTED"]

Reversed(b, m) ==
    IF b.journal[m] = "REVERSED" THEN b
    ELSE [b EXCEPT !.cash = @ - Effect(m), !.journal[m] = "REVERSED"]

----------------------------------------------------------------------------
(* Returned funds *)

\* Faulty variant: asks whether the funds are short before it takes them away.
ProtectedWhenShort(b) ==
    IF Available(b) < 0
    THEN [b EXCEPT !.restrictions = @ \cup {"RETURNED_FUNDS_RESERVATION_REVIEW"}]
    ELSE b

\* An active reservation may rest on the returned money: the account is held.
Protected(b) ==
    IF \E w \in Withdrawals : b.reservation[w] = "ACTIVE"
    THEN [b EXCEPT !.restrictions = @ \cup {"RETURNED_FUNDS_RESERVATION_REVIEW"}]
    ELSE b

\* Faulty variant: the balance is recorded, not what is missing.
DeficitRecordedSigned(b, d) ==
    IF b.cash >= 0 \/ \E i \in DOMAIN b.deficits : b.deficits[i].of = d THEN b
    ELSE [b EXCEPT
            !.cash = 0,
            !.deficits = Append(@, [of |-> d, amount |-> b.cash, recovered |-> 0]),
            !.restrictions = @ \cup {"RETURNED_FUNDS_DEFICIT"}]

\* Negative cash becomes a receivable from the customer, once per deposit.
DeficitRecorded(b, d) ==
    IF b.cash >= 0 \/ \E i \in DOMAIN b.deficits : b.deficits[i].of = d THEN b
    ELSE [b EXCEPT
            !.cash = 0,
            !.deficits = Append(@, [of |-> d, amount |-> -b.cash, recovered |-> 0]),
            !.restrictions = @ \cup {"RETURNED_FUNDS_DEFICIT"}]

Lesser(a, c) == IF a < c THEN a ELSE c

\* Faulty variant: any recovery, a partial one too, ends the restrictions.
LiftedEarly(b) == [b EXCEPT !.restrictions = {}]

Lifted(b) == IF OpenDeficits(b) = {} THEN [b EXCEPT !.restrictions = {}] ELSE b

\* Unreserved cash repays the oldest open deficit; when that was the last one
\* open, the restrictions end.
Recovered(b) ==
    IF OpenDeficits(b) = {} \/ Available(b) <= 0 THEN b
    ELSE LET i == CHOOSE i \in OpenDeficits(b) : \A j \in OpenDeficits(b) : i <= j
             deficit == b.deficits[i]
             amount == Lesser(Available(b), Outstanding(deficit))
             repaid == [deficit EXCEPT !.recovered = @ + amount]
         IN  Lifted([b EXCEPT !.cash = @ - amount, !.deficits = [@ EXCEPT ![i] = repaid]])
=============================================================================
