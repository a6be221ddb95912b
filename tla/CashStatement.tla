---------------------------- MODULE CashStatement ----------------------------
(***************************************************************************)
(* What a customer's cash statement promises, with no requests, webhooks,  *)
(* reconciliations or rows: deposits and withdrawals are entered once and  *)
(* deposits taken back once, a withdrawal is entered as its claim on the   *)
(* cash is used up, claims and purchases find free funds, and a debt       *)
(* arises only from a return that finds too little, is repaid from free    *)
(* funds only, by the next credit first, and restricts the customer        *)
(* exactly as long as it stands.                                           *)
(***************************************************************************)
EXTENDS Integers, Functions

CONSTANTS Deposits, Withdrawals, Amount, Opening

VARIABLES entry,       \* each movement's entry
          claim,       \* each withdrawal's claim on the funds
          funds,
          owed,
          restricted

statementVars == <<entry, claim, funds, owed, restricted>>

Claimed == SumFunctionOnSet(Amount, {w \in Withdrawals : claim[w] = "ACTIVE"})

Enters(m) == entry[m] = "NONE" /\ entry' = [entry EXCEPT ![m] = "POSTED"]

ClaimMoves(w, from, to) == claim[w] = from /\ claim' = [claim EXCEPT ![w] = to]

\* So much of what the customer then has goes to his debt; never what is claimed.
Repays(has, repaid) ==
    /\ funds' = has - repaid
    /\ owed' = owed - repaid
    /\ repaid > 0 => Claimed <= funds'

\* While he owes, free funds that are credited go to the debt first.
Credit(d) ==
    /\ Enters(d)
    /\ \E repaid \in 0 .. owed :
          /\ Repays(funds + Amount[d], repaid)
          /\ owed > 0 /\ funds + Amount[d] > Claimed => repaid > 0
    /\ UNCHANGED claim

Repay ==
    /\ \E repaid \in 1 .. owed : Repays(funds, repaid)
    /\ UNCHANGED <<entry, claim>>

\* What a return does not find is owed from then on.
Return(d) ==
    LET left == IF entry[d] = "POSTED" THEN funds - Amount[d] ELSE funds IN
    /\ entry[d] # "NONE"
    /\ entry' = [entry EXCEPT ![d] = "REVERSED"]
    /\ IF left < 0 THEN funds' = 0    /\ owed' = owed - left
                   ELSE funds' = left /\ owed' = owed
    /\ UNCHANGED claim

Claim(w) ==
    /\ ClaimMoves(w, "NONE", "ACTIVE")
    /\ Claimed + Amount[w] <= funds
    /\ UNCHANGED <<entry, funds, owed>>

GiveBack(w) ==
    /\ ClaimMoves(w, "ACTIVE", "RELEASED")
    /\ UNCHANGED <<entry, funds, owed>>

PayOut(w) ==
    /\ Enters(w)
    /\ ClaimMoves(w, "ACTIVE", "CONSUMED")
    /\ funds' = funds - Amount[w]
    /\ UNCHANGED owed

\* A purchase.
Spend ==
    /\ owed = 0
    /\ funds' < funds /\ Claimed <= funds'
    /\ UNCHANGED <<entry, claim, owed>>

Init ==
    /\ entry = [m \in Deposits \cup Withdrawals |-> "NONE"]
    /\ claim = [w \in Withdrawals |-> "NONE"]
    /\ funds = Opening
    /\ owed = 0
    /\ restricted = FALSE

Next ==
    /\ \/ Repay \/ Spend
       \/ \E d \in Deposits : Credit(d) \/ Return(d)
       \/ \E w \in Withdrawals : Claim(w) \/ GiveBack(w) \/ PayOut(w)
    /\ restricted' = (owed' > 0)

Spec == Init /\ [][Next]_statementVars
=============================================================================
