---------------------------- MODULE MoneyMovements ----------------------------
(***************************************************************************)
(* Bank deposits and withdrawals of one customer with Stripe as provider:  *)
(* the requests of providers/wallet-movement.service and                   *)
(* stripe-connect-payout.service, the handlers of Stripe's webhooks        *)
(* (provider-webhook.service) and the reconciliation that wallet reads and *)
(* balance events start, all over the customer's cash.                     *)
(*                                                                         *)
(* Each database transaction, each read another step depends on and each   *)
(* call of Stripe is a step; requests, handlers and readers interleave,    *)
(* and may die, between any two.                                           *)
(***************************************************************************)
EXTENDS CustomerCash, Functions

CONSTANTS
    Handlers,      \* webhook deliveries in progress
    Readers,       \* reconciliations in progress
    NoMovement,
    Plans,         \* bound: the sets of movements the customer asks for
    Course,        \* bound: what may become of each movement at Stripe, and be told
    MaxSpent,      \* bound: what the customer spends on purchases
    MaxFaults      \* bound: processes that die, failed writes, lost answers

Callers == Movements \cup Handlers \cup Readers

ASSUME MoneyMovementsAssumption ==
    /\ NoMovement \notin Movements
    /\ Handlers \cap Readers = {} /\ (Handlers \cup Readers) \cap Movements = {}
    /\ Plans \subseteq SUBSET Movements
    /\ Course \in [Movements -> SUBSET STRING]
    /\ MaxSpent \in Nat /\ MaxFaults \in Nat

VARIABLES
    movement,   \* status of the MoneyMovement row
    linked,     \* withdrawals whose row names its reservation
    referred,   \* deposits whose row has the provider's reference
    book,
    payout,     \* status of the ConnectPayout row
    known,      \* withdrawals whose payout row has the payout's id
    provider,   \* what became of each payment or payout at Stripe
    disputed,   \* deposits the customer's bank disputes
    inbox,      \* events with a WebhookInbox row: later deliveries are replays
    task,       \* what each request, handler and reader is about to do
    faults,
    spent

rows == <<movement, linked, referred, payout, known>>
outside == <<provider, disputed>>
bounds == <<faults, spent>>
vars == <<rows, book, outside, inbox, task, bounds>>

Statuses == {"NONE", "PENDING_PROVIDER", "PROCESSING", "SETTLED", "FAILED",
             "CANCELLED", "MANUAL_REVIEW", "RETURNED"}

PayoutStatuses == {"NONE", "CREATED", "TRANSFERRED", "PROCESSING", "PAID", "FAILED",
                   "MANUAL_REVIEW"}

\* A payment is processing, confirmed, available on Stripe's balance and perhaps
\* withdrawn again; or it fails, at once or (lapsed) after it was confirmed.  A payout is
\* pending, paid and perhaps bounced.
ProviderStates == {"none", "processing", "confirmed", "available", "withdrawn", "failed",
                   "lapsed", "canceled", "transferred", "pending", "paid", "bounced"}

Events ==
    {e \in (Deposits \X {"processing", "succeeded", "failed", "canceled", "disputed", "withdrawn"})
            \cup (Withdrawals \X {"updated", "paid", "bounced"}) :
        e[2] \in Course[e[1]]}

Steps == {"idle",
          "processing", "complete", "fail", "cancel", "hold", "holding", "return", "returning",
          "pay", "record", "reserve", "link", "undo", "transfer", "payout", "keep"}

Task == [of : Movements \cup {NoMovement}, step : Steps]

Idle == [of |-> NoMovement, step |-> "idle"]

At(c, step) == task[c].step = step

Go(c, step) == task' = [task EXCEPT ![c].step = step]

Starts(c, m, step) == task' = [task EXCEPT ![c] = [of |-> m, step |-> step]]

Ends(c) == task' = [task EXCEPT ![c] = Idle]

Becomes(m, status) == movement' = [movement EXCEPT ![m] = status]

Faulty(n) == faults + n <= MaxFaults /\ faults' = faults + n

Init ==
    /\ movement = [m \in Movements |-> "NONE"]
    /\ linked = {} /\ referred = {} /\ known = {} /\ disputed = {} /\ inbox = {}
    /\ book = OpeningBook
    /\ payout = [w \in Withdrawals |-> "NONE"]
    /\ provider = [m \in Movements |-> "none"]
    /\ task = [c \in Callers |-> Idle]
    /\ faults = 0 /\ spent = 0

(* Definitions commented "Faulty variant" are no part of the specification:   *)
(* each is the definition after it with a plausible slip in the code.         *)

----------------------------------------------------------------------------
(* The transactions on a movement, for any caller c that was told to run them. *)

\* The row's status is the caller's no more than a read of the past by now.
Processing(c) ==
    LET m == task[c].of IN
    /\ At(c, "processing")
    /\ IF movement[m] = "PENDING_PROVIDER" THEN Becomes(m, "PROCESSING")
                                           ELSE UNCHANGED movement
    /\ Ends(c)
    /\ UNCHANGED <<linked, referred, payout, known, book, outside, inbox, bounds>>

Completable == {"PENDING_PROVIDER", "PROCESSING", "MANUAL_REVIEW"}

\* completeFromProvider: posts the journal, consumes the linked reservation and,
\* for a deposit, recovers a deficit.
Settled(m) ==
    LET posted == Posted(book, m) IN
    IF m \in Deposits THEN Recovered(posted)
    ELSE IF m \in linked THEN Consumed(posted, m) ELSE posted

Complete(c) ==
    LET m == task[c].of IN
    /\ At(c, "complete")
    /\ \/ /\ movement[m] \in Completable
          /\ m \in linked => Endable(book, m, "CONSUMED")
          /\ Becomes(m, "SETTLED")
          /\ referred' = referred \cup ({m} \cap Deposits)
          /\ book' = Settled(m)
       \/ /\ \/ movement[m] \notin Completable
             \/ book.journal[m] # "NONE"
             \/ m \in linked /\ ~Endable(book, m, "CONSUMED")
          /\ UNCHANGED <<movement, referred, book>>
    /\ Ends(c)
    /\ UNCHANGED <<linked, payout, known, outside, inbox, bounds>>

\* Faulty variant: only the status changes.
GivenBackNothing(m) == book

\* A failed or cancelled movement gives its reservation back.
GivenBack(m) == IF m \in linked THEN Released(book, m) ELSE book

Closes(m, status, terminal) ==
    \/ /\ movement[m] \notin terminal
       /\ m \in linked => Endable(book, m, "RELEASED")
       /\ Becomes(m, status)
       /\ book' = GivenBack(m)
    \/ /\ movement[m] \in terminal \/ (m \in linked /\ ~Endable(book, m, "RELEASED"))
       /\ UNCHANGED <<movement, book>>

Fail(c) ==
    /\ At(c, "fail")
    /\ Closes(task[c].of, "FAILED", {"FAILED", "CANCELLED", "SETTLED"})
    /\ Ends(c)
    /\ UNCHANGED <<linked, referred, payout, known, outside, inbox, bounds>>

Cancel(c) ==
    /\ At(c, "cancel")
    /\ Closes(task[c].of, "CANCELLED", {"CANCELLED", "SETTLED"})
    /\ Ends(c)
    /\ UNCHANGED <<linked, referred, payout, known, outside, inbox, bounds>>

Check(c, passes, next) ==
    /\ IF passes THEN Go(c, next) ELSE Ends(c)
    /\ UNCHANGED <<rows, book, outside, inbox, bounds>>

\* holdFromProvider: the status is checked in one transaction and set in another.
HoldCheck(c) ==
    /\ At(c, "hold")
    /\ Check(c, movement[task[c].of] \notin {"FAILED", "CANCELLED", "RETURNED"}, "holding")

Review(m) ==
    IF movement[m] = "MANUAL_REVIEW" THEN UNCHANGED <<movement, book>>
    ELSE /\ Becomes(m, "MANUAL_REVIEW")
         /\ book' = [book EXCEPT !.held = @ \cup {m}]

Hold(c) ==
    /\ At(c, "holding")
    /\ Review(task[c].of)
    /\ Ends(c)
    /\ UNCHANGED <<linked, referred, payout, known, outside, inbox, bounds>>

\* returnFromProvider: likewise; the journal is the one settlement stored.
ReturnCheck(c) ==
    LET m == task[c].of IN
    /\ At(c, "return")
    /\ Check(c, movement[m] \in {"SETTLED", "MANUAL_REVIEW"} /\ book.journal[m] # "NONE",
             "returning")

\* Recovery follows only when there was something to record.
Returned(d) ==
    LET reversed == Reversed(Protected(book), d) IN
    IF reversed.cash < 0 THEN Recovered(DeficitRecorded(reversed, d)) ELSE reversed

Return(c) ==
    LET m == task[c].of IN
    /\ At(c, "returning")
    /\ \/ /\ movement[m] # "RETURNED"
          /\ Becomes(m, "RETURNED")
          /\ book' = Returned(m)
       \/ /\ movement[m] = "RETURNED" \/ book.journal[m] = "REVERSED"
          /\ UNCHANGED <<movement, book>>
    /\ Ends(c)
    /\ UNCHANGED <<linked, referred, payout, known, outside, inbox, bounds>>

----------------------------------------------------------------------------
(* Requests of the customer: WalletMovementService.create *)

\* account-capability: deficits and their reviews do not stop a deposit.
CapabilityAllowsDeposit(b) ==
    /\ b.held = {}
    /\ b.restrictions = {} \/ "RETURNED_FUNDS_DEFICIT" \in b.restrictions

\* compliance.requireIdentityApproved: any hold of scope EXTERNAL_MOVEMENT or ACCOUNT.
ComplianceAllows(b) == ~Held(b)

DepositAllowed(b) == CapabilityAllowsDeposit(b) /\ ComplianceAllows(b)

Planned(m) ==
    /\ movement[m] = "NONE"
    /\ \E plan \in Plans : {m} \cup {n \in Movements : movement[n] # "NONE"} \subseteq plan

RequestDeposit(d) ==
    /\ Planned(d)
    /\ DepositAllowed(book)
    /\ Becomes(d, "PENDING_PROVIDER")
    /\ Starts(d, d, "pay")
    /\ UNCHANGED <<linked, referred, payout, known, book, outside, inbox, bounds>>

\* The payment is confirmed off session: Stripe starts it or refuses; when only the
\* answer is lost, the request takes it for refused.
Pay(d) ==
    /\ At(d, "pay")
    /\ \/ provider' = [provider EXCEPT ![d] = "processing"] /\ Go(d, "record") /\ UNCHANGED faults
       \/ provider' = [provider EXCEPT ![d] = "processing"] /\ Go(d, "fail") /\ Faulty(1)
       \/ Go(d, "fail") /\ UNCHANGED <<provider, faults>>
    /\ UNCHANGED <<rows, book, disputed, inbox, spent>>

\* Stores the reference and the status of the answer, whatever the row says by now.
RecordPayment(d) ==
    /\ At(d, "record")
    /\ \/ /\ \E status \in {"PENDING_PROVIDER", "PROCESSING"} : Becomes(d, status)
          /\ referred' = referred \cup {d}
          /\ Ends(d)
          /\ UNCHANGED faults
       \/ Go(d, "fail") /\ Faulty(1) /\ UNCHANGED <<movement, referred>>
    /\ UNCHANGED <<linked, payout, known, book, outside, inbox, spent>>

RequestWithdrawal(w) ==
    /\ Planned(w)
    /\ ComplianceAllows(book)
    /\ Becomes(w, "PENDING_PROVIDER")
    /\ Starts(w, w, "reserve")
    /\ UNCHANGED <<linked, referred, payout, known, book, outside, inbox, bounds>>

Reserve(w) ==
    /\ At(w, "reserve")
    /\ \/ Reservable(book, w) /\ book' = Reserved(book, w) /\ Go(w, "link")
       \/ ~Reservable(book, w) /\ Go(w, "undo") /\ UNCHANGED book
    /\ UNCHANGED <<rows, outside, inbox, bounds>>

Link(w) ==
    /\ At(w, "link")
    /\ \/ linked' = linked \cup {w} /\ Go(w, "transfer") /\ UNCHANGED faults
       \/ Go(w, "undo") /\ Faulty(1) /\ UNCHANGED linked
    /\ UNCHANGED <<movement, referred, payout, known, book, outside, inbox, spent>>

\* The request still knows the reservation it could not link.
Undo(w) ==
    /\ At(w, "undo")
    /\ Becomes(w, "FAILED")
    /\ book' = IF book.reservation[w] = "NONE" THEN book ELSE Released(book, w)
    /\ Ends(w)
    /\ UNCHANGED <<linked, referred, payout, known, outside, inbox, bounds>>

\* createPayout: a transfer to the customer's connected account, recorded, and a
\* payout from there, recorded.  A transfer without an answer counts as refused; from
\* a transfer with an answer on, every failure asks for review.
Transfer(w) ==
    /\ At(w, "transfer")
    /\ \/ /\ provider' = [provider EXCEPT ![w] = "transferred"]
          /\ payout' = [payout EXCEPT ![w] = "CREATED"]
          /\ Go(w, "payout") /\ UNCHANGED faults
       \/ /\ provider' = [provider EXCEPT ![w] = "transferred"]
          /\ payout' = [payout EXCEPT ![w] = "FAILED"]
          /\ Go(w, "fail") /\ Faulty(1)
       \/ /\ payout' = [payout EXCEPT ![w] = "FAILED"]
          /\ Go(w, "fail") /\ UNCHANGED <<provider, faults>>
    /\ UNCHANGED <<movement, linked, referred, known, book, disputed, inbox, spent>>

ReviewPayout(w) == payout' = [payout EXCEPT ![w] = "MANUAL_REVIEW"] /\ Go(w, "hold")

Payout(w) ==
    /\ At(w, "payout")
    /\ \/ /\ payout' = [payout EXCEPT ![w] = "TRANSFERRED"]
          /\ provider' = [provider EXCEPT ![w] = "pending"]
          /\ Go(w, "keep") /\ UNCHANGED faults
       \/ /\ provider' = [provider EXCEPT ![w] = "pending"]
          /\ ReviewPayout(w) /\ Faulty(1)
       \/ ReviewPayout(w) /\ UNCHANGED <<provider, faults>>
    /\ UNCHANGED <<movement, linked, referred, known, book, disputed, inbox, spent>>

KeepPayout(w) ==
    /\ At(w, "keep")
    /\ \/ /\ payout' = [payout EXCEPT ![w] = "PROCESSING"]
          /\ known' = known \cup {w}
          /\ Go(w, "processing") /\ UNCHANGED faults
       \/ ReviewPayout(w) /\ Faulty(1) /\ UNCHANGED known
    /\ UNCHANGED <<movement, linked, referred, book, outside, inbox, spent>>

\* The request's own write of PROCESSING fails: the payout may exist, so review.
ProcessingFails(w) ==
    /\ At(w, "processing")
    /\ Go(w, "hold")
    /\ Faulty(1)
    /\ UNCHANGED <<rows, book, outside, inbox, spent>>

----------------------------------------------------------------------------
(* Webhooks *)

Collected == {"available", "withdrawn"}

\* What Stripe has told, or will tell, of a movement.
Occurred(m, kind) ==
    CASE kind = "processing" -> provider[m] # "none"
      [] kind = "succeeded"  -> provider[m] \in {"confirmed", "lapsed"} \cup Collected
      [] kind = "failed"     -> provider[m] \in {"failed", "lapsed"}
      [] kind = "disputed"   -> m \in disputed
      [] kind = "updated"    -> provider[m] \in {"pending", "paid", "bounced"}
      [] kind = "paid"       -> provider[m] = "paid"
      [] OTHER               -> provider[m] = kind

\* The call that a payment event leads to, given the status just read.
Response(d, kind) ==
    CASE movement[d] \in {"NONE", "FAILED", "CANCELLED", "RETURNED"} -> "idle"
      [] kind = "withdrawn" -> "return"
      [] kind = "failed" /\ movement[d] = "MANUAL_REVIEW" -> "return"
      [] movement[d] \in {"SETTLED", "MANUAL_REVIEW"} -> "idle"
      [] kind = "disputed" -> "hold"
      [] kind = "succeeded" -> IF provider[d] \in Collected THEN "complete" ELSE "processing"
      [] kind = "failed" -> "fail"
      [] kind = "canceled" -> "cancel"
      [] kind = "processing" -> "processing"

Begins(c, m, step) == IF step = "idle" THEN UNCHANGED task ELSE Starts(c, m, step)

\* The inbox row is created first: whatever becomes of the handler, a repeated
\* delivery finds it and is answered as a replay.
PaymentEvent(h, d, kind) ==
    /\ task[h] = Idle
    /\ <<d, kind>> \in Events \ inbox
    /\ Occurred(d, kind)
    /\ inbox' = inbox \cup {<<d, kind>>}
    /\ Begins(h, d, Response(d, kind))
    /\ UNCHANGED <<rows, book, outside, bounds>>

PayoutStatus == [updated |-> "PROCESSING", paid |-> "PAID", bounced |-> "FAILED"]
PayoutCall == [updated |-> "processing", paid |-> "complete", bounced |-> "hold"]

\* StripeConnectPayoutService.processWebhook: the payout row first, then the movement.
ObservePayout(c, w, kind) ==
    /\ payout' = [payout EXCEPT ![w] = PayoutStatus[kind]]
    /\ Starts(c, w, PayoutCall[kind])

PayoutEvent(h, w, kind) ==
    /\ task[h] = Idle
    /\ <<w, kind>> \in Events \ inbox
    /\ Occurred(w, kind)
    /\ inbox' = inbox \cup {<<w, kind>>}
    /\ IF w \in known THEN ObservePayout(h, w, kind) ELSE UNCHANGED <<payout, task>>
    /\ UNCHANGED <<movement, linked, referred, known, book, outside, bounds>>

----------------------------------------------------------------------------
(* Reconciliation, of one movement at a time; one that would change nothing is  *)
(* left out.                                                                    *)

\* Faulty variant: a movement known to be processing is left to its webhook.
UnsettledPending == {"PENDING_PROVIDER"}

Unsettled == {"PENDING_PROVIDER", "PROCESSING"}

ReconcileDeposit(r, d) ==
    /\ task[r] = Idle
    /\ d \in referred /\ movement[d] \in Unsettled
    /\ \/ provider[d] \in Collected /\ Starts(r, d, "complete")
       \/ /\ provider[d] = "confirmed" /\ movement[d] = "PENDING_PROVIDER"
          /\ Starts(r, d, "processing")
    /\ UNCHANGED <<rows, book, outside, inbox, bounds>>

ReconcilePayout(r, w) ==
    /\ task[r] = Idle
    /\ w \in known /\ payout[w] \in {"CREATED", "TRANSFERRED", "PROCESSING"}
    /\ movement[w] \in Unsettled \cup {"MANUAL_REVIEW"}
    /\ \/ \E kind \in {"paid", "bounced"} : provider[w] = kind /\ ObservePayout(r, w, kind)
       \/ /\ provider[w] = "pending" /\ movement[w] = "PENDING_PROVIDER"
          /\ ObservePayout(r, w, "updated")
    /\ UNCHANGED <<movement, linked, referred, known, book, outside, inbox, bounds>>

----------------------------------------------------------------------------
(* The environment *)

\* A process dies: a server stops, or its next write fails.
Die(c) ==
    /\ task[c] # Idle
    /\ Ends(c)
    /\ Faulty(1)
    /\ UNCHANGED <<rows, book, outside, inbox, spent>>

Later == [processing |-> {"confirmed", "failed", "canceled"},
          confirmed |-> {"available", "withdrawn", "lapsed"}, available |-> {"withdrawn"},
          pending |-> {"paid", "bounced"}, paid |-> {"bounced"}]

Stripe(m) ==
    /\ provider[m] \in DOMAIN Later
    /\ \E state \in Later[provider[m]] \cap Course[m] : provider' = [provider EXCEPT ![m] = state]
    /\ UNCHANGED <<rows, book, disputed, inbox, task, bounds>>

Dispute(d) ==
    /\ provider[d] \in {"confirmed", "available"}
    /\ d \notin disputed /\ "disputed" \in Course[d]
    /\ disputed' = disputed \cup {d}
    /\ UNCHANGED <<rows, book, provider, inbox, task, bounds>>

\* A purchase, settled: refused while returned funds are reviewed; other holds may have
\* come over an order that rests in the book, and are not looked at.
Spend(amount) ==
    /\ book.restrictions = {}
    /\ amount <= Available(book)
    /\ spent + amount <= MaxSpent
    /\ spent' = spent + amount
    /\ book' = [book EXCEPT !.cash = @ - amount]
    /\ UNCHANGED <<rows, outside, inbox, task, faults>>

----------------------------------------------------------------------------
Transaction(c) ==
    \/ Processing(c) \/ Complete(c) \/ Fail(c) \/ Cancel(c)
    \/ HoldCheck(c) \/ Hold(c) \/ ReturnCheck(c) \/ Return(c)

DepositRequest(d) == Pay(d) \/ RecordPayment(d)

WithdrawalRequest(w) ==
    \/ Reserve(w) \/ Link(w) \/ Undo(w)
    \/ Transfer(w) \/ Payout(w) \/ KeepPayout(w)

Reconcile(r) ==
    \/ \E d \in Deposits : ReconcileDeposit(r, d)
    \/ \E w \in Withdrawals : ReconcilePayout(r, w)

Next ==
    \/ \E c \in Callers : Transaction(c) \/ Die(c)
    \/ \E d \in Deposits : RequestDeposit(d) \/ DepositRequest(d) \/ Dispute(d)
    \/ \E w \in Withdrawals : RequestWithdrawal(w) \/ WithdrawalRequest(w) \/ ProcessingFails(w)
    \/ \E h \in Handlers, e \in Events :
          \/ e[1] \in Deposits /\ PaymentEvent(h, e[1], e[2])
          \/ e[1] \in Withdrawals /\ PayoutEvent(h, e[1], e[2])
    \/ \E r \in Readers : Reconcile(r)
    \/ \E m \in Movements : Stripe(m)
    \/ \E amount \in 1 .. MaxSpent : Spend(amount)

Spec == Init /\ [][Next]_vars

\* Processes run on unless they die, and reconciliation comes round: every read of
\* the wallet and every balance.available event of Stripe's starts one.
FairSpec ==
    /\ Spec
    /\ \A c \in Callers : WF_vars(Transaction(c))
    /\ \A d \in Deposits : WF_vars(DepositRequest(d))
    /\ \A w \in Withdrawals : WF_vars(WithdrawalRequest(w))
    /\ \A r \in Readers : WF_vars(Reconcile(r))

----------------------------------------------------------------------------
(* Properties *)

\* The rows, the ledger and what the processes hold have their types; a deficit is of
\* a positive amount.
TypeOK ==
    /\ movement \in [Movements -> Statuses]
    /\ linked \subseteq Withdrawals /\ known \subseteq Withdrawals
    /\ referred \subseteq Deposits /\ disputed \subseteq Deposits
    /\ book \in Book
    /\ payout \in [Withdrawals -> PayoutStatuses]
    /\ provider \in [Movements -> ProviderStates]
    /\ inbox \subseteq Events
    /\ task \in [Callers -> Task]
    /\ faults \in 0 .. MaxFaults /\ spent \in 0 .. MaxSpent

\* However events, requests and reconciliations repeat and overtake each other, every
\* movement counts once: the customer's cash is the opening balance, the settled
\* deposits less the settled withdrawals and purchases, and what the deficits still
\* stand for; what is reserved belongs to active reservations.
CashExplained ==
    LET counted == {m \in Movements : book.journal[m] = "POSTED"} IN
    /\ book.cash = Opening + SumFunctionOnSet([m \in Movements |-> Effect(m)], counted) - spent
          + SumFunction([i \in DOMAIN book.deficits |-> Outstanding(book.deficits[i])])
    /\ book.reserved = SumFunctionOnSet(Amount,
                          {w \in Withdrawals : book.reservation[w] = "ACTIVE"})

\* A settled withdrawal was paid from its own reservation, and one that failed or was
\* cancelled has none left: across the request, its webhooks and reconciliation.
WithdrawalsReserve ==
    \A w \in Withdrawals :
        /\ movement[w] = "SETTLED" => book.reservation[w] = "CONSUMED" /\ book.journal[w] = "POSTED"
        /\ movement[w] \in {"FAILED", "CANCELLED"} => book.reservation[w] # "ACTIVE"
        /\ book.reservation[w] = "CONSUMED" => book.journal[w] = "POSTED"

\* Cash that reservations rest on and that a return has taken away is under review:
\* neither spent nor reserved again before it is made good, whatever deposits,
\* payouts and recoveries come in between.
OverdrawnUnderReview ==
    Available(book) < 0 => "RETURNED_FUNDS_RESERVATION_REVIEW" \in book.restrictions

\* The deficit restriction stands exactly as long as some deficit is open, whatever
\* deposits settled and returned meanwhile.
DeficitsRestrict ==
    "RETURNED_FUNDS_DEFICIT" \in book.restrictions <=> OpenDeficits(book) # {}

(* The customer's cash seen from outside: entries, claims, funds and what he owes. *)
Statement == INSTANCE CashStatement WITH
    entry      <- book.journal,
    claim      <- book.reservation,
    funds      <- book.cash,
    owed       <- SumFunction([i \in DOMAIN book.deficits |-> Outstanding(book.deficits[i])]),
    restricted <- "RETURNED_FUNDS_DEFICIT" \in book.restrictions

\* Whatever requests, webhooks, reconciliations and faults do, and however late, the
\* ledger moves only as the customer's statement may: each movement is entered and taken
\* back once, payouts use up their own claim, debts come from returns only, are repaid
\* from free cash and restrict the customer exactly while they stand.
ImplementsStatement == Statement!Spec

\* The settlement of a deposit that its own request then overwrote: reconciliation
\* meets it first and, once the posting is no longer a replay, stops there.
Overwritten(d) == movement[d] \in Unsettled /\ book.journal[d] # "NONE"

\* A deposit whose payment Slice knows and Stripe has collected is credited in the
\* end, even when its webhook was lost to a handler that died, unless it is held or
\* an overwritten settlement stands in the way.
DepositsCredited ==
    \A d \in Deposits :
        d \in referred /\ provider[d] \in Collected
            ~> \/ book.journal[d] # "NONE" \/ d \in book.held
               \/ \E e \in Deposits : Overwritten(e)

\* The documents' claim: no negative balance is left behind (between transactions).
NoMysteryNegative == book.cash >= 0

\* The comment's claim in create: once a transfer may exist, its funds stay reserved.
TransfersStayReserved ==
    \A w \in Withdrawals :
        provider[w] # "none" => book.reservation[w] \in {"ACTIVE", "CONSUMED"}
=============================================================================
