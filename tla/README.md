# Slice: formal models of trading, payments, pre-sales and event delivery

Slice sells shares of collectibles. Its API server (`src/server`, NestJS over
PostgreSQL) is the authority for who owns what, who has how much money and what
was traded. This directory models the parts of the server in which several
requests, workers and failures meet, checks them with TLC on small instances and
proves the main results with TLAPS for all instances. Paths below are relative
to `src/server/src/modules/` unless they begin with `src/`.

## 1. Inventory

| Component | State it keeps | Operations | Hard behaviours | What makes it correct |
|---|---|---|---|---|
| **trading** (`trading/`) | market status and sequences, orders, executions, reservations | place, place Treasury listing, cancel, expire, match, settle, IOC remainder, halt/resume, activate | cancel against match, pair read before it is locked, request cut between transactions, halt during matching, rounding over partial fills | order equation, exact reservations, no overdraft, nothing sold twice, price-time priority, terminal orders final, requests end |
| **finance: lots** (`finance/domain/fifo.ts`) | open lots with cost | allocate a disposal | pro-rata rounding | units equal the position, cost is never lost |
| **finance: ledger** (`finance/application/`) | journals, balances, holds, deficits | post, hold, recover a deficit, reconcile reservations, separate demo money | reconciliation reads old rows while orders trade | balances equal journals; reserved equals reservations |
| **outbox: events** (`outbox/application/outbox-*.ts`) | event rows with lease, token, attempts | append, claim, begin, route, finalize, requeue | crashes, overtaken leases, lost answers, concurrent routing | one owner, routed once, no event lost or stuck |
| **outbox: deliveries** (`notification-delivery-worker*`, `discord-notification-delivery*`) | delivery rows, in-app notifications | claim, deliver, pull, acknowledge | acknowledgement after the lease, stale clock in a batch | one notification per delivery, every delivery ends |
| **pre-sale** | sale, commitments | commit, extend, cancel, expire, finalize, convert | finalize against cancel, unlocked priority sequence | converted once, commitments funded, unique priorities |
| **initial-offering** | offering, inventory | open, pause, settle, cancel | reads without locks, inventory and position | inventory equals the order's remaining units |
| **ownership** | supply, positions, ledger | policy, issue, transfer | issuing twice | issued never above total |
| **providers** | wallet movements, provider events | deposit, withdraw, settle, fail, hold, return, reverse | late, repeated and reordered callbacks | money posted exactly when settled |
| **community** | proposals, votes, distributions | propose, vote, close, distribute | crash between posting and finalizing | paid once, every distribution ends |
| **submissions, lifecycle** | submissions, intakes, custody, publication | a review workflow | revisions checked by compare-and-set | only legal transitions |
| **identity** | users, sessions, idempotency records | sign in, suspend, acquire/complete a key | expiry of keys and sessions | a request is executed once |
| **admin, catalogue, market data, reads, notifications, research, currency, valuation, workspace** | catalogue rows, snapshots, preferences | editing, projections | few | - |
| **web application, Discord bot** (`src/src`, `src/apps/discord-bot`) | none of authority | clients of the API | - | - |

How they interact. A controller calls a service in one HTTP request. The service
runs one or more PostgreSQL transactions with explicit row locks; between two of
them any other request may run. A domain transaction appends its events with
`OutboxWriter` in the same transaction. Outbox workers, in their own processes,
later turn an event into delivery rows, and delivery workers (or the Discord bot,
by pulling) turn those into messages. Trading reads account state (identity) and
holds (finance), and moves cash (finance) and units (ownership) itself.

Each entry of `hazards` in PROJECT.json names a line of this code where such a
behaviour bites and the properties that watch it.

## 2. Plan

| # | Modules | Question | State |
|---|---|---|---|
| 1 | `OrderPolicy`, `PortfolioLots`, `Trading`, `Exchange`, `TradingMC` | does one market trade correctly under every interleaving? | done |
| 2 | `TradingProofs`, `TradingSafetyProofs`, `TradingFundsProofs` (on `SumLemmas`) | the same for every number of users, orders, prices, fees | done for every safety property of the runs |
| 3 | `LeasedWork`, `Outbox`, `AtLeastOnce`, `OutboxMC`, `OutboxProofs` | is every event routed exactly once in effect? | done |
| 4 | `Deliveries` (on `LeasedWork`), `DeliveriesMC`, `DeliveriesProofs` | does a routed notification reach its user, once where a key allows it, over three channels that die and overtake each other? | done |
| 5 | `CustomerCash`, `MoneyMovements`, `CashStatement`, `MoneyMovementsMC`, `MoneyMovementsProofs` | what do late, repeated, reordered and lost answers of the payment provider do to a customer's cash? | done |
| 6 | `PreSale`, `PreSaleMC`, `PreSaleProofs` | is committed cash held exactly as long as its commitment, however the sale ends? | done |
| 7 | `Wallet` (extends `Trading`) | reservation reconciliation as read and write steps beside fills; a fee policy that changes while orders rest | left |
| 8 | `Distribution`, `Governance` | crash between posting and finalizing; votes on a snapshot | left |
| 9 | two markets, a second producer of orders, `Trading` with `Outbox` | lock order across markets, shared priorities after a pre-sale, each committed trade leads to its notifications | left |

Proofs worth adding: the theorems of the modules of 7 to 9.

## 3. Trading

### The model

`Trading.tla` is one market of `trading/application/trading.service.ts`.

* **A transaction is a step**, because the code takes the market row `FOR UPDATE`
  first and holds it to the end. The exception is the matching transaction: it
  *chooses* the best pair while holding the market row only, and locks the two
  orders afterwards. `cancel` and `expireOrders` take the order row but never the
  market row, so they can commit in between. `MatchSelect` is the choice,
  `MatchStale`, `MatchSelfTrade`, `MatchSettle` and `MatchThrows` are the possible
  ends; `match` is what the open transaction chose, and `MarketRowFree` says that
  no transaction holds the market row. After the orders are locked nothing that
  the model contains can intervene, so the rest of the transaction is one step.
* **A request is several transactions.** `request[o]` is how far the request that
  placed order `o` has come: matching rounds, then (for IOC) cancelling the
  remainder. `MatchRefused`, `MatchThrows` and `Interrupt` end it early with the
  order already committed; `Replay` is the idempotent repetition, which returns
  the order and does nothing else.
* **Rows.** `order` holds the order and its reservation row; `reservedCash` and
  `reservedUnits` are the counters kept beside them; `cash` is the posted balance;
  `lots` and `realized` are the FIFO lots and the disposals' profit; `outbox` is
  the set of appended events; `executions` is in `marketSequence` order. An order
  is identified by its priority sequence.
* **Arithmetic** is the code's: `OrderPolicy` (ceiling fee, maker price),
  `PortfolioLots` (FIFO, floor of the pro-rata cost), the floor of the running
  average. Amounts are natural numbers; the code uses `bigint`, which does not
  overflow. Lot size and tick size only restrict inputs, so `Prices` and
  `Quantities` are the inputs that pass them.

| Code | Action or definition |
|---|---|
| `place`, `placeTreasuryListing`, `reserveCash`, `reserveUnits` | `Place`, `PlaceTreasuryListing`, `OpenOrder`, `AvailableCash`, `AvailableUnits` |
| `matchMarket` | `MatchSelect`, `MatchRefused`, `MatchStale`, `MatchSelfTrade`, `StopMatching`, `CountRound` |
| `settleExecution`, `settleOwnership`, `settleCash`, `applyFill`, `disposeSellerLots`, `createBuyerLot` | `MatchSettle`; each throwing check is in `Settles`, else `MatchThrows` |
| `cancel`, `expireOrders`, `cancelIocRemainder`, `releaseRemainder`, `closeOrder` | `Cancel`, `Expire`, `CancelIocRemainder`, `CloseAndRelease` |
| `setMarketStatus` | `SetMarketStatus` |
| account suspension, returned-funds hold | `ToggleSuspension`, `ToggleHold` (other modules' operations, as trading sees them) |

The deficit of a fee-rounded reservation, a blocked resume and an unchecked
suspension are in the model because they are in the code (section 10).

`Exchange.tla` is what a customer is promised: a book, what everybody owns, an
order that its owner can honour beside all his others, the best bid trading with
the best ask at the older order's price. It has no reservations, counters,
requests or locks. `ImplementsExchange` is the refinement: the book is the set of
active orders, and what is still free is derived from the book rather than from
the counters the code maintains. `bought` counts each customer's purchases, because the
promise has a price: where takers pay a fee, fills round it up one by one, and a
customer may have committed up to a penny per purchase more than he owns. Without a taker
fee the slack is zero.

Definitions commented *Faulty variant* are never used by the specification. Each
is the definition after it with a plausible slip, and shows which property would
notice it; PROJECT.json pairs them.

### The runs

| Run | Bounds | What it shows |
|---|---|---|
| `TradingBook` | 3 orders, 2 customers and the Treasury, prices 100 and 101, 1 or 2 units, no fee, one order that may expire, 2 rounds per request; 979,000 states | Three orders are the fewest in which a partial fill meets a second counterparty, a better price arrives later than a worse one, a stale pair leaves another crossing pair, and the round limit is reached. Two prices and two quantities give price priority, time priority, price improvement, partial and complete fills. Seven invariants, finality of terminal orders and the refinement of `Exchange`, here without slack. |
| `TradingFees` | 4 orders at 101 or 160 pence, maker 0, taker 100 bps; the buyer has 306 pence and the seller 2 units; 1.67 million states | One per cent of 101 is 1.01, so the ceiling takes two pence for one unit and three for two: rounding drift happens, reservations and the counter run short, the last penny of a customer is promised twice, and still nobody is overdrawn, no penny is lost, and no shortage exceeds a penny per fill. With the slack of `Roundings` or of `Exchange` set to zero the run fails, so the bound is reached. |
| `TradingRequests` | 2 orders, GTC and IOC, interruption of either request, halts, holds, a suspension and an expiry; fair; 315,000 states | Requests end in every case, IOC orders leave the book when their request returned, customers can always cancel. |
| `TradingResume`, `TradingFeeRounding`, `TradingSuspended` | as small as shows the case | section 10 |

Deadlock is not checked: all orders may have been placed and closed, and the
bounded model then stops rightly.

**Fairness** is assumed in `TradingRequests` only: `WF_vars(RequestStep(c))` for
each request. The process that serves a request goes on with it when its
transaction ends, and PostgreSQL grants the market row to its waiters in turn.
Nothing is assumed of customers, sweeps or operators. Weak fairness is enough
although one request's step is disabled while another holds the market row,
because orders, and with them requests and rounds, are finite in number: the
row is finally left free, or is the request's own.

Three things follow from the code and are left visible: an interrupted or refused
IOC request leaves its order in the book, and replaying it does not remove it
(hence `request[o].phase = "returned"` in `IocLeavesTheBook`); a stale pair or
the round limit may leave a crossed book until the next order is placed, so no
property says that a book at rest is uncrossed; and a held buyer at the head of
the book makes every matching transaction throw (`HeadOfBookSettles` shows that
with no taker fee a hold is the only cause, and with one a missing penny the only other).

## 4. Outbox

`LeasedWork.tla` is a row of a leased work queue: claim, fence, finalize,
requeue, as `outbox-worker.repository.ts` writes it. `Outbox.tla` is the life of
events above it: `Append` (producers), `ClaimBatch`, `BeginAttempt`, the handler,
`FinalizeSuccess` and `FinalizeFailure` (workers), `RequeueOutbox` (operators).
Every SQL statement or transaction is a step. Between any two a worker may
`Crash`, which also stands for a stop that drops the rest of a batch; a finalizing
write may fail (`FinalizeThrows`, after which the code goes on with the batch and
leaves the lease); the handler's commit may succeed and its answer be lost
(`HandlerThrows`). Time is not a number: `due` says that a backoff or a lease has
run out. `TimePasses` lets it run out when nobody is working on the row,
`LeaseOvertaken` while somebody is, which is the hazard.

Tokens are finite: a fresh token is one that neither the row nor any worker
still holds. The code's are random UUIDs, so this only *adds* coincidences the
code cannot have (a token that is reused after everybody forgot it). One more
token than there are workers is always enough.

`AtLeastOnce.tla` is the promise to producers and operators, and
`ImplementsAtLeastOnce` the refinement: the public status of a row, and the set of
events all of whose deliveries exist.

`OutboxDelivery` has one good and one malformed event, two intents, two workers
with batches of two, two attempts, two faults of any kind and one requeue
(105,000 states). Two workers and two faults are what an overtaken lease followed
by the old worker's late write needs, with a crash or lost write to spare; two
attempts separate a retry from giving up; the malformed event shows the
non-retryable path in the same batch. Fairness: each worker polls on a timer and
goes on with its batch, and time goes on. `EventsFinish` is therefore about finitely
many faults. A handler may fail without limit, since attempts are.

A requeue keeps the attempts, so that the next failure is terminal; and attempts
are not compared with their limit when a row is claimed, so an event whose
handling kills the process is tried for ever. Both are as in the code; the second
lies outside `EventsFinish` because faults are bounded.

## 5. Deliveries

A routed event is a set of `NotificationDelivery` rows. `Deliveries.tla` is what
becomes of them: the in-process workers (`notification-delivery-worker.*`) with the
in-app and e-mail transports, and the Discord bot (`src/apps/discord-bot`), which
pulls private deliveries over HTTP. Both lease rows of one table, with the
operators of `LeasedWork`.

| Code | Action or definition |
|---|---|
| `claimBatch`, `begin` | `ClaimBatch`, `Begin` |
| `InAppNotificationTransport`: create, then publish | `CreateNotification`, `PublishCreated` |
| e-mail transport and its `TransactionalEmail` record | `PrepareEmail`, `ProviderAccepts`, `ProviderFails`, `RecordSent`, `RecordFailed` |
| `success`, `failure`, the choice of `terminal` | `Success`, `Failure`, `Terminal` |
| bot: pull, resolve, receipt, send, acknowledge | `Pull`, `Suppress`, `ReadReceipt`, `Send`, `SendFails`, `CompleteReceipt`, `FailReceipt`, `Acknowledge` |
| a process that dies, a write or answer that is lost, a lease that is overtaken | `BatchDies`, `RecordSentThrows`, `SentUnnoticed`, `AcknowledgementLost`, `LeaseOvertaken` |
| `requeueDelivery` | `RequeueDelivery` |

`process[p]` is what a worker or a scan holds in memory: the tokens of its batch,
the delivery it is at, its phase, the attempts and the outcome it remembers. It is
private to the process and may be out of date; `row`, the notification, the e-mail
record and the bot's receipt are what persists; `mailed`, `sent` and `published`
count what users got. A channel differs from the others in what guards its effect:
a unique key (in-app), an idempotency key (e-mail), nothing (Discord); the
properties say exactly that much of each.

`NotificationDeliveries` has an in-app delivery, a good and an unusable e-mail and a
direct message, routed by three events; two workers, two scans, batches of two, two
attempts, two faults and one requeue. Two processes of each kind and two faults are
what an overtaken lease and a late answer need; the bot's timer does not wait for
the scan before, so its scans overlap. `Fairness`: workers and bot poll on timers and go on
with their batches, and time passes. `Suppress` is under no fairness: whether a user
unlinks is his choice.

## 6. Money movements

`CustomerCash.tla` is the ledger as one customer's cash knows it: posting and
reversing a journal, reserving, releasing, consuming, and what
`financial-ledger.service.ts` does when a return takes money that is not there
any more: the deficit, its recovery, and the two restrictions. It has operators
only, each the effect of one function within the transaction of its caller.

`MoneyMovements.tla` is what calls them: requests for bank deposits and
withdrawals (`wallet-movement.service.ts`), payouts
(`stripe-connect-payout.service.ts`), webhooks with their inbox
(`provider-webhook.service.ts`), and reconciliation.

* **A process is a task.** `task[c]` is the movement a request, a webhook handler or
  a reconciliation works on and the transaction or call of Stripe it comes to next.
  Every transaction and every call of Stripe is a step. `lockMovement` opens a
  transaction of its own, so the row is *not* locked when its caller writes:
  `HoldCheck`/`Hold` and `ReturnCheck`/`Return` are two steps each, and
  `RecordPayment` writes over whatever happened meanwhile, as in the code.
* **Stripe** (external, as `src` uses it) goes through the states of a payment or
  payout (`Stripe`, `Dispute`). An event is told once it `Occurred`, in any order and at any
  time; a repeated delivery is answered as a replay. A call may be refused,
  succeed, or succeed with its answer lost. A payment may fail after it was confirmed
  (`lapsed`); told while the deposit is under review, that is a return
  (`provider-webhook.service.ts:226`, `:259`).
* **Faults**: a lost answer, a failed write, a process that dies (`Die`), at most
  `MaxFaults`.
* **Spending** stands for all other uses of cash: a settled purchase of what is
  available. Settlement looks for the two holds of returned funds only, so an order that
  rests in the book is settled under a hold on withdrawals as well.

`CashStatement.tla` is what the customer is promised, without requests, webhooks,
reconciliations or rows: entries of his movements, his withdrawals' claims on his funds, and what
he owes. `MoneyMovements` implements it (`ImplementsStatement`): whatever the processes do, each
movement is entered and taken back once; a payout uses up its own claim; a claim and
a purchase find funds that nothing else claims; a debt arises only from a return that finds too
little, exactly as large as what is missing, is repaid only from unclaimed funds, first by the next
credit that leaves some, and restricts the customer exactly while it stands. What the
statement does *not* promise is that a payout or a return finds the money:
`NoMysteryNegative` shows why it cannot.

`MoneyMovements` lets a customer make two deposits (2 and 1), or a deposit and a
withdrawal (2 and 2), and spend 2, with one webhook handler, one reconciliation and
one fault. The larger deposit can meet everything Stripe may do to a payment; it
exceeds what the smaller one makes good, which gives deficits that are open,
partly recovered and recovered. One handler and one reconciliation beside the request itself
are three processes on one movement. 723,000 states.

**Fairness**: processes run on (a process that dies has ended), and reconciliation
comes round. The code has no timer for it; reading the wallet's movements
(`wallet-movement.service.ts:1915`, `:1967`) and Stripe's `balance.available` events
(`provider-webhook.service.ts:194`) start it. So `DepositsCredited` says: as long as the customer looks at
his wallet or Stripe reports balances, a collected deposit is credited. Webhooks are under no
fairness at all: their handler may have died. The property exempts a movement that is held, and
one whose settlement its own request has overwritten, which the code does not repair.

## 7. Pre-sales

`PreSale.tla` is `pre-sale.service.ts` with `pre-sale.worker.ts`, and as much of
the initial offering as decides whether a finalization goes through. A call is one
transaction under the lock of its row (`Reserve`, `Pause`, `Resume`, `Extend`, `Cancel`,
`FinalizeEmpty`), with two exceptions:

* **Launching** reads without the lock that the sale is a draft (`ReadDraft`) and then
  writes the row by its id, whatever it says by then (`Launch`): a cancellation in between is
  overwritten. Of two launches that overlap the model has one; the later one would resume
  the sale with a later deadline. `OpenOffering` waits for launches: after `ReadDraft` an
  offering of provisional terms needs a valuation and a supply to be approved before it can be opened, which
  takes longer than a transaction may last; otherwise `open` creates its row, which can be
  done once (`initialOfferingId` is unique).
* **Finalizing** holds the sale's lock throughout (`finalizing`; `Unlocked` keeps the other
  calls out) but reads the seller's order without that of the order (`ReadSeller`), and settles
  later (`Finalize`) or not at all (`Abandon`). Its absolute writes of the remaining units lose
  nothing: each settlement reads the orders again, and a trade that commits after that
  read takes the same sequence number of the market, so that one of the two fails. But units
  sold between the first read and the first settlement are missing at the end: settlement
  takes the lesser of both orders' remaining units, and the *last* commitment is marked CONVERTED with
  fewer units than promised, its order PARTIALLY_FILLED and its reservation ACTIVE for the rest
  (`CutShort`, `FundsAfter`). If nothing is left for it, settlement throws.

`Finalize` settles every commitment or none; its guard has the checks that depend on the
commitments (reservation and hold of each, `Settles`). Whatever else may refuse it, a market or an offering
that is not open, changed terms, another trade, a timeout, is `Abandon`. The sweep of each
server process reads the due sales and then cancels them one transaction at a time
(`ReadDue`, `ExpireNext`, `FailSweep`). `OpenOffering`, `SellInMarket`, `Secure`,
`ToggleHold` are other modules' operations as a pre-sale meets them. What becomes of the order that a
commitment cut short leaves in the book is left to `Trading`.

`PreSale` has two sales of four units at 50 pence with a taker fee of 1 %, and two buyers: one
wants two units of each sale and has cash for one of them, the other two units and a single unit
of the first, so that five units of four are asked for. The fee of two units is a
penny, that of a single unit half a penny, so some commitments can settle whole
and others cannot, and a commitment of two can be cut short to one, alone or beside one that is
settled whole. One sale may arrive, one buyer may be held, one sweep
process, one fault; instants 0 to 2 with terms and extensions of 1: enough for an
extension between the sweep's read and its transaction. 287,000 states.

**Fairness**: the worker sweeps every 60 seconds, and time passes. A finalization ends, one way or
the other: Prisma's transactions time out. While it lasts it keeps the sweep waiting, which is
therefore under strong fairness (`ExpireNext`): waiters for a row lock are served in turn, so an
administrator who tries to finalize again and again cannot keep it out for ever. Nobody has to
finalize or cancel: `CommitmentsEnd` rests on the deadline alone.

What the model contains because the code does, though a reader may not expect it:
a cancelled sale can be finalized (it becomes CONVERTED, with no commitments left)
and extended, and a launch in progress makes it ACTIVE again; the sweep does not look at an
extension made after it read; a held buyer, or a fee that rounds, blocks the
finalization of everybody in the sale, as do units sold before it looked, since
promised units stand in the offering's order and can be bought by anyone (`SellInMarket`).
Neither property of the run says that a sale *can* be converted: they say that money
is safe and that commitments end.

## 8. What is only model-checked

* Liveness: `RequestsEnd`, `EventsFinish`, `DeliveriesFinish`, `DepositsCredited`,
  `CommitmentsEnd`. `AlwaysCancellable` uses ENABLED. TLAPS 1.4.5 reasons neither about
  fairness nor about ENABLED; what could make a cancellation throw is proved away by
  `ReleasesGoThrough`.

Every other property of a passing run is the subject of a theorem of section 9, for
every fee the policy allows; only `NoOverdraft` is for maker fees up to the taker's.

## 9. What is proved

All theorems are about arbitrary sets of users, orders, movements, deliveries, sales,
commitments and processes, any positive prices and quantities, and every
interleaving. Users, movements and commitments are finite in number, as rows of
tables are, since there are sums over them; deliveries, events, sales and processes may be
infinitely many. The assumptions are `TradingAssumption`, `OutboxAssumption`,
`DeliveriesAssumption`, `CustomerCashAssumption`, `MoneyMovementsAssumption` and
`PreSaleAssumption`, which TLC evaluates in every run of their module: identities of
different kinds differ, functions have the right domains, fee rates are between 0
and 1000 basis points as `assertMarketPolicy` demands, amounts, prices and
quantities are positive, limits are natural numbers.

**Sums.** `SumLemmas` holds the facts on finite sums that the other modules cite: taking an
element out, changing one value, the difference of two sums, a bound on a part. They need
induction, and the library's induction theorems take the hypothesis as an operator,
which no installed prover can instantiate. Here the hypothesis is a *set* (the
subsets, or the numbers, for which the claim holds), so that induction
(`SubsetInduction`, `UpToInduction`, from the well-foundedness of `<` on the naturals) is
a first-order fact.

**Trading.** The inductive invariant is
`BookInv == BookTypeOK /\ OrderEquation /\ MatchedPair`. The order equation alone
is not inductive: a settlement subtracts the smaller remainder of the pair that
`match` names, so one must know that `match.buy` is a placed BUY and `match.sell`
a placed SELL (`MatchedPair`), hence two different rows. The proof classifies the
steps once (`StepKinds`): *quiet* steps that touch no order, *closing* steps,
*placing* steps, *settling* steps. `Opening`, `Closing` and `Settling` say what
each does to the book, and every further theorem has these four cases.

| Theorem | States | Needs |
|---|---|---|
| `BookInvariant`, `BookTypes`, `OrdersAddUp` | the invariant, types, the order equation | - |
| `TerminalOrdersStay` | terminal orders never change | unplaced orders lie at or beyond `nextPriority` |
| `ReservationsExact` | reservations active exactly with their orders, sell reservations exact | - |
| `UnitsStayCovered` | 0 <= reserved units <= settled units | - |
| `CashNeverOverdrawn` | 0 <= cash, reserved <= cash | `MakerFeeBps <= TakerFeeBps`: placing reserves the taker's fee, so a dearer maker fee would debit more than was reserved |
| `AveragesWithinLimits` | the floored average stays within the limit | - |
| `IocOrdersLeave` | a request that returned leaves no IOC order in the book | - |
| `ReservationsStayWithinRounding` | a buy reservation is at least 0, at most what its remaining units can cost, and short of that by at most a penny per fill | unplaced rows are blank, only placed orders are executed; the fee of a whole is at most the fees of its parts and at least those less a penny (`FeeOfParts`) |
| `FreeReservationsExact` | without a taker fee, the current default, it is exact | the row above; `TradingFeeRounding` shows that the hypothesis is needed |
| `CountersBacked` | the counters of reserved cash and units are the sums of the ACTIVE reservations, that of cash less what closed orders were over-released | the reservations exact or within rounding |
| `FreeCountersExact` | without a taker fee the counter of cash is exactly that sum | the row above |
| `TotalsAreConserved` | totals of cash and units never change | - |
| `ExecutionsAreSound` | every execution is at the maker's limit, within both limits, and an order's filled quantity is the sum of its executions | the terms of placed orders never change; only placed orders are executed |
| `LotsFollowPositions` | the lots hold exactly the settled units | lots are positive (`LotsTyped`) |
| `CashIsExplained` | changes of cash are changes of lot costs and realised profit | the lots follow the positions |
| `TradingTypes` | `TypeOK`, the lots and the outbox included | the two rows above |
| `HeadAlwaysSettles` | a locked pair passes the checks of units and lots, and lacks at most a penny per fill and per purchase in its reservation and its counter | nearly every row above: reservations active and within rounding, counters backed, units covered, enough lots; no treasury order buys |
| `ReleasesGoThrough` | an active order can be released: the code's check of the reserved units never throws | counters backed, sell reservations exact |
| `MarketImplementsExchange` | `Trading` implements `Exchange`, for every fee | `MatchIsBest` and the counters |

`MatchIsBest` is the heart of the refinement: between the unlocked choice and the
locked settlement the pair that `match` names remains the best bid and the best ask,
because orders can leave the book in the meantime and none can enter it. The settlement
therefore trades the head of the abstract book, although the code, once it has the locks, only asks
whether the two orders are still open and still cross.
An abstract order must be one that its owner can honour beside all his others, and the code
checks that against its *counter*.

How far the counter can be from the truth is a proof of three invariants, each inductive
only beside the last. The *gap* of a buy order is what its remaining units can cost less what its
reservation row holds. A fill takes off the row the worst case of its own units, so it
adds to the gap the fee of the two parts less the fee of the whole, which is 0 or 1
(`GapOfFill`): the gap is between 0 and the number of the order's fills
(`AllWithinRounding`). Then the gaps of a customer's orders, open and closed, add up to at most
his purchases (`AllGapsBounded`); closed orders count too, since a release takes off the counter
what the order's units could cost, not what the row held, and so takes the gap from the
reservations of *other* orders. Last, the counter is the sum of what each order claims of it, its row
while it is open and minus its gap once it is closed (`AllCashBacked`). Together: whatever is free by
the counter is free by the book but for a penny per purchase, which is `Enter` of
`Exchange` (`PlacingEnters`), and a locked pair lacks no more than that (`HeadSettles`). With a
taker fee of 0 all gaps are 0, and the exact statements follow.

**Outbox.** The inductive invariant is
`OutboxInv == TypeOK /\ WorkersInformed /\ OneOwner /\ RoutedOnce /\ DeadLetterJustified`.
`WorkersInformed` is the strengthening: what a worker remembers of its event when
it finalizes is still true (it was appended, it has at least the attempts the
worker counted, it is malformed if the worker refused it, its deliveries exist if
the worker handled it), although others may have worked on it since. From it
follow `OutboxTypes`, `OneOwnerAlways`, `RoutedOnceAlways`,
`DeadLettersJustified`, and `OutboxImplements`: every step maps to a step of
`AtLeastOnce` or to a stutter.

**Deliveries.** `DeliveriesInv` has, beside the types and the properties themselves,
`Knows` (a worker or scan that holds an outcome remembers something true: the notification
exists, the mail went out, the row has at least the attempts it counted),
`RecordsTrue` (a record of the channel that says SENT or DELIVERED is true; this is what
a *later* attempt relies on), and `OnePublisher` (two workers never stand between
storing and publishing the same notification, because only one stored it). None of these is a
property of a row alone, and without them no property survives the step in
which a late process writes. From it: `DeliveryTypes`, `EffectsOnceAlways`,
`DeliveredWasDeliveredAlways`, `GivenUpJustifiedAlways`. `ClosedForGoodAlways`, an action
property, needs only the types and the fence.

`RepeatsNeedFaultsAlways` bounds a count, and needs an invariant that counts what may
still happen: for each direct message, the times it was sent, the scans that yet owe it (they hold
a claim on it and have not sent it, or will report it unsent), and one more if its row
may be claimed again, are together at most one more than the faults (`RepeatsCounted`).
A claim turns an open row into an owing scan, a send turns an owing scan into a message, and a
report of failure opens the row again; only a fault adds to the sum. The set of
owing scans is shown to be finite, not assumed to be.

**Money movements.** Of each operator of the ledger it is shown first that it keeps
`Sound` books (typed, and restricted for a deficit exactly while one is
open). `MoneyInv` adds `Working`, which transactions a process may come to on
which movement (a request that has not yet linked its reservation is the only one
at work on its withdrawal), and `Reserving`, the property `WithdrawalsReserve`
strengthened by what it rests on (a withdrawal is never reversed; what is
linked exists; a payout that webhooks know of is linked). From it:
`MovementTypes`, `DeficitsRestrictAlways`, `WithdrawalsReserveAlways`. (`DeficitsRestrict` is checked
by TLC as part of `ImplementsStatement`, whose `restricted` and `owed` it relates.)

A second inductive invariant, `LedgerInv`, stands on the first. `Unexplained` is
the cash less the posted journals and less what open deficits stand for, `Loose` the
reserved amount less the active reservations. Each operator of the ledger keeps both
(`Kept`), so that `Unexplained` is always the opening balance less what was spent and
`Loose` is zero (`CashStaysExplained`). Beside them it has `NotShort`, which is
`OverdrawnUnderReview` of a book (`ShortagesUnderReview`), and what those two need: a deficit
is of a reversed deposit (else recovering it would count the deposit twice), only linked
reservations are consumed, and a return under way is of a deposit whose journal was written.
`OverdrawnUnderReview` is not inductive without the sum: that settling a payout leaves nothing less
available than before holds because its amount is part of `reserved`.

`LedgerImplementsStatement` is the refinement. Beside the two invariants it needs that no
deficit is repaid beyond its amount (`Repayable`: else the debt could be nothing with a deficit
open) and that an entered withdrawal has used up its claim (`PaidFromClaim`: else a
settlement that comes again could be an entry without a claim, or a claim used up
without an entry). Each operator is shown to be one step of the statement: `CreditStated`, `PayOutStated`,
`ReturnStated`, `ReleaseStated`, `RequestStated`, `SpendStated`. How much the debt falls
when a deficit is recovered follows from the sums: a recovery keeps `Unexplained`, so the debt
falls by what the cash falls by.

**Pre-sales.** `PreSaleInv` is inductive together with `OpenedFirst`, which orders the life of
a sale: what is converted was found opened, and what is opened has no launch in progress.
So no late launch revives a sale that has converted a commitment, and an offering that opens has none yet that
was cut short. What makes `EndedSalesHoldNothing` so is that `Reserve` demands an ACTIVE sale, which
only starts with no commitment or had them all along. From it `FundsFollowAlways` and
`EndedSalesHoldNothingAlways`. That only a sold-out offering cuts a commitment short follows
from `MissingUnits`: if units are missing, what the commitments get is all that the order has.

`CashInv` adds the sums: a buyer's reserved cash is what his ACTIVE reservations hold, his
cash is what he opened with less what the units bought for his commitments cost, and the one covers the
other. A settlement takes at least its price from what is reserved. What was reserved rounds
the fee down and what settles a whole commitment rounds it up, so the first is never more than the second
(`ReservationIsNoMore`), and a commitment settles only if it is not less: whatever is converted whole
takes exactly what was held for it, and one cut short a part of it. `OfferInv` is about units: a
reservation is checked against the ACTIVE commitments of its sale only, so it needs that a sale which has
converted a commitment is CONVERTED and stays so (`ConvertedEnded`), whatever is extended, launched or
swept. From it `NeverOversoldAlways`. `CommitmentsKeptAlways` joins the four parts;
`PreSaleTypes` completes the types.

## 10. Where code and documents differ

Shown by runs:

* **A halted market cannot be resumed** (`TradingResume`). `setMarketStatus` reads
  the market through `lockMarket`, whose policy check refuses every market that
  is not OPEN; the documents list a resume endpoint, and the controller has one.
* **Partial fills use up more than was reserved for them**
  (`TradingFeeRounding`). Fees are rounded up per fill, the reservation was
  rounded up once. With a taker fee the last unit of an order can become
  impossible to settle. The shortage is never more than a penny per fill
  (`ReservationsStayWithinRounding`). A cancelled order gives back by its units and not by
  its row, so it can also take the missing penny from the counter behind another order of the
  customer. The fee is 0 by default at present, and `CashReservationsExact`
  then holds (`FreeReservationsExact`).
* **Suspended accounts trade** (`TradingSuspended`). The document says that the
  account is checked to be ACTIVE immediately before settlement; settlement checks
  only a returned-funds hold of the buyer.
* **A negative balance without a receivable** (`MoneyMovementsNegative`). A deposit is
  returned while a withdrawal of the same money is under way. The reserved amount
  keeps the balance from being negative at that moment, so no deficit is recorded; then the payout
  settles and takes the balance below zero. The documents exclude that.
* **A reservation released although the transfer exists** (`MoneyMovementsTransfers`).
  When Stripe's answer to a transfer is lost, the request takes it for refused and
  gives the money back, against the comment above that very code.

Met while reading, without a run:

* Deposits are meant to remain possible while a deficit is open
  (`account-capability.service.ts:334`), but the compliance check of the same
  request refuses any hold (`DepositAllowed` has both).
* A dispute of a deposit that is already SETTLED is ignored (`Response`).
* Recovering a deficit and writing it off both write absolute amounts, one of them
  without the lock (`financial-ledger.service.ts:497`).
* The comment at `schema.prisma:2662` says that the offering's inventory stays
  reserved for pre-sale commitments; the opened offering sells it to anyone.
* A trade between finalization's look at the offering's order and its first settlement
  (`pre-sale.service.ts:670`) leaves the last commitment CONVERTED with fewer units than
  it promised (`CutShort`).
* Launching writes over a cancellation that commits after its read
  (`pre-sale.service.ts:41`).
* Deliveries of classification PUBLIC for Discord are claimed by nobody
  (`notification-routing.service.ts:84`).
* A self-trade or an IOC cancellation closes an order without the event and audit row that
  `cancel` writes (`trading.service.ts:1121`).

## 11. Not modelled

The repository has about 190,000 lines of implementation; the mapped definitions stand
for some 5,800 of them (3 %). That is most of what is concurrent and
authoritative in trading, money, pre-sales and notifications, and a small part of
the whole, because the whole is mostly something else: the web application
and the bot's commands are presentation; `admin`, `reads`, `catalogue`,
`market data`, `research` and `workspace` project rows for screens;
`submissions`, `lifecycle` and most of `identity` are reviews by one actor on a row
with a revision check, where a state machine would restate its guards. A model of
these would add lines and no behaviour that an interleaving or a fault could
break. What does remain worth modelling is in section 2 (7 to 9).

Within trading: initial-offering orders in the book, fee changes while orders rest,
24-hour expiry of idempotency records, several markets (and so the
lock order across markets), previews, read projections, audit rows and activation
checks. `expireOrders` has no caller in the repository and nothing writes
`expiresAt`; it is modelled because it is an operation of the service.
Database CHECK constraints (reserved units between zero and settled units, units
of a reservation positive) are not part of the model; that the code never runs
into the first is `UnitsCovered`.

Within the outbox and deliveries: contents of events and messages, the choice of
destinations, PUBLIC deliveries, and the bot's price alerts, market digest and
market feed (whose rows can stay SENDING or PUBLISHING when the bot dies).

Within money: the card rail, LOCAL_TEST events, limits, fees and liquidity checks,
staff resolving a hold, adjustments and write-offs, revenue settlement, legacy
BACS holds and states; of the holds placed, only their effect.

Within pre-sales and offerings: configuring a draft, the price change that an approval of
the ownership policy makes under existing commitments, allocation of issued
ownership, pausing and cancelling an offering (the CHECK on reserved units makes
both fail while its order is open), settlement fees to the beneficiary.

The other components of section 1 are planned (section 2) or sequential as said
above. PROJECT.json gives the reason for each.
