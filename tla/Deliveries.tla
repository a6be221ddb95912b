------------------------------ MODULE Deliveries ------------------------------
(***************************************************************************)
(* The delivery of notifications, after the outbox has routed an event:    *)
(* the in-process workers of outbox/notification-delivery-worker.service   *)
(* with the in-app and e-mail transports, and the Discord bot, which pulls *)
(* private deliveries over HTTP, sends direct messages and acknowledges.   *)
(*                                                                         *)
(* Both lease rows of the one NotificationDelivery table.  Each statement, *)
(* transaction, request or external send is a step; between any two a      *)
(* process may die or be overtaken by the expiry of its lease.             *)
(***************************************************************************)
EXTENDS LeasedWork, FiniteSets

CONSTANTS
    InApp, Email, Discord,   \* the deliveries, by channel; Discord: PRIVATE ones
    NoDelivery,
    Invalid,                 \* local deliveries whose destination or payload is unusable
    Routes,                  \* the sets of deliveries an event is routed to, by its type
    Mandatory,               \* the deliveries no preference can switch off
    Workers,                 \* in-process workers, one per server
    Scans,                   \* scans of the bot in progress: a timer starts them, unguarded
    Tokens,
    BatchSize,
    MaxAttempts,             \* outboxMaxAttempts
    DiscordMaxAttempts,      \* 5 in the code
    MaxFaults,               \* bound: crashes, failed writes, lost answers, overtaken leases
    MaxRequeues              \* bound: requeues by operators

Local == InApp \cup Email
Deliveries == Local \cup Discord
Processes == Workers \cup Scans

ASSUME DeliveriesAssumption ==
    /\ InApp \cap Email = {} /\ Local \cap Discord = {}
    /\ NoDelivery \notin Deliveries
    /\ Invalid \subseteq Local
    /\ Routes \subseteq SUBSET Deliveries
    /\ Mandatory \subseteq Deliveries
    /\ Workers \cap Scans = {}
    /\ Tokens \subseteq Nat \ {NoToken}
    /\ BatchSize \in Nat \ {0}
    /\ MaxAttempts \in Nat \ {0} /\ DiscordMaxAttempts \in Nat \ {0}
    /\ MaxFaults \in Nat /\ MaxRequeues \in Nat

VARIABLES
    row,        \* NotificationDelivery rows
    process,    \* what each worker and each scan holds in memory
    notice,     \* number of Notification rows of an in-app delivery
    published,  \* realtime messages published for it
    record,     \* status of the TransactionalEmailDelivery row
    mailed,     \* e-mails the provider accepted, by idempotency key
    receipt,    \* status of the bot's DiscordDeliveryReceipt
    sent,       \* direct messages Discord accepted
    faults,
    requeues

channels == <<notice, published, record, mailed, receipt, sent>>
vars == <<row, process, channels, faults, requeues>>

----------------------------------------------------------------------------
(* Definitions commented "Faulty variant" are no part of the specification:  *)
(* each is the definition after it with a plausible slip in the code.        *)

ClosedStatuses == {"DELIVERED", "SUPPRESSED", "DEAD_LETTER"}

DeliveryRow ==
    [status   : {"NONE", "PENDING", "PROCESSING"} \cup ClosedStatuses,
     due      : BOOLEAN,
     token    : Tokens \cup {NoToken},
     attempts : Nat]

\* A process: the tokens of the claims it has not finished, the delivery it is at
\* and what it remembers of it.
ProcessType ==
    [phase : {"looping", "begun", "created", "mailing", "mailed", "mailfailed",
              "sending", "sent", "failing", "answered"},
     tokens : [Deliveries -> Tokens \cup {NoToken}],
     at : Deliveries \cup {NoDelivery},
     attempts : Nat,
     outcome : {"DELIVERED", "RETRYABLE_FAILURE", "NON_RETRYABLE_FAILURE",
                "DESTINATION_UNAVAILABLE"}]

Looping(tokens) ==
    [phase |-> "looping", tokens |-> tokens, at |-> NoDelivery,
     attempts |-> 0, outcome |-> "DELIVERED"]

Idle == Looping([d \in Deliveries |-> NoToken])

Holds(p, d) == process[p].tokens[d] # NoToken

\* The claim of p on d would pass the fence.
Current(p, d) == Holds(p, d) /\ Owned(row[d], process[p].tokens[d])

TokensOf(d) == {row[d].token} \cup {process[p].tokens[d] : p \in Processes}

FreshToken(d) == CHOOSE t \in Tokens : t \notin TokensOf(d)

At(p, phase) == process[p].phase = phase

Go(p, phase) == process' = [process EXCEPT ![p].phase = phase]

Ends(p, phase, outcome) ==
    process' = [process EXCEPT ![p].phase = phase, ![p].outcome = outcome]

\* The process goes on with the rest of its batch.
NextClaim(p) ==
    process' = [process EXCEPT ![p] = Looping([@.tokens EXCEPT ![process[p].at] = NoToken])]

\* The process goes on without the delivery d.
Drops(p, d) == process' = [process EXCEPT ![p].tokens[d] = NoToken]

\* One transaction leases some of the due rows of a channel.  The bot's claim
\* counts as an attempt, an in-process one does not yet.
Claim(p, deliveries, counted) ==
    /\ process[p] = Idle
    /\ \E batch \in SUBSET {d \in deliveries : Claimable(row[d])} :
          /\ batch # {}
          /\ Cardinality(batch) <= BatchSize
          /\ \A d \in batch : Tokens \ TokensOf(d) # {}
          /\ row' = [d \in Deliveries |->
                IF d \in batch
                THEN [Claimed(row[d], FreshToken(d)) EXCEPT !.attempts = @ + counted]
                ELSE row[d]]
          /\ process' = [process EXCEPT ![p].tokens =
                [d \in Deliveries |-> IF d \in batch THEN FreshToken(d) ELSE NoToken]]

\* A fenced write of p to the row d: nothing when the claim was taken over.
Write(p, d, new) == row' = IF Current(p, d) THEN [row EXCEPT ![d] = new] ELSE row

\* Faulty variant: the status FAILED, which the schema has and no query looks for.
SuppressedAsFailed(r) == Closed(r, "FAILED")

Suppressed(r) == Closed(r, "SUPPRESSED")

----------------------------------------------------------------------------
(* In-process workers (notification-delivery-worker.service runOnce) *)

ClaimBatch(w) ==
    /\ Claim(w, Local, 0)
    /\ UNCHANGED <<channels, faults, requeues>>

\* begin: counts the attempt, or drops a claim that was taken over.
Begin(w, d) ==
    /\ At(w, "looping")
    /\ Holds(w, d)
    /\ IF Current(w, d)
       THEN /\ row' = [row EXCEPT ![d] = Begun(@)]
            /\ process' = [process EXCEPT ![w].phase = "begun", ![w].at = d,
                                          ![w].attempts = row[d].attempts + 1]
       ELSE /\ Drops(w, d)
            /\ UNCHANGED row
    /\ UNCHANGED <<channels, faults, requeues>>

\* The transport finds no user or no text in the delivery.
Refuse(w) ==
    /\ At(w, "begun")
    /\ process[w].at \in Invalid
    /\ Ends(w, "failing", "NON_RETRYABLE_FAILURE")
    /\ UNCHANGED <<row, channels, faults, requeues>>

\* Faulty variant: the notification is stored without its unique delivery id.
StoredAgain(d) == [notice EXCEPT ![d] = @ + 1]

\* db.notification.create with the unique deliveryId.
Stored(d) == [notice EXCEPT ![d] = IF @ = 0 THEN 1 ELSE @]

\* A unique violation counts as stored, but is not published again.
CreateNotification(w) ==
    LET d == process[w].at IN
    /\ At(w, "begun")
    /\ d \in InApp \ Invalid
    /\ notice' = Stored(d)
    /\ IF notice[d] = 0 THEN Go(w, "created") ELSE Ends(w, "answered", "DELIVERED")
    /\ UNCHANGED <<row, published, record, mailed, receipt, sent, faults, requeues>>

\* publishCreated never throws: an event nobody receives is gone.
PublishCreated(w) ==
    LET d == process[w].at IN
    /\ At(w, "created")
    /\ published' = [published EXCEPT ![d] = @ + 1]
    /\ Ends(w, "answered", "DELIVERED")
    /\ UNCHANGED <<row, notice, record, mailed, receipt, sent, faults, requeues>>

\* Faulty variant: whatever the record says counts as sent.
KnownSentIfRecorded(d) == record[d] # "NONE"

KnownSent(d) == record[d] = "SENT"

\* TransactionalEmailService.send: an e-mail recorded as SENT is not sent again.
PrepareEmail(w) ==
    LET d == process[w].at IN
    /\ At(w, "begun")
    /\ d \in Email \ Invalid
    /\ IF KnownSent(d)
       THEN Ends(w, "answered", "DELIVERED") /\ UNCHANGED record
       ELSE Go(w, "mailing") /\ record' = [record EXCEPT ![d] = "PENDING"]
    /\ UNCHANGED <<row, notice, published, mailed, receipt, sent, faults, requeues>>

\* The provider sends one e-mail per idempotency key.
Accepted(d) == [mailed EXCEPT ![d] = IF @ = 0 THEN 1 ELSE @]

ProviderAccepts(w) ==
    LET d == process[w].at IN
    /\ At(w, "mailing")
    /\ mailed' = Accepted(d)
    /\ Go(w, "mailed")
    /\ UNCHANGED <<row, notice, published, record, receipt, sent, faults, requeues>>

\* The provider refuses, or accepts and its answer is lost.
ProviderFails(w) ==
    LET d == process[w].at IN
    /\ At(w, "mailing")
    /\ mailed' \in {mailed, Accepted(d)}
    /\ Go(w, "mailfailed")
    /\ UNCHANGED <<row, notice, published, record, receipt, sent, faults, requeues>>

RecordSent(w) ==
    LET d == process[w].at IN
    /\ At(w, "mailed")
    /\ record' = [record EXCEPT ![d] = "SENT"]
    /\ Ends(w, "answered", "DELIVERED")
    /\ UNCHANGED <<row, notice, published, mailed, receipt, sent, faults, requeues>>

\* The catch clause marks the record FAILED, or fails too and is ignored; the
\* transport answers RETRYABLE_FAILURE.
RecordFailed(w) ==
    LET d == process[w].at IN
    /\ At(w, "mailfailed")
    /\ record' \in {record, [record EXCEPT ![d] = "FAILED"]}
    /\ Ends(w, "failing", "RETRYABLE_FAILURE")
    /\ UNCHANGED <<row, notice, published, mailed, receipt, sent, faults, requeues>>

Success(w) ==
    LET d == process[w].at IN
    /\ At(w, "answered")
    /\ Write(w, d, Delivered(row[d]))
    /\ NextClaim(w)
    /\ UNCHANGED <<channels, faults, requeues>>

\* Faulty variant: the limit is one attempt early.
TerminalEarly(w) == process[w].attempts + 1 >= MaxAttempts

\* The attempts are those read when the attempt began.
Terminal(w) ==
    \/ process[w].outcome = "NON_RETRYABLE_FAILURE"
    \/ process[w].attempts >= MaxAttempts

Failure(w) ==
    LET d == process[w].at IN
    /\ At(w, "failing")
    /\ Write(w, d, Failed(row[d], Terminal(w)))
    /\ NextClaim(w)
    /\ UNCHANGED <<channels, faults, requeues>>

WorkerStep(w) ==
    \/ ClaimBatch(w)
    \/ \E d \in Local : Begin(w, d)
    \/ Refuse(w)
    \/ CreateNotification(w)
    \/ PublishCreated(w)
    \/ PrepareEmail(w)
    \/ ProviderAccepts(w)
    \/ ProviderFails(w)
    \/ RecordSent(w)
    \/ RecordFailed(w)
    \/ Success(w)
    \/ Failure(w)

----------------------------------------------------------------------------
(* The Discord bot (discord-notification-delivery.service, discord-delivery-  *)
(* worker) *)

\* GET discord/bot/deliveries claims a batch for the scan.
Pull(s) ==
    /\ Claim(s, Discord, 1)
    /\ UNCHANGED <<channels, faults, requeues>>

\* The user's link, account or preference rules the delivery out: found by the
\* server's resolve, or by the bot just before it sends and acknowledged.
Suppress(s, d) ==
    /\ At(s, "looping")
    /\ Holds(s, d)
    /\ Write(s, d, Suppressed(row[d]))
    /\ Drops(s, d)
    /\ UNCHANGED <<channels, faults, requeues>>

AlreadySent(d) == receipt[d] = "DELIVERED"

\* receipts.receipt creates the receipt of a delivery or finds the old one.
ReadReceipt(s, d) ==
    /\ At(s, "looping")
    /\ Holds(s, d)
    /\ receipt' = [receipt EXCEPT ![d] = IF @ = "NONE" THEN "PENDING" ELSE @]
    /\ process' = [process EXCEPT ![s].at = d,
                      ![s].phase = IF AlreadySent(d) THEN "answered" ELSE "sending",
                      ![s].outcome = "DELIVERED"]
    /\ UNCHANGED <<row, notice, published, record, mailed, sent, faults, requeues>>

\* user.send
Send(s) ==
    /\ At(s, "sending")
    /\ sent' = [sent EXCEPT ![process[s].at] = @ + 1]
    /\ Go(s, "sent")
    /\ UNCHANGED <<row, notice, published, record, mailed, receipt, faults, requeues>>

\* Discord refuses the message or is not reached.
SendFails(s) ==
    /\ At(s, "sending")
    /\ \E code \in {"DESTINATION_UNAVAILABLE", "RETRYABLE_FAILURE"} : Ends(s, "failing", code)
    /\ UNCHANGED <<row, channels, faults, requeues>>

CompleteReceipt(s) ==
    /\ At(s, "sent")
    /\ receipt' = [receipt EXCEPT ![process[s].at] = "DELIVERED"]
    /\ Ends(s, "answered", "DELIVERED")
    /\ UNCHANGED <<row, notice, published, record, mailed, sent, faults, requeues>>

\* The catch clause writes the failure over whatever the receipt says.
FailReceipt(s) ==
    /\ At(s, "failing")
    /\ receipt' = [receipt EXCEPT ![process[s].at] = process[s].outcome]
    /\ Go(s, "answered")
    /\ UNCHANGED <<row, notice, published, record, mailed, sent, faults, requeues>>

\* The attempts are those of the row, counted by the pulls.
GivenUp(d) == row[d].attempts >= DiscordMaxAttempts

\* acknowledge, fenced by the claim token.
Acknowledge(s) ==
    LET d == process[s].at IN
    /\ At(s, "answered")
    /\ Write(s, d, CASE process[s].outcome = "DELIVERED"         -> Delivered(row[d])
                     [] process[s].outcome = "RETRYABLE_FAILURE" -> Failed(row[d], GivenUp(d))
                     [] OTHER                                    -> Suppressed(row[d]))
    /\ NextClaim(s)
    /\ UNCHANGED <<channels, faults, requeues>>

ScanStep(s) ==
    \/ Pull(s)
    \/ \E d \in Discord : ReadReceipt(s, d)
    \/ Send(s)
    \/ SendFails(s)
    \/ CompleteReceipt(s)
    \/ FailReceipt(s)
    \/ Acknowledge(s)

----------------------------------------------------------------------------
(* Faults, the clock and operators *)

Fault == faults < MaxFaults /\ faults' = faults + 1

\* A process dies or a statement throws where nothing catches it: the rest of the
\* batch is dropped, and its rows stay PROCESSING until their leases expire.
BatchDies(p) ==
    /\ Fault
    /\ process[p] # Idle
    /\ process' = [process EXCEPT ![p] = Idle]
    /\ UNCHANGED <<row, channels, requeues>>

\* The e-mail was accepted, but its record cannot be written.
RecordSentThrows(w) ==
    /\ Fault
    /\ At(w, "mailed")
    /\ Go(w, "mailfailed")
    /\ UNCHANGED <<row, channels, requeues>>

\* Discord accepted the message, but its answer or the receipt is lost.
SentUnnoticed(s) ==
    /\ Fault
    /\ At(s, "sent")
    /\ Ends(s, "failing", "RETRYABLE_FAILURE")
    /\ UNCHANGED <<row, channels, requeues>>

\* The acknowledgement does not reach the server; the bot only reports it.
AcknowledgementLost(s) ==
    /\ Fault
    /\ At(s, "answered")
    /\ NextClaim(s)
    /\ UNCHANGED <<row, channels, requeues>>

\* A backoff ends, or the lease of a claim no process holds any more.
TimePasses(d) ==
    /\ ~row[d].due
    /\ row[d].status \in {"PENDING", "PROCESSING"}
    /\ ~\E p \in Processes : Current(p, d)
    /\ row' = [row EXCEPT ![d].due = TRUE]
    /\ UNCHANGED <<process, channels, faults, requeues>>

\* A lease expires while its process is still at the batch.
LeaseOvertaken(d) ==
    /\ Fault
    /\ ~row[d].due
    /\ \E p \in Processes : Current(p, d)
    /\ row' = [row EXCEPT ![d].due = TRUE]
    /\ UNCHANGED <<process, channels, requeues>>

\* requeueDelivery, fenced by the DEAD_LETTER status.
RequeueDelivery(d) ==
    /\ requeues < MaxRequeues
    /\ row[d].status = "DEAD_LETTER"
    /\ row' = [row EXCEPT ![d] = Requeued(@)]
    /\ requeues' = requeues + 1
    /\ UNCHANGED <<process, channels, faults>>

----------------------------------------------------------------------------
\* createManyIdempotent: the rows of an event's route; a delivery whose topic the
\* user has switched off is created SUPPRESSED, and no process ever looks at it.
Created(route, off) ==
    [d \in Deliveries |->
        IF d \notin route THEN NoRow
        ELSE IF d \in off \ Mandatory THEN Suppressed(NewRow)
        ELSE NewRow]

Init ==
    /\ \E route \in Routes : \E off \in SUBSET route : row = Created(route, off)
    /\ process = [p \in Processes |-> Idle]
    /\ notice = [d \in InApp |-> 0]
    /\ published = [d \in InApp |-> 0]
    /\ record = [d \in Email |-> "NONE"]
    /\ mailed = [d \in Email |-> 0]
    /\ receipt = [d \in Discord |-> "NONE"]
    /\ sent = [d \in Discord |-> 0]
    /\ faults = 0
    /\ requeues = 0

Next ==
    \/ \E w \in Workers : WorkerStep(w) \/ RecordSentThrows(w)
    \/ \E s \in Scans : ScanStep(s) \/ SentUnnoticed(s) \/ AcknowledgementLost(s)
    \/ \E s \in Scans, d \in Discord : Suppress(s, d)
    \/ \E p \in Processes : BatchDies(p)
    \/ \E d \in Deliveries : TimePasses(d) \/ LeaseOvertaken(d) \/ RequeueDelivery(d)

Spec == Init /\ [][Next]_vars

\* Workers and the bot poll on timers and go on with their batches; time passes.
Fairness ==
    /\ \A w \in Workers : WF_vars(WorkerStep(w))
    /\ \A s \in Scans : WF_vars(ScanStep(s))
    /\ \A d \in Deliveries : WF_vars(TimePasses(d))

FairSpec == Spec /\ Fairness

----------------------------------------------------------------------------
(* Types *)

\* Every variable has its type.
TypeOK ==
    /\ row \in [Deliveries -> DeliveryRow]
    /\ process \in [Processes -> ProcessType]
    /\ notice \in [InApp -> Nat]
    /\ published \in [InApp -> Nat]
    /\ record \in [Email -> {"NONE", "PENDING", "SENT", "FAILED"}]
    /\ mailed \in [Email -> Nat]
    /\ receipt \in [Discord -> {"NONE", "PENDING", "DELIVERED", "RETRYABLE_FAILURE",
                                "DESTINATION_UNAVAILABLE"}]
    /\ sent \in [Discord -> Nat]
    /\ faults \in 0 .. MaxFaults
    /\ requeues \in 0 .. MaxRequeues

----------------------------------------------------------------------------
(* Safety *)

\* At-least-once delivery reaches the user once where a key guards the effect: one
\* notification, at most one realtime event for it and never one without it, one
\* e-mail; however often workers die or are overtaken in between.
EffectsOnce ==
    /\ \A d \in InApp : published[d] <= notice[d] /\ notice[d] <= 1
    /\ \A d \in Email : mailed[d] <= 1

\* A delivery is DELIVERED only if its user really got it, even when the answer came
\* from an earlier attempt, another process or the record of one.
DeliveredWasDelivered ==
    \A d \in Deliveries : row[d].status = "DELIVERED" =>
        /\ d \in InApp => notice[d] = 1
        /\ d \in Email => mailed[d] = 1
        /\ d \in Discord => sent[d] > 0

\* Discord has no idempotency key: a direct message is repeated only where a fault
\* came between sending and acknowledging, once for each fault at most.
RepeatsNeedFaults == \A d \in Discord : sent[d] <= 1 + faults

\* A delivery is given up only as invalid or after its channel's number of attempts,
\* whoever counted them: the worker when it begins, the bot's pull when it claims.
GivenUpJustified ==
    \A d \in Deliveries : row[d].status = "DEAD_LETTER" =>
        \/ d \in Invalid
        \/ row[d].attempts >= (IF d \in Discord THEN DiscordMaxAttempts ELSE MaxAttempts)

\* What was delivered or suppressed stays so, whatever late workers, late
\* acknowledgements and operators still do (the fence of every write).
ClosedForGood ==
    [][\A d \in Deliveries : row[d].status \in {"DELIVERED", "SUPPRESSED"} => row'[d] = row[d]]_vars

(* Liveness *)

\* With finitely many faults every delivery is delivered, suppressed or dead-lettered:
\* none stays PENDING or behind the lease of a dead process.
DeliveriesFinish ==
    \A d \in Deliveries : row[d].status \in {"PENDING", "PROCESSING"} ~>
                          row[d].status \in ClosedStatuses
=============================================================================
