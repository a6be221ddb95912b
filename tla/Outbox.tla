-------------------------------- MODULE Outbox --------------------------------
(***************************************************************************)
(* The transactional outbox: events appended by the domain transactions,   *)
(* the workers of outbox/application/outbox-worker.service that lease them *)
(* in batches, route each to its notification deliveries and finalize it,  *)
(* and the operator's requeue of dead letters.                             *)
(*                                                                         *)
(* Every statement or transaction is a step: claiming a batch, beginning   *)
(* an attempt, the handler's own transaction, finalizing.  Between any two *)
(* a worker may crash, or be so slow that its lease expires and another    *)
(* worker claims the same event.                                           *)
(***************************************************************************)
EXTENDS LeasedWork, FiniteSets

CONSTANTS
    Events,        \* stable event ids producers append
    NoEvent,       \* what a worker between two claims is working on
    Malformed,     \* those with an unknown type or version or an invalid payload
    Intents,       \* the deliveries (channel and destination) an event is routed to
    Workers,
    Tokens,        \* claim tokens: randomUUID never repeats one still in use
    BatchSize,
    MaxAttempts,
    MaxFaults,     \* bound: crashes, failed writes and overtaken leases
    MaxRequeues    \* bound: requeues by operators

ASSUME OutboxAssumption ==
    /\ NoEvent \notin Events
    /\ Malformed \subseteq Events
    /\ Intents # {}
    /\ Tokens \subseteq Nat \ {NoToken}
    /\ BatchSize \in Nat \ {0}
    /\ MaxAttempts \in Nat \ {0}
    /\ MaxFaults \in Nat
    /\ MaxRequeues \in Nat

VARIABLES
    event,       \* OutboxEvent rows
    deliveries,  \* number of NotificationDelivery rows of each event and intent
    worker,      \* what each worker process holds in memory
    faults,      \* faults so far
    requeues     \* requeues so far

vars == <<event, deliveries, worker, faults, requeues>>

----------------------------------------------------------------------------
(* Definitions commented "Faulty variant" are no part of the specification:  *)
(* each is the definition after it with a plausible slip in the code.        *)

\* A worker: the tokens of the claims of its batch that it has not finished, and
\* the event it is at.
WorkerType ==
    [phase : {"looping", "handling", "handled", "failing"},
     tokens : [Events -> Tokens \cup {NoToken}], at : Events \cup {NoEvent},
     attempts : Nat, retryable : BOOLEAN]

Looping(tokens) ==
    [phase |-> "looping", tokens |-> tokens, at |-> NoEvent,
     attempts |-> 0, retryable |-> TRUE]

Idle == Looping([e \in Events |-> NoToken])

Holds(w, e) == worker[w].tokens[e] # NoToken

\* The claim of w on e would pass the fence.
Current(w, e) == Holds(w, e) /\ Owned(event[e], worker[w].tokens[e])

TokensOf(e) == {event[e].token} \cup {worker[w].tokens[e] : w \in Workers}

\* Faulty variant: a reclaimed row keeps the token of its first claim.
KeptToken(e) ==
    IF event[e].status = "PROCESSING" THEN event[e].token
    ELSE CHOOSE t \in Tokens : t \notin TokensOf(e)

FreshToken(e) == CHOOSE t \in Tokens : t \notin TokensOf(e)

----------------------------------------------------------------------------
(* Producers *)

\* OutboxWriter.append: an event id that is stored already is left as it is.
Append(e) ==
    /\ event' = IF event[e].status = "NONE" THEN [event EXCEPT ![e] = NewRow] ELSE event
    /\ UNCHANGED <<deliveries, worker, faults, requeues>>

----------------------------------------------------------------------------
(* Workers *)

\* claimBatch.  FOR UPDATE SKIP LOCKED passes over rows another worker is
\* claiming, so any of the claimable rows may make up the batch.
ClaimBatch(w) ==
    /\ worker[w] = Idle
    /\ \E batch \in SUBSET {e \in Events : Claimable(event[e])} :
          /\ batch # {}
          /\ Cardinality(batch) <= BatchSize
          /\ \A e \in batch : Tokens \ TokensOf(e) # {}
          /\ event' = [e \in Events |->
                IF e \in batch THEN Claimed(event[e], FreshToken(e)) ELSE event[e]]
          /\ worker' = [worker EXCEPT ![w].tokens =
                [e \in Events |-> IF e \in batch THEN FreshToken(e) ELSE NoToken]]
    /\ UNCHANGED <<deliveries, faults, requeues>>

\* beginAttempt: an attempt is counted when work begins.  A claim that another
\* worker has taken over is dropped.
BeginAttempt(w, e) ==
    /\ worker[w].phase = "looping"
    /\ Holds(w, e)
    /\ IF Current(w, e)
       THEN /\ event' = [event EXCEPT ![e] = Begun(@)]
            /\ worker' = [worker EXCEPT ![w].phase = "handling", ![w].at = e,
                                        ![w].attempts = event[e].attempts + 1]
       ELSE /\ worker' = [worker EXCEPT ![w].tokens[e] = NoToken]
            /\ UNCHANGED event
    /\ UNCHANGED <<deliveries, faults, requeues>>

\* Faulty variant: a delivery is created without looking for its key.
RoutedAgain(e) == [deliveries EXCEPT ![e] = [i \in Intents |-> @[i] + 1]]

\* createManyIdempotent: one transaction creates the deliveries not there yet.
Routed(e) ==
    [deliveries EXCEPT ![e] = [i \in Intents |-> IF @[i] = 0 THEN 1 ELSE @[i]]]

\* The handler returns after its transaction committed.
HandlerSucceeds(w) ==
    LET e == worker[w].at IN
    /\ worker[w].phase = "handling"
    /\ e \notin Malformed
    /\ deliveries' = Routed(e)
    /\ worker' = [worker EXCEPT ![w].phase = "handled"]
    /\ UNCHANGED <<event, faults, requeues>>

\* The handler throws: its transaction rolled back, or committed and the answer
\* was lost.  A failure of the database or of a unique key is retryable.
HandlerThrows(w) ==
    LET e == worker[w].at IN
    /\ worker[w].phase = "handling"
    /\ e \notin Malformed
    /\ deliveries' \in {deliveries, Routed(e)}
    /\ worker' = [worker EXCEPT ![w].phase = "failing"]
    /\ UNCHANGED <<event, faults, requeues>>

\* No handler for the type and version, or the payload does not validate.
HandlerRefuses(w) ==
    /\ worker[w].phase = "handling"
    /\ worker[w].at \in Malformed
    /\ worker' = [worker EXCEPT ![w].phase = "failing", ![w].retryable = FALSE]
    /\ UNCHANGED <<event, deliveries, faults, requeues>>

\* The worker goes on with the rest of its batch.
NextClaim(w) ==
    worker' = [worker EXCEPT ![w] = Looping([@.tokens EXCEPT ![worker[w].at] = NoToken])]

\* finalizeSuccess, if the claim is still current.
FinalizeSuccess(w) ==
    LET e == worker[w].at IN
    /\ worker[w].phase = "handled"
    /\ event' = IF Current(w, e)
                THEN [event EXCEPT ![e] = Delivered(@)] ELSE event
    /\ NextClaim(w)
    /\ UNCHANGED <<deliveries, faults, requeues>>

\* Faulty variant: the limit is one attempt early.
TerminalEarly(w) == ~worker[w].retryable \/ worker[w].attempts + 1 >= MaxAttempts

\* The attempts are those read when the attempt began.
Terminal(w) == ~worker[w].retryable \/ worker[w].attempts >= MaxAttempts

\* finalizeFailure, if the claim is still current.
FinalizeFailure(w) ==
    LET e == worker[w].at IN
    /\ worker[w].phase = "failing"
    /\ event' = IF Current(w, e)
                THEN [event EXCEPT ![e] = Failed(@, Terminal(w))] ELSE event
    /\ NextClaim(w)
    /\ UNCHANGED <<deliveries, faults, requeues>>

WorkerStep(w) ==
    \/ ClaimBatch(w)
    \/ \E e \in Events : BeginAttempt(w, e)
    \/ HandlerSucceeds(w)
    \/ HandlerThrows(w)
    \/ HandlerRefuses(w)
    \/ FinalizeSuccess(w)
    \/ FinalizeFailure(w)

----------------------------------------------------------------------------
(* Faults and the clock *)

Fault == faults < MaxFaults /\ faults' = faults + 1

\* The finalizing write fails: "leave its durable lease intact".
FinalizeThrows(w) ==
    /\ Fault
    /\ worker[w].phase \in {"handled", "failing"}
    /\ NextClaim(w)
    /\ UNCHANGED <<event, deliveries, requeues>>

\* The process dies and another takes its place, or it is stopped and drops the
\* claims it has not begun.  Its rows stay PROCESSING until their leases expire.
Crash(w) ==
    /\ Fault
    /\ worker[w] # Idle
    /\ worker' = [worker EXCEPT ![w] = Idle]
    /\ UNCHANGED <<event, deliveries, requeues>>

\* A backoff ends, or the lease of a claim no worker holds any more.
TimePasses(e) ==
    /\ ~event[e].due
    /\ event[e].status \in {"PENDING", "PROCESSING"}
    /\ ~\E w \in Workers : Current(w, e)
    /\ event' = [event EXCEPT ![e].due = TRUE]
    /\ UNCHANGED <<deliveries, worker, faults, requeues>>

\* A lease expires while its worker is still at the batch.
LeaseOvertaken(e) ==
    /\ Fault
    /\ ~event[e].due
    /\ \E w \in Workers : Current(w, e)
    /\ event' = [event EXCEPT ![e].due = TRUE]
    /\ UNCHANGED <<deliveries, worker, requeues>>

----------------------------------------------------------------------------
(* Operators *)

\* requeueOutbox, fenced by the DEAD_LETTER status.
RequeueOutbox(e) ==
    /\ requeues < MaxRequeues
    /\ event[e].status = "DEAD_LETTER"
    /\ event' = [event EXCEPT ![e] = Requeued(@)]
    /\ requeues' = requeues + 1
    /\ UNCHANGED <<deliveries, worker, faults>>

----------------------------------------------------------------------------
Init ==
    /\ event = [e \in Events |-> NoRow]
    /\ deliveries = [e \in Events |-> [i \in Intents |-> 0]]
    /\ worker = [w \in Workers |-> Idle]
    /\ faults = 0
    /\ requeues = 0

Next ==
    \/ \E e \in Events : Append(e)
    \/ \E w \in Workers : WorkerStep(w)
    \/ \E w \in Workers : FinalizeThrows(w) \/ Crash(w)
    \/ \E e \in Events : TimePasses(e) \/ LeaseOvertaken(e)
    \/ \E e \in Events : RequeueOutbox(e)

Spec == Init /\ [][Next]_vars

\* Each worker polls on a timer and goes on with its batch; the clock goes on.
Fairness ==
    /\ \A w \in Workers : WF_vars(WorkerStep(w))
    /\ \A e \in Events : WF_vars(TimePasses(e))

FairSpec == Spec /\ Fairness

----------------------------------------------------------------------------
(* Types *)

\* Every variable has its type.
TypeOK ==
    /\ event \in [Events -> RowType(Tokens)]
    /\ deliveries \in [Events -> [Intents -> Nat]]
    /\ worker \in [Workers -> WorkerType]
    /\ faults \in 0 .. MaxFaults
    /\ requeues \in 0 .. MaxRequeues

----------------------------------------------------------------------------
(* Safety *)

\* Of all the claims workers hold on an event at most one would pass the fence,
\* however often its lease was overtaken: "a stale worker cannot overwrite a
\* reclaimed lease" (claimBatch, beginAttempt, finalizeSuccess, finalizeFailure).
OneOwner ==
    \A w1, w2 \in Workers, e \in Events :
        Current(w1, e) /\ Current(w2, e) => w1 = w2

\* At-least-once processing creates each delivery exactly once: never two for one
\* intent, and all of them before the event is DELIVERED (createManyIdempotent).
RoutedOnce ==
    \A e \in Events, i \in Intents :
        /\ deliveries[e][i] <= 1
        /\ event[e].status = "DELIVERED" => deliveries[e][i] = 1

\* An event is given up only when it is malformed or was begun MaxAttempts times,
\* whatever workers counted at the same time (processClaim).
DeadLetterJustified ==
    \A e \in Events : event[e].status = "DEAD_LETTER" =>
        e \in Malformed \/ event[e].attempts >= MaxAttempts

(* What producers and operators are promised. *)
PublicStatus(row) ==
    CASE row.status = "NONE"        -> "absent"
      [] row.status = "DELIVERED"   -> "done"
      [] row.status = "DEAD_LETTER" -> "dead"
      [] OTHER                      -> "queued"

Queue == INSTANCE AtLeastOnce WITH
    state  <- [e \in Events |-> PublicStatus(event[e])],
    routed <- {e \in Events : \A i \in Intents : deliveries[e][i] > 0}

\* Leases, tokens, retries and crashes are invisible: an appended event is routed,
\* possibly again, finished only when routed, given up, or requeued from there.
ImplementsAtLeastOnce == Queue!Spec

(* Liveness *)

\* With finitely many faults every appended event is delivered or dead-lettered,
\* so no event is stuck in PENDING or behind the lease of a dead worker.
EventsFinish ==
    \A e \in Events : event[e].status \in {"PENDING", "PROCESSING"} ~>
                      event[e].status \in {"DELIVERED", "DEAD_LETTER"}
=============================================================================
