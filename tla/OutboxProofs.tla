----------------------------- MODULE OutboxProofs -----------------------------
(***************************************************************************)
(* What the outbox guarantees for any number of events, workers, attempts  *)
(* and faults.  The inductive invariant adds to the properties what each   *)
(* worker knows about the event it is at (WorkersInformed).                *)
(***************************************************************************)
EXTENDS Outbox, TLAPS

USE OutboxAssumption

\* What a worker remembers of its event is still true when it finalizes.
Informed(w) ==
    /\ worker[w].phase = "looping" <=> worker[w].at = NoEvent
    /\ ~worker[w].retryable => worker[w].at \in Malformed
    /\ worker[w].at \in Events =>
          /\ event[worker[w].at].status # "NONE"
          /\ worker[w].attempts <= event[worker[w].at].attempts
          /\ worker[w].phase = "handled" =>
                \A i \in Intents : deliveries[worker[w].at][i] = 1

WorkersInformed == \A w \in Workers : Informed(w)

OutboxInv ==
    TypeOK /\ WorkersInformed /\ OneOwner /\ RoutedOnce /\ DeadLetterJustified

\* No step takes back an attempt, a row or a delivery.
Advances ==
    \A e \in Events :
        /\ event[e].status # "NONE" =>
              event'[e].attempts >= event[e].attempts /\ event'[e].status # "NONE"
        /\ \A i \in Intents : deliveries[e][i] = 1 => deliveries'[e][i] = 1

NoNewOwners == \A w \in Workers, e \in Events : Current(w, e)' => Current(w, e)

\* New, begun and due rows are rows; beginning counts an attempt and keeps the claim.
LEMMA RowWrites ==
    ASSUME NEW row \in RowType(Tokens)
    PROVE  /\ NewRow \in RowType(Tokens) /\ NewRow.status = "PENDING"
           /\ Begun(row) \in RowType(Tokens)
           /\ Begun(row).attempts = row.attempts + 1
           /\ Begun(row).status = row.status /\ Begun(row).token = row.token
           /\ [row EXCEPT !.due = TRUE] \in RowType(Tokens)
  <1>1. NewRow \in RowType(Tokens) /\ NewRow.status = "PENDING"
    BY DEF RowType, NewRow, NoRow
  <1>2. row.attempts \in Nat /\ row.attempts + 1 \in Nat
    BY DEF RowType
  <1>3. QED BY <1>1, <1>2 DEF RowType, Begun

\* A claimed row is PROCESSING under its new token, its attempts untouched.
LEMMA RowClaimed ==
    ASSUME NEW row \in RowType(Tokens), NEW t \in Tokens
    PROVE  /\ Claimed(row, t) \in RowType(Tokens)
           /\ Claimed(row, t).token = t
           /\ Claimed(row, t).status = "PROCESSING"
           /\ Claimed(row, t).attempts = row.attempts
  BY DEF RowType, Claimed

\* A closed row is a row of that status with its attempts.
LEMMA RowClosed ==
    ASSUME NEW row \in RowType(Tokens),
           NEW status \in {"PENDING", "DELIVERED", "DEAD_LETTER"}
    PROVE  /\ Closed(row, status) \in RowType(Tokens)
           /\ Closed(row, status).status = status
           /\ Closed(row, status).attempts = row.attempts
  BY DEF RowType, Closed

\* A requeued row is PENDING and keeps its attempts.
LEMMA RowRequeued ==
    ASSUME NEW row \in RowType(Tokens)
    PROVE  /\ Requeued(row) \in RowType(Tokens)
           /\ Requeued(row).status = "PENDING"
           /\ Requeued(row).attempts = row.attempts
  <1> DEFINE closed == Closed(row, "PENDING")
  <1>1. closed \in RowType(Tokens) /\ closed.status = "PENDING" /\ closed.attempts = row.attempts
    BY RowClosed
  <1> HIDE DEF closed
  <1>2. Requeued(row) = [closed EXCEPT !.due = TRUE]
    BY DEF Requeued, closed
  <1>3. QED BY <1>1, <1>2 DEF RowType

\* If any token is free, the chosen one is.
LEMMA FreshTokens ==
    ASSUME NEW e \in Events, Tokens \ TokensOf(e) # {}
    PROVE  FreshToken(e) \in Tokens \ TokensOf(e)
  BY DEF FreshToken

\* An idle worker is a worker that holds nothing.
LEMMA IdleWorker ==
    /\ Idle \in WorkerType
    /\ Idle.phase = "looping" /\ Idle.at = NoEvent /\ Idle.retryable
    /\ \A e \in Events : Idle.tokens[e] = NoToken
  BY DEF Idle, Looping, WorkerType

\* What a worker knows stays true while others advance events and deliveries.
LEMMA InformedKept ==
    ASSUME TypeOK, NEW w \in Workers, Informed(w), worker'[w] = worker[w], Advances,
           TypeOK'
    PROVE  Informed(w)'
  <1> DEFINE e == worker[w].at
  <1>1. CASE e \notin Events
    BY <1>1 DEF Informed
  <1>2. CASE e \in Events
    <2>1. /\ event[e].status # "NONE" =>
                event'[e].attempts >= event[e].attempts /\ event'[e].status # "NONE"
          /\ \A i \in Intents : deliveries[e][i] = 1 => deliveries'[e][i] = 1
      BY <1>2 DEF Advances
    <2>2. /\ event[e].attempts \in Nat /\ event'[e].attempts \in Nat
          /\ worker[w].attempts \in Nat
      BY <1>2 DEF TypeOK, RowType, WorkerType
    <2>3. QED BY <1>2, <2>1, <2>2 DEF Informed
  <1>3. QED BY <1>1, <1>2

\* A step that makes no claim current leaves each event one owner at most.
LEMMA OwnersKept ==
    ASSUME OneOwner, NoNewOwners
    PROVE  OneOwner'
  BY DEF OneOwner, NoNewOwners

\* A write of one row that finishes it only with reason.
LEMMA RowWritten ==
    ASSUME TypeOK, RoutedOnce, DeadLetterJustified,
           NEW e \in Events, NEW row \in RowType(Tokens),
           event' = [event EXCEPT ![e] = row], UNCHANGED deliveries,
           event[e].status # "NONE" => row.attempts >= event[e].attempts,
           row.status # "NONE",
           row.status = "DELIVERED" => \A i \in Intents : deliveries[e][i] = 1,
           row.status = "DEAD_LETTER" => e \in Malformed \/ row.attempts >= MaxAttempts
    PROVE  /\ event' \in [Events -> RowType(Tokens)]
           /\ Advances /\ RoutedOnce' /\ DeadLetterJustified'
  <1>1. event' \in [Events -> RowType(Tokens)] /\ event'[e] = row
    BY DEF TypeOK
  <1>2. \A q \in Events : q # e => event'[q] = event[q]
    BY DEF TypeOK
  <1>3. \A q \in Events : event[q].attempts \in Nat
    BY DEF TypeOK, RowType
  <1>4. Advances
    BY <1>1, <1>2, <1>3 DEF Advances
  <1>5. RoutedOnce'
    BY <1>1, <1>2 DEF RoutedOnce
  <1>6. DeadLetterJustified'
    BY <1>1, <1>2 DEF DeadLetterJustified
  <1>7. QED BY <1>1, <1>4, <1>5, <1>6

\* Rows alone are written, and no claim becomes current.
LEMMA QuietWrite ==
    ASSUME OutboxInv, UNCHANGED worker, NoNewOwners, Advances, TypeOK',
           RoutedOnce', DeadLetterJustified'
    PROVE  OutboxInv'
  <1>1. \A w \in Workers : Informed(w)'
    BY InformedKept DEF OutboxInv, WorkersInformed
  <1>2. OneOwner'
    BY OwnersKept DEF OutboxInv
  <1>3. QED BY <1>1, <1>2 DEF OutboxInv, WorkersInformed

\* Appending an event preserves the invariant.
LEMMA AppendStep ==
    ASSUME OutboxInv, NEW e \in Events, Append(e)
    PROVE  OutboxInv'
  <1>1. CASE event[e].status # "NONE"
    <2>1. UNCHANGED vars
      BY <1>1 DEF Append, vars
    <2>2. QED BY <2>1 DEF OutboxInv, TypeOK, WorkersInformed, Informed, OneOwner,
                 RoutedOnce, DeadLetterJustified, Current, Holds, vars
  <1>2. CASE event[e].status = "NONE"
    <2>1. /\ event' = [event EXCEPT ![e] = NewRow]
          /\ UNCHANGED <<deliveries, worker, faults, requeues>>
      BY <1>2 DEF Append
    <2>2. NewRow \in RowType(Tokens) /\ NewRow.status = "PENDING"
      BY RowWrites DEF OutboxInv, TypeOK
    <2>3. /\ event' \in [Events -> RowType(Tokens)]
          /\ Advances /\ RoutedOnce' /\ DeadLetterJustified'
      BY <1>2, <2>1, <2>2, RowWritten DEF OutboxInv
    <2>4. TypeOK'
      BY <2>1, <2>3 DEF OutboxInv, TypeOK
    <2>5. NoNewOwners
      BY <2>1, <2>2 DEF NoNewOwners, Current, Holds, Owned, OutboxInv, TypeOK
    <2>6. QED BY <2>1, <2>3, <2>4, <2>5, QuietWrite
  <1>3. QED BY <1>1, <1>2

\* Backoffs and leases running out preserve the invariant.
LEMMA ClockStep ==
    ASSUME OutboxInv, NEW e \in Events, TimePasses(e) \/ LeaseOvertaken(e)
    PROVE  OutboxInv'
  <1> DEFINE row == [event[e] EXCEPT !.due = TRUE]
  <1>1. /\ event[e] \in RowType(Tokens) /\ event[e].status \in {"PENDING", "PROCESSING"}
        /\ event' = [event EXCEPT ![e] = row]
        /\ UNCHANGED <<deliveries, worker, requeues>>
        /\ faults' \in 0 .. MaxFaults
    BY DEF TimePasses, LeaseOvertaken, Fault, OutboxInv, TypeOK, Current, Owned
  <1>2. /\ row \in RowType(Tokens) /\ row.status = event[e].status
        /\ row.token = event[e].token /\ row.attempts = event[e].attempts
        /\ row.attempts \in Nat
    BY <1>1 DEF RowType
  <1> HIDE DEF row
  <1>2a. row.attempts >= event[e].attempts
    BY <1>2
  <1>3. /\ event' \in [Events -> RowType(Tokens)]
        /\ Advances /\ RoutedOnce' /\ DeadLetterJustified'
    BY <1>1, <1>2, <1>2a, RowWritten DEF OutboxInv
  <1>4. TypeOK'
    BY <1>1, <1>3 DEF OutboxInv, TypeOK
  <1>5. NoNewOwners
    BY <1>1, <1>2 DEF NoNewOwners, Current, Holds, Owned, OutboxInv, TypeOK
  <1>6. QED BY <1>1, <1>3, <1>4, <1>5, QuietWrite

\* An operator's requeue preserves the invariant.
LEMMA RequeueStep ==
    ASSUME OutboxInv, NEW e \in Events, RequeueOutbox(e)
    PROVE  OutboxInv'
  <1> DEFINE row == Requeued(event[e])
  <1>1. /\ event[e] \in RowType(Tokens)
        /\ event' = [event EXCEPT ![e] = row]
        /\ UNCHANGED <<deliveries, worker, faults>>
        /\ requeues' \in 0 .. MaxRequeues
    BY DEF RequeueOutbox, OutboxInv, TypeOK
  <1>2. /\ row \in RowType(Tokens) /\ row.status = "PENDING"
        /\ row.attempts = event[e].attempts /\ row.attempts \in Nat
    BY <1>1, RowRequeued DEF RowType
  <1> HIDE DEF row
  <1>2a. row.attempts >= event[e].attempts
    BY <1>2
  <1>3. /\ event' \in [Events -> RowType(Tokens)]
        /\ Advances /\ RoutedOnce' /\ DeadLetterJustified'
    BY <1>1, <1>2, <1>2a, RowWritten DEF OutboxInv
  <1>4. TypeOK'
    BY <1>1, <1>3 DEF OutboxInv, TypeOK
  <1>5. NoNewOwners
    BY <1>1, <1>2 DEF NoNewOwners, Current, Holds, Owned, OutboxInv, TypeOK
  <1>6. QED BY <1>1, <1>3, <1>4, <1>5, QuietWrite

----------------------------------------------------------------------------
(* Steps of a worker *)

\* Only worker w changed in memory, and what it knows now is true.
LEMMA WorkerMoved ==
    ASSUME OutboxInv, NEW w \in Workers, NEW new \in WorkerType,
           worker' = [worker EXCEPT ![w] = new], Advances, TypeOK', Informed(w)',
           NoNewOwners, RoutedOnce', DeadLetterJustified'
    PROVE  OutboxInv'
  <1>1. \A v \in Workers : v # w => worker'[v] = worker[v]
    BY DEF OutboxInv, TypeOK
  <1>2. \A v \in Workers : Informed(v)'
    BY <1>1, InformedKept DEF OutboxInv, WorkersInformed
  <1>3. OneOwner'
    BY OwnersKept DEF OutboxInv
  <1>4. QED BY <1>2, <1>3 DEF OutboxInv, WorkersInformed

\* A worker that goes on with its batch is between two events.
LEMMA LoopingWorker ==
    ASSUME NEW tokens \in [Events -> Tokens \cup {NoToken}]
    PROVE  /\ Looping(tokens) \in WorkerType
           /\ Looping(tokens).phase = "looping" /\ Looping(tokens).at = NoEvent
           /\ Looping(tokens).retryable /\ Looping(tokens).tokens = tokens
  BY DEF Looping, WorkerType

\* Routing an event makes one delivery of each intent, and of it alone.
LEMMA RoutedDeliveries ==
    ASSUME TypeOK, RoutedOnce, NEW e \in Events
    PROVE  /\ Routed(e) \in [Events -> [Intents -> Nat]]
           /\ \A i \in Intents : Routed(e)[e][i] = 1
           /\ \A q \in Events : q # e => Routed(e)[q] = deliveries[q]
  <1>1. \A i \in Intents : deliveries[e][i] \in Nat /\ deliveries[e][i] <= 1
    BY DEF TypeOK, RoutedOnce
  <1> DEFINE row == [i \in Intents |-> IF deliveries[e][i] = 0 THEN 1 ELSE deliveries[e][i]]
  <1>2. row \in [Intents -> Nat] /\ \A i \in Intents : row[i] = 1
    BY <1>1
  <1>3. Routed(e) = [deliveries EXCEPT ![e] = row]
    BY DEF Routed, TypeOK
  <1> HIDE DEF row
  <1>4. QED BY <1>2, <1>3 DEF TypeOK

\* A handler that succeeds, fails or refuses preserves the invariant.
LEMMA HandlerStep ==
    ASSUME OutboxInv, NEW w \in Workers,
           HandlerSucceeds(w) \/ HandlerThrows(w) \/ HandlerRefuses(w)
    PROVE  OutboxInv'
  <1> DEFINE e == worker[w].at
             new == worker'[w]
  <1>1. worker[w] \in WorkerType /\ worker[w].phase = "handling" /\ e \in Events
    BY DEF HandlerSucceeds, HandlerThrows, HandlerRefuses, OutboxInv, TypeOK,
           WorkersInformed, Informed, WorkerType
  <1>2. /\ worker' = [worker EXCEPT ![w] = new]
        /\ new \in WorkerType /\ new.at = e /\ new.tokens = worker[w].tokens
        /\ new.attempts = worker[w].attempts
        /\ new.phase \in {"handled", "failing"}
        /\ new.phase = "handled" => deliveries' = Routed(e)
        /\ ~new.retryable => ~worker[w].retryable \/ e \in Malformed
    BY <1>1 DEF HandlerSucceeds, HandlerThrows, HandlerRefuses, OutboxInv, TypeOK, WorkerType
  <1>3. /\ UNCHANGED <<event, faults, requeues>>
        /\ deliveries' \in {deliveries, Routed(e)}
    BY DEF HandlerSucceeds, HandlerThrows, HandlerRefuses
  <1>4. /\ deliveries' \in [Events -> [Intents -> Nat]]
        /\ \A q \in Events, i \in Intents :
              /\ deliveries[q][i] \in Nat
              /\ deliveries[q][i] <= 1 => deliveries'[q][i] <= 1
              /\ deliveries[q][i] = 1 => deliveries'[q][i] = 1
    <2>1. \A q \in Events, i \in Intents : deliveries[q][i] \in Nat
      BY DEF OutboxInv, TypeOK
    <2>2. CASE deliveries' = deliveries
      BY <2>1, <2>2 DEF OutboxInv, TypeOK
    <2>3. CASE deliveries' = Routed(e)
      <3>1. /\ deliveries' \in [Events -> [Intents -> Nat]]
            /\ \A i \in Intents : deliveries'[e][i] = 1
            /\ \A q \in Events : q # e => deliveries'[q] = deliveries[q]
        BY <1>1, <2>3, RoutedDeliveries DEF OutboxInv
      <3> HIDE DEF e
      <3>2. QED BY <2>1, <3>1
    <2>4. QED BY <1>3, <2>2, <2>3
  <1>5. new.phase = "handled" => \A i \in Intents : deliveries'[e][i] = 1
    BY <1>1, <1>2, RoutedDeliveries DEF OutboxInv
  <1>6. TypeOK'
    BY <1>2, <1>3, <1>4 DEF OutboxInv, TypeOK
  <1>7. Advances
    BY <1>3, <1>4 DEF Advances, OutboxInv, TypeOK, RowType
  <1>8. RoutedOnce' /\ DeadLetterJustified'
    BY <1>3, <1>4 DEF RoutedOnce, DeadLetterJustified, OutboxInv
  <1>9. NoNewOwners
    BY <1>2, <1>3 DEF NoNewOwners, Current, Holds, OutboxInv, TypeOK
  <1>10. Informed(w)'
    <2>1. Informed(w)
      BY DEF OutboxInv, WorkersInformed
    <2> HIDE DEF e, new
    <2>2. e # NoEvent
      BY <1>1
    <2>3. worker'[w].at = worker[w].at
      BY <1>2 DEF e, new
    <2>4. worker'[w].phase # "looping" /\ worker'[w].attempts = worker[w].attempts
      BY <1>2 DEF new
    <2>5. ~worker'[w].retryable => worker'[w].at \in Malformed
      BY <1>2, <2>1, <2>3 DEF new, e, Informed
    <2>6. worker'[w].phase = "handled" => \A i \in Intents : deliveries'[worker'[w].at][i] = 1
      BY <1>5, <2>3 DEF new, e
    <2>7. QED BY <1>1, <1>3, <2>1, <2>2, <2>3, <2>4, <2>5, <2>6 DEF Informed, e
  <1> HIDE DEF new
  <1>11. QED BY <1>2, <1>6, <1>7, <1>8, <1>9, <1>10, WorkerMoved

\* Claiming a batch under fresh tokens preserves the invariant.
LEMMA ClaimBatchStep ==
    ASSUME OutboxInv, NEW w \in Workers, ClaimBatch(w)
    PROVE  OutboxInv'
  <1>1. PICK batch \in SUBSET {e \in Events : Claimable(event[e])} :
          /\ \A e \in batch : Tokens \ TokensOf(e) # {}
          /\ event' = [e \in Events |->
                IF e \in batch THEN Claimed(event[e], FreshToken(e)) ELSE event[e]]
          /\ worker' = [worker EXCEPT ![w].tokens =
                [e \in Events |-> IF e \in batch THEN FreshToken(e) ELSE NoToken]]
    BY DEF ClaimBatch
  <1>2. worker[w] = Idle /\ UNCHANGED <<deliveries, faults, requeues>>
    BY DEF ClaimBatch
  <1> DEFINE tokens == [e \in Events |-> IF e \in batch THEN FreshToken(e) ELSE NoToken]
             new == [worker[w] EXCEPT !.tokens = tokens]
  <1>3. \A e \in batch : /\ FreshToken(e) \in Tokens /\ FreshToken(e) # NoToken
                         /\ \A v \in Workers : FreshToken(e) # worker[v].tokens[e]
    BY <1>1, FreshTokens DEF TokensOf
  <1>4. \A e \in batch : /\ Claimed(event[e], FreshToken(e)) \in RowType(Tokens)
                         /\ event'[e].token = FreshToken(e)
                         /\ event'[e].status = "PROCESSING"
                         /\ event'[e].attempts = event[e].attempts
    BY <1>1, <1>3, RowClaimed DEF OutboxInv, TypeOK
  <1>5. \A e \in Events \ batch : event'[e] = event[e]
    BY <1>1
  <1>6. tokens \in [Events -> Tokens \cup {NoToken}]
    BY <1>3
  <1>7. /\ new \in WorkerType /\ new.tokens = tokens
        /\ new.phase = "looping" /\ new.at = NoEvent /\ new.retryable
    BY <1>2, <1>6, IdleWorker DEF WorkerType
  <1>8. worker' = [worker EXCEPT ![w] = new]
    BY <1>1
  <1>9. event' \in [Events -> RowType(Tokens)]
    BY <1>1, <1>4 DEF OutboxInv, TypeOK
  <1> HIDE DEF new
  <1>10. worker' \in [Workers -> WorkerType] /\ worker'[w] = new
    BY <1>7, <1>8 DEF OutboxInv, TypeOK
  <1>11. TypeOK'
    BY <1>2, <1>9, <1>10 DEF OutboxInv, TypeOK
  <1>12. \A v \in Workers : v # w => worker'[v] = worker[v]
    BY <1>8 DEF OutboxInv, TypeOK
  <1>13. Advances
    BY <1>2, <1>4, <1>5 DEF Advances, OutboxInv, TypeOK, RowType
  <1>14. \A v \in Workers : Informed(v)'
    <2>1. Informed(w)'
      BY <1>7, <1>10 DEF Informed
    <2>2. QED BY <1>11, <1>12, <1>13, <2>1, InformedKept DEF OutboxInv, WorkersInformed
  <1>15. OneOwner'
    <2> SUFFICES ASSUME NEW w1 \in Workers, NEW w2 \in Workers, NEW e \in Events,
                        Current(w1, e)', Current(w2, e)'
                 PROVE  w1 = w2
      BY DEF OneOwner
    <2>1. /\ worker'[w1].tokens[e] # NoToken /\ worker'[w2].tokens[e] # NoToken
          /\ event'[e].token = worker'[w1].tokens[e] /\ event'[e].token = worker'[w2].tokens[e]
          /\ event'[e].status = "PROCESSING"
      BY DEF Current, Holds, Owned
    <2>2. CASE e \in batch
      BY <1>3, <1>4, <1>12, <2>1, <2>2
    <2>3. CASE e \notin batch
      <3>1. w1 # w /\ w2 # w
        <4>1. worker'[w].tokens[e] = NoToken
          BY <1>7, <1>10, <2>3
        <4>2. QED BY <2>1, <4>1
      <3>2. Current(w1, e) /\ Current(w2, e)
        BY <1>5, <1>12, <2>1, <2>3, <3>1 DEF Current, Holds, Owned
      <3>3. QED BY <3>2 DEF OneOwner, OutboxInv
    <2>4. QED BY <2>2, <2>3
  <1>16. RoutedOnce'
    BY <1>2, <1>4, <1>5 DEF RoutedOnce, OutboxInv
  <1>17. DeadLetterJustified'
    BY <1>4, <1>5 DEF DeadLetterJustified, OutboxInv
  <1>18. QED BY <1>11, <1>14, <1>15, <1>16, <1>17 DEF OutboxInv, WorkersInformed

\* Beginning an attempt, or dropping an overtaken claim, preserves the invariant.
LEMMA BeginAttemptStep ==
    ASSUME OutboxInv, NEW w \in Workers, NEW e \in Events, BeginAttempt(w, e)
    PROVE  OutboxInv'
  <1>1. /\ worker[w] \in WorkerType /\ worker[w].phase = "looping" /\ worker[w].at = NoEvent
        /\ worker[w].retryable
        /\ event[e] \in RowType(Tokens)
        /\ UNCHANGED <<deliveries, faults, requeues>>
    BY DEF BeginAttempt, OutboxInv, TypeOK, WorkersInformed, Informed, WorkerType
  <1>2. CASE Current(w, e)
    <2> DEFINE row == Begun(event[e])
               n   == event[e].attempts + 1
               new == [worker[w] EXCEPT !.phase = "handling", !.at = e,
                                        !.attempts = n]
    <2>1. event' = [event EXCEPT ![e] = row] /\ worker' = [worker EXCEPT ![w] = new]
      BY <1>2 DEF BeginAttempt, OutboxInv, TypeOK
    <2>2. /\ event[e].attempts \in Nat /\ n \in Nat /\ n >= event[e].attempts
          /\ event[e].status = "PROCESSING"
          /\ row \in RowType(Tokens) /\ row.status = "PROCESSING"
          /\ row.token = event[e].token /\ row.attempts = n
      <3>1. event[e].status = "PROCESSING"
        BY <1>2 DEF Current, Owned
      <3>2. event[e].attempts \in Nat
        BY <1>1 DEF RowType
      <3>3. /\ row \in RowType(Tokens) /\ row.status = event[e].status
            /\ row.token = event[e].token /\ row.attempts = n
        BY <1>1, RowWrites
      <3>4. QED BY <3>1, <3>2, <3>3
    <2> HIDE DEF n
    <2>3. /\ new \in WorkerType /\ new.at = e /\ new.attempts = row.attempts
          /\ new.phase = "handling" /\ new.retryable /\ new.tokens = worker[w].tokens
      BY <1>1, <2>2 DEF WorkerType
    <2> HIDE DEF row, new
    <2>4. row.attempts >= event[e].attempts
      BY <2>2
    <2>5. /\ event' \in [Events -> RowType(Tokens)]
          /\ Advances /\ RoutedOnce' /\ DeadLetterJustified'
      BY <1>1, <2>1, <2>2, <2>4, RowWritten DEF OutboxInv
    <2>6. TypeOK'
      BY <1>1, <2>1, <2>3, <2>5 DEF OutboxInv, TypeOK
    <2>7. worker'[w] = new /\ event'[e] = row
      BY <2>1 DEF OutboxInv, TypeOK
    <2>8. Informed(w)'
      BY <2>2, <2>3, <2>7 DEF Informed
    <2>9. NoNewOwners
      <3> SUFFICES ASSUME NEW v \in Workers, NEW q \in Events, Current(v, q)'
                   PROVE  Current(v, q)
        BY DEF NoNewOwners
      <3>1. worker'[v].tokens = worker[v].tokens
        BY <2>1, <2>3, <2>7 DEF OutboxInv, TypeOK
      <3>2. event'[q].status = event[q].status /\ event'[q].token = event[q].token
        BY <1>2, <2>1, <2>2, <2>7 DEF OutboxInv, TypeOK, Current, Owned
      <3>3. QED BY <3>1, <3>2 DEF Current, Holds, Owned
    <2>10. QED BY <2>1, <2>3, <2>5, <2>6, <2>8, <2>9, WorkerMoved
  <1>3. CASE ~Current(w, e)
    <2> DEFINE tokens == [worker[w].tokens EXCEPT ![e] = NoToken]
               new == [worker[w] EXCEPT !.tokens = tokens]
    <2>1. UNCHANGED event /\ worker' = [worker EXCEPT ![w] = new]
      BY <1>3 DEF BeginAttempt, OutboxInv, TypeOK
    <2>2. tokens \in [Events -> Tokens \cup {NoToken}]
      BY <1>1 DEF WorkerType
    <2>3. \A q \in Events : tokens[q] = worker[w].tokens[q] \/ tokens[q] = NoToken
      BY <1>1 DEF WorkerType
    <2> HIDE DEF tokens
    <2>4. /\ new \in WorkerType /\ new.at = NoEvent /\ new.tokens = tokens
          /\ new.phase = "looping" /\ new.retryable
      BY <1>1, <2>2 DEF WorkerType
    <2> HIDE DEF new
    <2>5. TypeOK'
      BY <1>1, <2>1, <2>4 DEF OutboxInv, TypeOK
    <2>6. worker'[w] = new
      BY <2>1 DEF OutboxInv, TypeOK
    <2>7. Informed(w)'
      BY <2>4, <2>6 DEF Informed
    <2>8. NoNewOwners
      BY <2>1, <2>3, <2>4, <2>6 DEF NoNewOwners, Current, Holds, Owned, OutboxInv, TypeOK
    <2>9. Advances /\ RoutedOnce' /\ DeadLetterJustified'
      BY <1>1, <2>1 DEF Advances, RoutedOnce, DeadLetterJustified, OutboxInv, TypeOK, RowType
    <2>10. QED BY <2>1, <2>4, <2>5, <2>7, <2>8, <2>9, WorkerMoved
  <1>4. QED BY <1>2, <1>3

\* The worker turns to the rest of its batch.
LEMMA NextClaimed ==
    ASSUME OutboxInv, NEW w \in Workers, worker[w].at \in Events, NextClaim(w)
    PROVE  \E new \in WorkerType :
              /\ worker' = [worker EXCEPT ![w] = new]
              /\ new.phase = "looping" /\ new.at = NoEvent /\ new.retryable
              /\ \A q \in Events : new.tokens[q] \in {worker[w].tokens[q], NoToken}
  <1> DEFINE tokens == [worker[w].tokens EXCEPT ![worker[w].at] = NoToken]
  <1>1. worker[w].tokens \in [Events -> Tokens \cup {NoToken}]
    BY DEF OutboxInv, TypeOK, WorkerType
  <1>2. /\ tokens \in [Events -> Tokens \cup {NoToken}]
        /\ \A q \in Events : tokens[q] \in {worker[w].tokens[q], NoToken}
    BY <1>1
  <1>3. worker' = [worker EXCEPT ![w] = Looping(tokens)]
    BY DEF NextClaim
  <1> DEFINE new == Looping(tokens)
  <1> HIDE DEF tokens
  <1>4. /\ new \in WorkerType /\ new.phase = "looping" /\ new.at = NoEvent
        /\ new.retryable /\ new.tokens = tokens
    BY <1>2, LoopingWorker
  <1> HIDE DEF new
  <1>5. worker' = [worker EXCEPT ![w] = new]
    BY <1>3 DEF new
  <1>6. QED BY <1>2, <1>4, <1>5

\* The worker forgets claims, the rows are as they were.
LEMMA ClaimsDropped ==
    ASSUME OutboxInv, NEW w \in Workers, NEW new \in WorkerType,
           worker' = [worker EXCEPT ![w] = new],
           new.phase = "looping", new.at = NoEvent, new.retryable,
           \A q \in Events : new.tokens[q] \in {worker[w].tokens[q], NoToken},
           UNCHANGED <<event, deliveries, requeues>>, faults' \in 0 .. MaxFaults
    PROVE  OutboxInv'
  <1>1. worker' \in [Workers -> WorkerType] /\ worker'[w] = new
    BY DEF OutboxInv, TypeOK
  <1>2. TypeOK'
    BY <1>1 DEF OutboxInv, TypeOK
  <1>3. Advances /\ RoutedOnce' /\ DeadLetterJustified'
    BY DEF Advances, RoutedOnce, DeadLetterJustified, OutboxInv, TypeOK, RowType
  <1>4. Informed(w)'
    BY <1>1 DEF Informed
  <1>5. NoNewOwners
    <2> SUFFICES ASSUME NEW v \in Workers, NEW q \in Events, Current(v, q)'
                 PROVE  Current(v, q)
      BY DEF NoNewOwners
    <2>1. CASE v = w
      BY <1>1, <2>1 DEF Current, Holds, Owned
    <2>2. CASE v # w
      BY <2>2 DEF Current, Holds, Owned, OutboxInv, TypeOK
    <2>3. QED BY <2>1, <2>2
  <1>6. QED BY <1>2, <1>3, <1>4, <1>5, WorkerMoved

\* A crash preserves the invariant.
LEMMA CrashStep ==
    ASSUME OutboxInv, NEW w \in Workers, Crash(w)
    PROVE  OutboxInv'
  <1>1. /\ worker' = [worker EXCEPT ![w] = Idle]
        /\ UNCHANGED <<event, deliveries, requeues>> /\ faults' \in 0 .. MaxFaults
    BY DEF Crash, Fault, OutboxInv, TypeOK
  <1>2. \A q \in Events : Idle.tokens[q] \in {worker[w].tokens[q], NoToken}
    BY IdleWorker
  <1>3. QED BY <1>1, <1>2, IdleWorker, ClaimsDropped

\* A failed finalizing write preserves the invariant.
LEMMA FinalizeThrowsStep ==
    ASSUME OutboxInv, NEW w \in Workers, FinalizeThrows(w)
    PROVE  OutboxInv'
  <1>1. /\ worker[w].at \in Events /\ NextClaim(w)
        /\ UNCHANGED <<event, deliveries, requeues>> /\ faults' \in 0 .. MaxFaults
    BY DEF FinalizeThrows, Fault, OutboxInv, TypeOK, WorkerType, WorkersInformed, Informed
  <1>2. PICK new \in WorkerType :
              /\ worker' = [worker EXCEPT ![w] = new]
              /\ new.phase = "looping" /\ new.at = NoEvent /\ new.retryable
              /\ \A q \in Events : new.tokens[q] \in {worker[w].tokens[q], NoToken}
    BY <1>1, NextClaimed
  <1>3. QED BY <1>1, <1>2, ClaimsDropped

\* What a finalizing write makes of the row it owns.
LEMMA FinalRow ==
    ASSUME OutboxInv, NEW w \in Workers, FinalizeSuccess(w) \/ FinalizeFailure(w),
           Current(w, worker[w].at)
    PROVE  \E status \in {"PENDING", "DELIVERED", "DEAD_LETTER"} :
              /\ event' = [event EXCEPT ![worker[w].at] = Closed(event[worker[w].at], status)]
              /\ status = "DELIVERED" => \A i \in Intents : deliveries[worker[w].at][i] = 1
              /\ status = "DEAD_LETTER" => \/ worker[w].at \in Malformed
                                           \/ event[worker[w].at].attempts >= MaxAttempts
  <1> DEFINE e == worker[w].at
  <1>1. e \in Events /\ Informed(w)
    BY DEF FinalizeSuccess, FinalizeFailure, OutboxInv, TypeOK, WorkerType,
           WorkersInformed, Informed
  <1>2. CASE FinalizeSuccess(w)
    <2>1. /\ event' = [event EXCEPT ![e] = Closed(event[e], "DELIVERED")]
          /\ \A i \in Intents : deliveries[e][i] = 1
      BY <1>1, <1>2 DEF FinalizeSuccess, Informed, Delivered, OutboxInv, TypeOK
    <2>2. QED BY <2>1
  <1>3. CASE FinalizeFailure(w)
    <2> DEFINE status == IF Terminal(w) THEN "DEAD_LETTER" ELSE "PENDING"
    <2>1. event' = [event EXCEPT ![e] = Closed(event[e], status)]
      BY <1>1, <1>3 DEF FinalizeFailure, Failed, OutboxInv, TypeOK
    <2>2. worker[w].attempts \in Nat /\ event[e].attempts \in Nat
      BY <1>1 DEF OutboxInv, TypeOK, WorkerType, RowType
    <2>3. status = "DEAD_LETTER" => e \in Malformed \/ event[e].attempts >= MaxAttempts
      BY <1>1, <2>2 DEF Terminal, Informed
    <2>4. QED BY <2>1, <2>3
  <1>4. QED BY <1>2, <1>3

\* Finalizing, fenced by the claim, preserves the invariant.
LEMMA FinalizeStep ==
    ASSUME OutboxInv, NEW w \in Workers, FinalizeSuccess(w) \/ FinalizeFailure(w)
    PROVE  OutboxInv'
  <1> DEFINE e == worker[w].at
  <1>1. /\ e \in Events /\ NextClaim(w)
        /\ UNCHANGED <<deliveries, faults, requeues>>
        /\ ~Current(w, e) => UNCHANGED event
    BY DEF FinalizeSuccess, FinalizeFailure, OutboxInv, TypeOK, WorkerType,
           WorkersInformed, Informed
  <1>2. PICK new \in WorkerType :
              /\ worker' = [worker EXCEPT ![w] = new]
              /\ new.phase = "looping" /\ new.at = NoEvent /\ new.retryable
              /\ \A q \in Events : new.tokens[q] \in {worker[w].tokens[q], NoToken}
    BY <1>1, NextClaimed
  <1>3. CASE ~Current(w, e)
    <2>1. faults' \in 0 .. MaxFaults
      BY <1>1 DEF OutboxInv, TypeOK
    <2>2. QED BY <1>1, <1>2, <1>3, <2>1, ClaimsDropped
  <1>4. CASE Current(w, e)
    <2>1. PICK status \in {"PENDING", "DELIVERED", "DEAD_LETTER"} :
              /\ event' = [event EXCEPT ![e] = Closed(event[e], status)]
              /\ status = "DELIVERED" => \A i \in Intents : deliveries[e][i] = 1
              /\ status = "DEAD_LETTER" => e \in Malformed \/ event[e].attempts >= MaxAttempts
      BY <1>4, FinalRow
    <2> DEFINE row == Closed(event[e], status)
    <2>2. event[e] \in RowType(Tokens) /\ event[e].attempts \in Nat
      BY <1>1 DEF OutboxInv, TypeOK, RowType
    <2>3. row \in RowType(Tokens) /\ row.status = status /\ row.attempts = event[e].attempts
      BY <2>2, RowClosed
    <2>4. row.attempts >= event[e].attempts
      BY <2>2, <2>3
    <2> HIDE DEF row, e
    <2>5. /\ event' \in [Events -> RowType(Tokens)]
          /\ Advances /\ RoutedOnce' /\ DeadLetterJustified'
      BY <1>1, <2>1, <2>3, <2>4, RowWritten DEF OutboxInv, row
    <2>6. worker'[w] = new /\ event'[e] = row
      BY <1>1, <1>2, <2>1 DEF OutboxInv, TypeOK, row
    <2>7. TypeOK'
      BY <1>1, <1>2, <2>5 DEF OutboxInv, TypeOK
    <2>8. Informed(w)'
      BY <1>2, <2>6 DEF Informed
    <2>9. NoNewOwners
      <3> SUFFICES ASSUME NEW v \in Workers, NEW q \in Events, Current(v, q)'
                   PROVE  Current(v, q)
        BY DEF NoNewOwners
      <3>1. event'[q] = event[q]
        BY <2>1, <2>3, <2>6 DEF Current, Owned, OutboxInv, TypeOK
      <3>2. CASE v = w
        BY <1>2, <2>6, <3>1, <3>2 DEF Current, Holds, Owned
      <3>3. CASE v # w
        BY <1>2, <3>1, <3>3 DEF Current, Holds, Owned, OutboxInv, TypeOK
      <3>4. QED BY <3>2, <3>3
    <2>10. QED BY <1>2, <2>5, <2>7, <2>8, <2>9, WorkerMoved
  <1>5. QED BY <1>3, <1>4

----------------------------------------------------------------------------
\* The invariant is inductive.
LEMMA OutboxStep == OutboxInv /\ [Next]_vars => OutboxInv'
  <1> SUFFICES ASSUME OutboxInv, [Next]_vars PROVE OutboxInv'
    OBVIOUS
  <1>1. CASE UNCHANGED vars
    BY <1>1 DEF OutboxInv, TypeOK, WorkersInformed, Informed, OneOwner, RoutedOnce,
                DeadLetterJustified, Current, Holds, vars
  <1>2. CASE \E w \in Workers : WorkerStep(w)
    BY <1>2, ClaimBatchStep, BeginAttemptStep, HandlerStep, FinalizeStep DEF WorkerStep
  <1>3. CASE \E w \in Workers : FinalizeThrows(w) \/ Crash(w)
    BY <1>3, FinalizeThrowsStep, CrashStep
  <1>4. CASE \E e \in Events : \/ Append(e) \/ TimePasses(e)
                               \/ LeaseOvertaken(e) \/ RequeueOutbox(e)
    BY <1>4, AppendStep, ClockStep, RequeueStep
  <1>5. QED BY <1>1, <1>2, <1>3, <1>4 DEF Next

\* In every reachable state what a worker remembers of the event it is at is
\* true, and the safety properties of the outbox hold.
THEOREM OutboxInvariant == Spec => []OutboxInv
  <1>1. Init => OutboxInv
    <2> SUFFICES ASSUME Init PROVE OutboxInv
      OBVIOUS
    <2>1. TypeOK
      BY IdleWorker DEF Init, TypeOK, NoRow, RowType
    <2>2. WorkersInformed
      BY IdleWorker DEF Init, WorkersInformed, Informed
    <2>3. OneOwner
      BY IdleWorker DEF Init, OneOwner, Current, Holds
    <2>4. RoutedOnce /\ DeadLetterJustified
      BY DEF Init, RoutedOnce, DeadLetterJustified, NoRow
    <2>5. QED BY <2>1, <2>2, <2>3, <2>4 DEF OutboxInv
  <1>2. QED BY <1>1, OutboxStep, PTL DEF Spec

\* Every variable keeps its type.
THEOREM OutboxTypes == Spec => []TypeOK
  <1>1. OutboxInv => TypeOK
    BY DEF OutboxInv
  <1>2. QED BY <1>1, OutboxInvariant, PTL

\* However leases are overtaken, at most one worker's claim on an event is valid.
THEOREM OneOwnerAlways == Spec => []OneOwner
  <1>1. OutboxInv => OneOwner
    BY DEF OutboxInv
  <1>2. QED BY <1>1, OutboxInvariant, PTL

\* At-least-once processing creates every delivery of a DELIVERED event once.
THEOREM RoutedOnceAlways == Spec => []RoutedOnce
  <1>1. OutboxInv => RoutedOnce
    BY DEF OutboxInv
  <1>2. QED BY <1>1, OutboxInvariant, PTL

\* Only malformed events and events begun MaxAttempts times are dead letters.
THEOREM DeadLettersJustified == Spec => []DeadLetterJustified
  <1>1. OutboxInv => DeadLetterJustified
    BY DEF OutboxInv
  <1>2. QED BY <1>1, OutboxInvariant, PTL

----------------------------------------------------------------------------
(* The refinement *)

State  == [e \in Events |-> PublicStatus(event[e])]
Routes == {e \in Events : \A i \in Intents : deliveries[e][i] > 0}

\* The abstract state of a row, by its status.
LEMMA PublicStatuses ==
    /\ \A row : row.status = "NONE"        => PublicStatus(row) = "absent"
    /\ \A row : row.status = "DELIVERED"   => PublicStatus(row) = "done"
    /\ \A row : row.status = "DEAD_LETTER" => PublicStatus(row) = "dead"
    /\ \A row : row.status \in {"PENDING", "PROCESSING"} => PublicStatus(row) = "queued"
  BY DEF PublicStatus

\* Rows whose public status stays leave the abstract state alone.
LEMMA SameState ==
    ASSUME \A e \in Events : PublicStatus(event'[e]) = PublicStatus(event[e])
    PROVE  State' = State
  BY DEF State

\* Unchanged deliveries are unchanged routes.
LEMMA SameRoutes ==
    ASSUME UNCHANGED deliveries
    PROVE  Routes' = Routes
  BY DEF Routes

\* One row is written: the public state changes at that event only.
LEMMA StateWritten ==
    ASSUME TypeOK, NEW e \in Events, NEW row, event' = [event EXCEPT ![e] = row]
    PROVE  State' = [State EXCEPT ![e] = PublicStatus(row)]
  BY DEF State, TypeOK

\* A handler is invisible, or routes a well-formed event that was appended.
LEMMA HandlerRoutes ==
    ASSUME OutboxInv, NEW w \in Workers, HandlerSucceeds(w) \/ HandlerThrows(w)
    PROVE  /\ State' = State
           /\ \/ Routes' = Routes
              \/ /\ worker[w].at \in Events \ Malformed
                 /\ State[worker[w].at] # "absent"
                 /\ Routes' = Routes \cup {worker[w].at}
  <1> DEFINE e == worker[w].at
  <1>1. /\ e \in Events \ Malformed /\ UNCHANGED event
        /\ deliveries' \in {deliveries, Routed(e)}
        /\ event[e].status # "NONE"
    BY DEF HandlerSucceeds, HandlerThrows, OutboxInv, TypeOK, WorkerType,
           WorkersInformed, Informed
  <1>2. State' = State
    BY <1>1, SameState
  <1>3. State[e] # "absent"
    <2>1. event[e].status \in {"PENDING", "PROCESSING", "DELIVERED", "DEAD_LETTER"}
      BY <1>1 DEF OutboxInv, TypeOK, RowType
    <2>2. QED BY <1>1, <2>1, PublicStatuses DEF State
  <1>4. CASE deliveries' = deliveries
    BY <1>2, <1>4, SameRoutes
  <1>5. CASE deliveries' = Routed(e)
    <2>1. /\ \A i \in Intents : deliveries'[e][i] = 1
          /\ \A q \in Events : q # e => deliveries'[q] = deliveries[q]
      BY <1>1, <1>5, RoutedDeliveries DEF OutboxInv
    <2> HIDE DEF e
    <2>2. Routes' = Routes \cup {e}
      BY <1>1, <2>1 DEF Routes
    <2>3. QED BY <1>1, <1>2, <1>3, <2>2 DEF e
  <1>6. QED BY <1>1, <1>4, <1>5

\* Finalizing is invisible, finishes a routed event, or gives one up.
LEMMA FinalizeMaps ==
    ASSUME OutboxInv, NEW w \in Workers, FinalizeSuccess(w) \/ FinalizeFailure(w)
    PROVE  /\ Routes' = Routes
           /\ \/ State' = State
              \/ \E e \in Events :
                    /\ State[e] = "queued"
                    /\ \/ e \in Routes /\ State' = [State EXCEPT ![e] = "done"]
                       \/ State' = [State EXCEPT ![e] = "dead"]
  <1> DEFINE e == worker[w].at
  <1>1. /\ e \in Events /\ UNCHANGED deliveries
        /\ ~Current(w, e) => UNCHANGED event
    BY DEF FinalizeSuccess, FinalizeFailure, OutboxInv, TypeOK, WorkerType,
           WorkersInformed, Informed
  <1>2. Routes' = Routes
    BY <1>1, SameRoutes
  <1>3. CASE ~Current(w, e)
    BY <1>1, <1>2, <1>3, SameState
  <1>4. CASE Current(w, e)
    <2>1. PICK status \in {"PENDING", "DELIVERED", "DEAD_LETTER"} :
              /\ event' = [event EXCEPT ![e] = Closed(event[e], status)]
              /\ status = "DELIVERED" => \A i \in Intents : deliveries[e][i] = 1
      BY <1>4, FinalRow
    <2> DEFINE row == Closed(event[e], status)
    <2>2. row.status = status
      BY <1>1, RowClosed DEF OutboxInv, TypeOK
    <2> HIDE DEF row, e
    <2>3. State' = [State EXCEPT ![e] = PublicStatus(row)]
      BY <1>1, <2>1, StateWritten DEF OutboxInv, row
    <2>4. State[e] = "queued"
      BY <1>1, <1>4, PublicStatuses DEF State, Current, Owned
    <2>5. CASE status = "PENDING"
      <3>1. event'[e] = row /\ \A q \in Events : q # e => event'[q] = event[q]
        BY <1>1, <2>1 DEF OutboxInv, TypeOK, row
      <3>2. PublicStatus(row) = "queued" /\ PublicStatus(event[e]) = "queued"
        BY <1>4, <2>2, <2>5, PublicStatuses DEF Current, Owned
      <3>3. State' = State
        BY <3>1, <3>2, SameState
      <3>4. QED BY <1>2, <3>3
    <2>6. CASE status = "DELIVERED"
      <3>1. e \in Routes
        BY <1>1, <2>1, <2>6 DEF Routes
      <3>2. QED BY <1>1, <1>2, <2>2, <2>3, <2>4, <2>6, <3>1, PublicStatuses
    <2>7. CASE status = "DEAD_LETTER"
      BY <1>1, <1>2, <2>2, <2>3, <2>4, <2>7, PublicStatuses
    <2>8. QED BY <2>5, <2>6, <2>7
  <1>5. QED BY <1>3, <1>4

\* Claims, attempts, crashes and the clock are invisible.
LEMMA InvisibleSteps ==
    ASSUME OutboxInv,
           \/ \E w \in Workers : \/ ClaimBatch(w) \/ HandlerRefuses(w)
                                 \/ FinalizeThrows(w) \/ Crash(w)
           \/ \E w \in Workers, e \in Events : BeginAttempt(w, e)
           \/ \E e \in Events : TimePasses(e) \/ LeaseOvertaken(e)
           \/ UNCHANGED vars
    PROVE  State' = State /\ Routes' = Routes
  <1>1. UNCHANGED deliveries
    BY DEF ClaimBatch, HandlerRefuses, FinalizeThrows, Crash, BeginAttempt,
           TimePasses, LeaseOvertaken, vars
  <1>2. SUFFICES ASSUME NEW q \in Events
                 PROVE  PublicStatus(event'[q]) = PublicStatus(event[q])
    BY <1>1, SameState, SameRoutes
  <1>3. event[q] \in RowType(Tokens)
    BY DEF OutboxInv, TypeOK
  <1>4. CASE UNCHANGED vars \/ \E w \in Workers : \/ HandlerRefuses(w)
                                                  \/ FinalizeThrows(w) \/ Crash(w)
    BY <1>4 DEF HandlerRefuses, FinalizeThrows, Crash, vars
  <1>5. CASE \E w \in Workers : ClaimBatch(w)
    <2>1. \/ event'[q] = event[q]
          \/ event[q].status \in {"PENDING", "PROCESSING"} /\ event'[q].status = "PROCESSING"
      <3>1. PICK batch \in SUBSET {e \in Events : Claimable(event[e])} :
              event' = [e \in Events |->
                 IF e \in batch THEN Claimed(event[e], FreshToken(e)) ELSE event[e]]
        BY <1>5 DEF ClaimBatch
      <3>2. CASE q \in batch
        BY <1>3, <3>1, <3>2 DEF Claimable, Claimed, RowType
      <3>3. CASE q \notin batch
        BY <3>1, <3>3
      <3>4. QED BY <3>2, <3>3
    <2>2. QED BY <2>1, PublicStatuses
  <1>6. CASE \E w \in Workers, e \in Events : BeginAttempt(w, e)
    <2>1. event'[q] = event[q] \/ event'[q] = Begun(event[q])
      <3>1. event \in [Events -> RowType(Tokens)]
        BY DEF OutboxInv, TypeOK
      <3>2. \/ event' = event
            \/ \E e \in Events : event' = [event EXCEPT ![e] = Begun(event[e])]
        BY <1>6 DEF BeginAttempt
      <3>3. QED BY <3>1, <3>2
    <2>2. Begun(event[q]).status = event[q].status
      BY <1>3, RowWrites
    <2>3. QED BY <2>1, <2>2 DEF PublicStatus
  <1>7. CASE \E e \in Events : TimePasses(e) \/ LeaseOvertaken(e)
    <2>1. event'[q] = event[q] \/ event'[q] = [event[q] EXCEPT !.due = TRUE]
      BY <1>7 DEF TimePasses, LeaseOvertaken, OutboxInv, TypeOK
    <2>2. [event[q] EXCEPT !.due = TRUE].status = event[q].status
      BY <1>3 DEF RowType
    <2>3. QED BY <2>1, <2>2 DEF PublicStatus
  <1>8. QED BY <1>4, <1>5, <1>6, <1>7

\* Appending and requeueing are invisible or put an event in the queue.
LEMMA OperatorSteps ==
    ASSUME OutboxInv, NEW e \in Events, Append(e) \/ RequeueOutbox(e)
    PROVE  /\ Routes' = Routes
           /\ \/ State' = State
              \/ State[e] \in {"absent", "dead"} /\ State' = [State EXCEPT ![e] = "queued"]
  <1>1. Routes' = Routes
    BY SameRoutes DEF Append, RequeueOutbox
  <1>2. CASE Append(e) /\ event[e].status # "NONE"
    BY <1>1, <1>2, SameState DEF Append
  <1>3. CASE Append(e) /\ event[e].status = "NONE"
    <2>1. event' = [event EXCEPT ![e] = NewRow]
      BY <1>3 DEF Append
    <2>2. NewRow.status = "PENDING"
      BY DEF NewRow, NoRow
    <2>3. State' = [State EXCEPT ![e] = PublicStatus(NewRow)]
      BY <2>1, StateWritten DEF OutboxInv
    <2>4. State[e] = "absent"
      BY <1>3, PublicStatuses DEF State
    <2>5. PublicStatus(NewRow) = "queued"
      BY <2>2, PublicStatuses
    <2>6. QED BY <1>1, <2>3, <2>4, <2>5
  <1>4. CASE RequeueOutbox(e)
    <2> DEFINE row == Requeued(event[e])
    <2>1. event[e].status = "DEAD_LETTER" /\ event' = [event EXCEPT ![e] = row]
      BY <1>4 DEF RequeueOutbox, OutboxInv, TypeOK
    <2>2. row.status = "PENDING"
      BY RowRequeued DEF OutboxInv, TypeOK
    <2> HIDE DEF row
    <2>3. State' = [State EXCEPT ![e] = PublicStatus(row)]
      BY <2>1, StateWritten DEF OutboxInv
    <2>4. State[e] = "dead"
      BY <2>1, PublicStatuses DEF State
    <2>5. PublicStatus(row) = "queued"
      BY <2>2, PublicStatuses
    <2>6. QED BY <1>1, <2>3, <2>4, <2>5
  <1>5. QED BY <1>2, <1>3, <1>4

\* The outbox implements at-least-once delivery: every step appends, routes,
\* finishes, gives up or requeues an event as AtLeastOnce allows, or is invisible.
THEOREM OutboxImplements == Spec => ImplementsAtLeastOnce
  <1>1. Init => Queue!Init
    BY DEF Init, Queue!Init, PublicStatus, NoRow
  <1>2. OutboxInv /\ [Next]_vars => [Queue!Next]_(Queue!queueVars)
    <2> SUFFICES ASSUME OutboxInv, [Next]_vars
                 PROVE  [Queue!Next]_(Queue!queueVars)
      OBVIOUS
    <2>1. CASE State' = State /\ Routes' = Routes
      BY <2>1 DEF State, Routes, Queue!queueVars
    <2>2. CASE \E w \in Workers : HandlerSucceeds(w) \/ HandlerThrows(w)
      <3>1. PICK w \in Workers : HandlerSucceeds(w) \/ HandlerThrows(w)
        BY <2>2
      <3>2. CASE Routes' = Routes
        BY <2>1, <3>1, <3>2, HandlerRoutes
      <3>3. CASE Routes' # Routes
        BY <3>1, <3>3, HandlerRoutes DEF State, Routes, Queue!Next, Queue!Route
      <3>4. QED BY <3>2, <3>3
    <2>3. CASE \E w \in Workers : FinalizeSuccess(w) \/ FinalizeFailure(w)
      <3>1. PICK w \in Workers : FinalizeSuccess(w) \/ FinalizeFailure(w)
        BY <2>3
      <3>2. CASE State' = State
        BY <2>1, <3>1, <3>2, FinalizeMaps
      <3>3. CASE State' # State
        BY <3>1, <3>3, FinalizeMaps
           DEF State, Routes, Queue!Next, Queue!Finish, Queue!GiveUp
      <3>4. QED BY <3>2, <3>3
    <2>4. CASE \E e \in Events : Append(e) \/ RequeueOutbox(e)
      <3>1. PICK e \in Events : Append(e) \/ RequeueOutbox(e)
        BY <2>4
      <3>2. CASE State' = State
        BY <2>1, <3>1, <3>2, OperatorSteps
      <3>3. CASE State' # State
        BY <3>1, <3>3, OperatorSteps
           DEF State, Routes, Queue!Next, Queue!Append, Queue!Requeue
      <3>4. QED BY <3>2, <3>3
    <2>5. QED
      BY <2>1, <2>2, <2>3, <2>4, InvisibleSteps DEF Next, WorkerStep
  <1>3. QED BY <1>1, <1>2, OutboxInvariant, PTL DEF Spec, ImplementsAtLeastOnce, Queue!Spec
=============================================================================
