--------------------------- MODULE DeliveriesProofs ---------------------------
(***************************************************************************)
(* What the delivery of notifications guarantees for any deliveries,       *)
(* workers, scans, attempts and faults: effects guarded by a key happen    *)
(* once, DELIVERED and DEAD_LETTER are justified, and what was delivered   *)
(* or suppressed stays so.  The inductive invariant adds what each process *)
(* knows of the delivery it is at (WorkerKnows, ScanKnows).  That a direct *)
(* message is repeated only after faults takes a count of who may still    *)
(* send it (RepeatsCounted).                                               *)
(***************************************************************************)
EXTENDS Deliveries, FiniteSetTheorems, TLAPS

USE DeliveriesAssumption DEF NoToken

\* What a worker remembers of its delivery, and what it has done for it, is true.
WorkerKnows(w) ==
    LET d == process[w].at
        phase == process[w].phase
    IN
    /\ phase \in {"looping", "begun", "created", "mailing", "mailed", "mailfailed",
                  "failing", "answered"}
    /\ phase # "looping" => d \in Local /\ process[w].attempts <= row[d].attempts
    /\ phase = "created" => d \in InApp /\ notice[d] = 1 /\ published[d] = 0
    /\ phase \in {"mailing", "mailed", "mailfailed"} => d \in Email
    /\ phase = "mailed" => mailed[d] = 1
    /\ phase = "answered" => /\ process[w].outcome = "DELIVERED"
                             /\ d \in InApp => notice[d] = 1
                             /\ d \in Email => mailed[d] = 1
    /\ phase = "failing" /\ process[w].outcome = "NON_RETRYABLE_FAILURE" => d \in Invalid

ScanKnows(s) ==
    LET d == process[s].at
        phase == process[s].phase
    IN
    /\ phase \in {"looping", "sending", "sent", "failing", "answered"}
    /\ phase # "looping" => d \in Discord
    /\ phase = "sent" => sent[d] > 0
    /\ phase = "answered" /\ process[s].outcome = "DELIVERED" => sent[d] > 0
    /\ phase = "failing" =>
          process[s].outcome \in {"DESTINATION_UNAVAILABLE", "RETRYABLE_FAILURE"}

Knows(p) == (p \in Workers => WorkerKnows(p)) /\ (p \in Scans => ScanKnows(p))

\* A notification is published by the one worker that stored it.
OnePublisher ==
    \A v, w \in Workers :
        /\ process[v].phase = "created" /\ process[w].phase = "created"
        /\ process[v].at = process[w].at
        => v = w

\* The records of the channels tell the truth.
RecordsTrue ==
    /\ \A d \in Email : record[d] = "SENT" => mailed[d] = 1
    /\ \A d \in Discord : receipt[d] = "DELIVERED" => sent[d] > 0

\* DeliveredWasDelivered and GivenUpJustified, of one row.
RowSound(d) ==
    /\ row[d].status = "DELIVERED" =>
          /\ d \in InApp => notice[d] = 1
          /\ d \in Email => mailed[d] = 1
          /\ d \in Discord => sent[d] > 0
    /\ row[d].status = "DEAD_LETTER" =>
          \/ d \in Invalid
          \/ row[d].attempts >= (IF d \in Discord THEN DiscordMaxAttempts ELSE MaxAttempts)

DeliveriesInv ==
    /\ TypeOK
    /\ EffectsOnce
    /\ RecordsTrue
    /\ OnePublisher
    /\ \A d \in Deliveries : RowSound(d)
    /\ \A p \in Processes : Knows(p)

\* The channels, which a delivery has one of.
LEMMA Channels ==
    /\ Deliveries = InApp \cup Email \cup Discord /\ Local = InApp \cup Email
    /\ InApp \cap Email = {} /\ InApp \cap Discord = {} /\ Email \cap Discord = {}
    /\ Workers \subseteq Processes /\ Scans \subseteq Processes
    /\ Processes = Workers \cup Scans /\ Workers \cap Scans = {}
  BY DEF Deliveries, Local, Processes

\* No step takes back an attempt.
AttemptsStay == \A d \in Deliveries : row'[d].attempts >= row[d].attempts

\* Who takes no part in a step on the rows knows what it knew.
LEMMA OthersKnow ==
    ASSUME DeliveriesInv, UNCHANGED channels, row' \in [Deliveries -> DeliveryRow], AttemptsStay,
           NEW q \in Processes, process'[q] = process[q]
    PROVE  Knows(q)'
  <1>1. Knows(q) /\ UNCHANGED <<notice, published, record, mailed, receipt, sent>>
    BY DEF DeliveriesInv, channels
  <1>2. q \in Scans => ScanKnows(q)'
    BY <1>1 DEF Knows, ScanKnows
  <1>3. ASSUME q \in Workers PROVE WorkerKnows(q)'
    <2>1. WorkerKnows(q)
      BY <1>1, <1>3 DEF Knows
    <2>2. process[q].phase # "looping" => process[q].attempts <= row'[process[q].at].attempts
      <3>1. SUFFICES ASSUME process[q].phase # "looping"
                     PROVE  process[q].attempts <= row'[process[q].at].attempts
        OBVIOUS
      <3>2. PICK d \in Deliveries : d = process[q].at /\ process[q].attempts <= row[d].attempts
        BY <2>1, <3>1, Channels DEF WorkerKnows
      <3>3. row'[d].attempts >= row[d].attempts
        BY DEF AttemptsStay
      <3>4. process[q].attempts \in Nat /\ row[d].attempts \in Nat /\ row'[d].attempts \in Nat
        BY DEF DeliveriesInv, TypeOK, ProcessType, DeliveryRow
      <3>5. QED BY <3>2, <3>3, <3>4
    <2>3. QED BY <1>1, <2>1, <2>2 DEF WorkerKnows
  <1>4. QED BY <1>2, <1>3 DEF Knows

\* A step of process p on the rows leaves what the others know true.
LEMMA RowStep ==
    ASSUME DeliveriesInv, UNCHANGED channels, NEW p \in Processes,
           row' \in [Deliveries -> DeliveryRow], process' \in [Processes -> ProcessType],
           faults' \in 0 .. MaxFaults, requeues' \in 0 .. MaxRequeues,
           \A q \in Processes : q # p => process'[q] = process[q],
           process'[p].phase # "created", Knows(p)',
           AttemptsStay, \A d \in Deliveries : RowSound(d)'
    PROVE  DeliveriesInv'
  <1>1. UNCHANGED <<notice, published, record, mailed, receipt, sent>>
    BY DEF channels
  <1>2. TypeOK' /\ EffectsOnce' /\ RecordsTrue'
    BY <1>1 DEF DeliveriesInv, TypeOK, EffectsOnce, RecordsTrue
  <1>3. OnePublisher'
    BY Channels DEF DeliveriesInv, OnePublisher
  <1>4. \A q \in Processes : Knows(q)'
    BY OthersKnow
  <1>5. QED BY <1>2, <1>3, <1>4 DEF DeliveriesInv

\* So does a step on the rows that no process takes.
LEMMA ClockStep ==
    ASSUME DeliveriesInv, UNCHANGED <<channels, process>>,
           row' \in [Deliveries -> DeliveryRow],
           faults' \in 0 .. MaxFaults, requeues' \in 0 .. MaxRequeues,
           AttemptsStay, \A d \in Deliveries : RowSound(d)'
    PROVE  DeliveriesInv'
  <1>1. UNCHANGED <<notice, published, record, mailed, receipt, sent>>
    BY DEF channels
  <1>2. TypeOK' /\ EffectsOnce' /\ RecordsTrue' /\ OnePublisher'
    BY <1>1 DEF DeliveriesInv, TypeOK, EffectsOnce, RecordsTrue, OnePublisher
  <1>3. \A q \in Processes : Knows(q)'
    BY OthersKnow
  <1>4. QED BY <1>2, <1>3 DEF DeliveriesInv

\* What is in the channels only grows; a notification is published by its publisher.
ChannelsGrow(p) ==
    /\ \A d \in InApp : notice[d] = 1 => notice'[d] = 1
    /\ \A d \in InApp : published'[d] = published[d]
                        \/ (p \in Workers /\ process[p].phase = "created" /\ process[p].at = d)
    /\ \A d \in Email : mailed[d] = 1 => mailed'[d] = 1
    /\ \A d \in Discord : sent[d] > 0 => sent'[d] > 0

\* A step of process p on the channels leaves what the others know true.
LEMMA ChannelStep ==
    ASSUME DeliveriesInv, UNCHANGED <<row, requeues>>, NEW p \in Processes,
           TypeOK', EffectsOnce', RecordsTrue', ChannelsGrow(p),
           \A q \in Processes : q # p => process'[q] = process[q],
           Knows(p)',
           p \in Workers /\ process'[p].phase = "created" =>
               \A q \in Workers : process[q].phase = "created" => process[q].at # process'[p].at
    PROVE  DeliveriesInv'
  <1>1. OnePublisher'
    BY Channels DEF DeliveriesInv, OnePublisher
  <1>2. ASSUME NEW d \in Deliveries PROVE RowSound(d)'
    <2>1. RowSound(d) /\ row'[d] = row[d]
      BY DEF DeliveriesInv
    <2>2. QED BY <2>1 DEF RowSound, ChannelsGrow
  <1>3. ASSUME NEW q \in Processes PROVE Knows(q)'
    <2>1. CASE q = p
      BY <2>1
    <2>2. CASE q # p
      <3>1. Knows(q) /\ process'[q] = process[q] /\ row' = row
        BY <2>2 DEF DeliveriesInv
      <3>2. q \in Scans => ScanKnows(q)'
        BY <3>1 DEF Knows, ScanKnows, ChannelsGrow
      <3>3. ASSUME q \in Workers PROVE WorkerKnows(q)'
        <4>1. WorkerKnows(q)
          BY <3>1, <3>3 DEF Knows
        <4>2. process[q].phase = "created" => published'[process[q].at] = published[process[q].at]
          <5>1. SUFFICES ASSUME process[q].phase = "created"
                         PROVE  published'[process[q].at] = published[process[q].at]
            OBVIOUS
          <5>2. process[q].at \in InApp
            BY <4>1, <5>1 DEF WorkerKnows
          <5>3. ~(p \in Workers /\ process[p].phase = "created" /\ process[p].at = process[q].at)
            BY <2>2, <3>3, <5>1 DEF DeliveriesInv, OnePublisher
          <5>4. QED BY <5>2, <5>3 DEF ChannelsGrow
        <4>3. QED BY <3>1, <4>1, <4>2 DEF WorkerKnows, ChannelsGrow
      <3>4. QED BY <3>2, <3>3 DEF Knows
    <2>3. QED BY <2>1, <2>2
  <1>4. QED BY <1>1, <1>2, <1>3 DEF DeliveriesInv

----------------------------------------------------------------------------
(* What the ways to write a process and a row make of them *)

\* A process that only changes phase keeps its delivery, attempts and outcome.
LEMMA ProcessGoes ==
    ASSUME TypeOK, NEW p \in Processes,
           NEW phase \in {"created", "mailing", "mailed", "mailfailed", "sent", "answered"},
           Go(p, phase)
    PROVE  /\ process' \in [Processes -> ProcessType]
           /\ process'[p].phase = phase /\ process'[p].at = process[p].at
           /\ process'[p].attempts = process[p].attempts
           /\ process'[p].outcome = process[p].outcome
           /\ \A q \in Processes : q # p => process'[q] = process[q]
  <1> DEFINE new == [process[p] EXCEPT !.phase = phase]
  <1>1. process[p] \in ProcessType /\ process' = [process EXCEPT ![p] = new]
    BY DEF TypeOK, Go
  <1>2. /\ new \in ProcessType /\ new.phase = phase /\ new.at = process[p].at
        /\ new.attempts = process[p].attempts /\ new.outcome = process[p].outcome
    BY <1>1 DEF ProcessType
  <1> HIDE DEF new
  <1>3. QED BY <1>1, <1>2 DEF TypeOK

\* A process that has an outcome stays at its delivery.
LEMMA ProcessAnswers ==
    ASSUME TypeOK, NEW p \in Processes, NEW phase \in {"failing", "answered"},
           NEW outcome \in {"DELIVERED", "RETRYABLE_FAILURE", "NON_RETRYABLE_FAILURE",
                            "DESTINATION_UNAVAILABLE"},
           Ends(p, phase, outcome)
    PROVE  /\ process' \in [Processes -> ProcessType]
           /\ process'[p].phase = phase /\ process'[p].at = process[p].at
           /\ process'[p].attempts = process[p].attempts /\ process'[p].outcome = outcome
           /\ \A q \in Processes : q # p => process'[q] = process[q]
  <1> DEFINE new == [process[p] EXCEPT !.phase = phase, !.outcome = outcome]
  <1>1. process[p] \in ProcessType /\ process' = [process EXCEPT ![p] = new]
    BY DEF TypeOK, Ends
  <1>2. /\ new \in ProcessType /\ new.phase = phase /\ new.at = process[p].at
        /\ new.attempts = process[p].attempts /\ new.outcome = outcome
    BY <1>1 DEF ProcessType
  <1> HIDE DEF new
  <1>3. QED BY <1>1, <1>2 DEF TypeOK

\* A looping process knows nothing that could be wrong.
LEMMA LoopingKnows ==
    ASSUME NEW p \in Processes, process'[p].phase = "looping"
    PROVE  Knows(p)'
  BY DEF Knows, WorkerKnows, ScanKnows

\* A process that goes on with its batch remembers nothing of the delivery it leaves.
LEMMA NextClaims ==
    ASSUME TypeOK, NEW p \in Processes, NextClaim(p)
    PROVE  /\ process' \in [Processes -> ProcessType]
           /\ process'[p].phase = "looping" /\ Knows(p)'
           /\ \A q \in Processes : q # p => process'[q] = process[q]
  <1> DEFINE tokens == [process[p].tokens EXCEPT ![process[p].at] = NoToken]
  <1>1. process[p].tokens \in [Deliveries -> Tokens \cup {NoToken}]
    BY DEF TypeOK, ProcessType
  <1>2. tokens \in [Deliveries -> Tokens \cup {NoToken}]
    BY <1>1
  <1>3. process' = [process EXCEPT ![p] = Looping(tokens)]
    BY DEF NextClaim
  <1> HIDE DEF tokens
  <1>4. Looping(tokens) \in ProcessType /\ Looping(tokens).phase = "looping"
    BY <1>2 DEF Looping, ProcessType
  <1>5. /\ process' \in [Processes -> ProcessType] /\ process'[p] = Looping(tokens)
        /\ \A q \in Processes : q # p => process'[q] = process[q]
    BY <1>3, <1>4 DEF TypeOK
  <1>6. QED BY <1>4, <1>5, LoopingKnows

\* Dropping one claim leaves a process looping where it was.
LEMMA ClaimDropped ==
    ASSUME TypeOK, NEW p \in Processes, NEW d \in Deliveries, At(p, "looping"), Drops(p, d)
    PROVE  /\ process' \in [Processes -> ProcessType]
           /\ process'[p].phase = "looping" /\ Knows(p)'
           /\ \A q \in Processes : q # p => process'[q] = process[q]
  <1> DEFINE new == [process[p] EXCEPT !.tokens = [process[p].tokens EXCEPT ![d] = NoToken]]
  <1>1. process[p] \in ProcessType /\ process' = [process EXCEPT ![p] = new]
    BY DEF TypeOK, Drops
  <1>2. new \in ProcessType /\ new.phase = "looping"
    BY <1>1 DEF ProcessType, At
  <1> HIDE DEF new
  <1>3. /\ process' \in [Processes -> ProcessType] /\ process'[p].phase = "looping"
        /\ \A q \in Processes : q # p => process'[q] = process[q]
    BY <1>1, <1>2 DEF TypeOK
  <1>4. QED BY <1>3, LoopingKnows

\* A closed row is a row of that status with its attempts.
LEMMA RowClosed ==
    ASSUME NEW r \in DeliveryRow,
           NEW status \in {"PENDING", "DELIVERED", "SUPPRESSED", "DEAD_LETTER"}
    PROVE  /\ Closed(r, status) \in DeliveryRow
           /\ Closed(r, status).status = status
           /\ Closed(r, status).attempts = r.attempts
  BY DEF DeliveryRow, ClosedStatuses, Closed

\* Beginning counts an attempt and keeps the claim.
LEMMA RowBegun ==
    ASSUME NEW r \in DeliveryRow
    PROVE  /\ Begun(r) \in DeliveryRow
           /\ Begun(r).attempts = r.attempts + 1
           /\ Begun(r).status = r.status
  BY DEF DeliveryRow, Begun

\* A leased row is PROCESSING and may have counted an attempt.
LEMMA RowClaimed ==
    ASSUME NEW r \in DeliveryRow, NEW t \in Tokens, NEW counted \in Nat
    PROVE  /\ [Claimed(r, t) EXCEPT !.attempts = @ + counted] \in DeliveryRow
           /\ [Claimed(r, t) EXCEPT !.attempts = @ + counted].status = "PROCESSING"
           /\ [Claimed(r, t) EXCEPT !.attempts = @ + counted].attempts >= r.attempts
  <1> DEFINE claimed == Claimed(r, t)
  <1>1. claimed \in DeliveryRow /\ claimed.status = "PROCESSING" /\ claimed.attempts = r.attempts
    BY DEF DeliveryRow, Claimed
  <1>2. r.attempts \in Nat
    BY DEF DeliveryRow
  <1> HIDE DEF claimed
  <1>3. /\ [claimed EXCEPT !.attempts = @ + counted] \in DeliveryRow
        /\ [claimed EXCEPT !.attempts = @ + counted].status = "PROCESSING"
        /\ [claimed EXCEPT !.attempts = @ + counted].attempts >= r.attempts
    BY <1>1, <1>2 DEF DeliveryRow
  <1>4. QED BY <1>3 DEF claimed

\* A requeued row is PENDING and keeps its attempts.
LEMMA RowRequeued ==
    ASSUME NEW r \in DeliveryRow
    PROVE  /\ Requeued(r) \in DeliveryRow
           /\ Requeued(r).status = "PENDING"
           /\ Requeued(r).attempts = r.attempts
  <1> DEFINE closed == Closed(r, "PENDING")
  <1>1. closed \in DeliveryRow /\ closed.status = "PENDING" /\ closed.attempts = r.attempts
    BY RowClosed
  <1> HIDE DEF closed
  <1>2. Requeued(r) = [closed EXCEPT !.due = TRUE]
    BY DEF Requeued, closed
  <1>3. QED BY <1>1, <1>2 DEF DeliveryRow

\* One row written; the new one is a row, keeps the attempts and is justified.
LEMMA RowWritten ==
    ASSUME DeliveriesInv, UNCHANGED channels, NEW d \in Deliveries, NEW new \in DeliveryRow,
           row' = [row EXCEPT ![d] = new] \/ row' = row,
           new.attempts >= row[d].attempts,
           new.status = "DELIVERED" =>
               /\ d \in InApp => notice[d] = 1
               /\ d \in Email => mailed[d] = 1
               /\ d \in Discord => sent[d] > 0,
           new.status = "DEAD_LETTER" =>
               \/ d \in Invalid
               \/ new.attempts >= (IF d \in Discord THEN DiscordMaxAttempts ELSE MaxAttempts)
    PROVE  /\ row' \in [Deliveries -> DeliveryRow]
           /\ AttemptsStay
           /\ \A e \in Deliveries : RowSound(e)'
  <1>1. row \in [Deliveries -> DeliveryRow] /\ \A e \in Deliveries : row[e].attempts \in Nat
    BY DEF DeliveriesInv, TypeOK, DeliveryRow
  <1>2. row' \in [Deliveries -> DeliveryRow]
    BY <1>1
  <1>3. AttemptsStay
    BY <1>1 DEF AttemptsStay
  <1>4. ASSUME NEW e \in Deliveries PROVE RowSound(e)'
    <2>1. UNCHANGED <<notice, mailed, sent>>
      BY DEF channels
    <2>2. CASE row'[e] = row[e]
      <3>1. RowSound(e)
        BY DEF DeliveriesInv
      <3>2. QED BY <2>1, <2>2, <3>1 DEF RowSound
    <2>3. CASE e = d /\ row'[e] = new
      BY <2>1, <2>3 DEF RowSound
    <2>4. QED BY <1>1, <2>2, <2>3
  <1>5. QED BY <1>2, <1>3, <1>4

----------------------------------------------------------------------------
(* Claims *)

\* A fresh token is a token that nobody has.
LEMMA Fresh ==
    ASSUME NEW d \in Deliveries, Tokens \ TokensOf(d) # {}
    PROVE  FreshToken(d) \in Tokens /\ FreshToken(d) \notin TokensOf(d)
  BY DEF FreshToken

\* Claiming a batch, with or without counting attempts, closes no row.
LEMMA ClaimKeeps ==
    ASSUME DeliveriesInv, NEW p \in Processes, NEW deliveries \in SUBSET Deliveries,
           NEW counted \in Nat, Claim(p, deliveries, counted),
           UNCHANGED <<channels, faults, requeues>>
    PROVE  DeliveriesInv'
  <1> DEFINE Leased(batch) ==
            /\ \A d \in batch : Tokens \ TokensOf(d) # {}
            /\ row' = [d \in Deliveries |->
                  IF d \in batch
                  THEN [Claimed(row[d], FreshToken(d)) EXCEPT !.attempts = @ + counted]
                  ELSE row[d]]
            /\ process' = [process EXCEPT ![p].tokens =
                  [d \in Deliveries |-> IF d \in batch THEN FreshToken(d) ELSE NoToken]]
  <1>1. PICK batch \in SUBSET deliveries : Leased(batch)
    <2>1. \E batch \in SUBSET {d \in deliveries : Claimable(row[d])} : Leased(batch)
      BY DEF Claim
    <2> HIDE DEF Leased
    <2>2. QED BY <2>1
  <1>2. row \in [Deliveries -> DeliveryRow] /\ process \in [Processes -> ProcessType]
    BY DEF DeliveriesInv, TypeOK
  <1>3. ASSUME NEW d \in Deliveries
        PROVE  /\ row'[d] \in DeliveryRow /\ row'[d].attempts >= row[d].attempts
               /\ RowSound(d)'
    <2>1. CASE d \in batch
      <3>1. FreshToken(d) \in Tokens
        BY <1>1, <2>1, Fresh
      <3>2. row'[d] = [Claimed(row[d], FreshToken(d)) EXCEPT !.attempts = @ + counted]
        BY <1>1, <2>1
      <3>3. /\ row'[d] \in DeliveryRow /\ row'[d].attempts >= row[d].attempts
            /\ row'[d].status = "PROCESSING"
        BY <1>2, <3>1, <3>2, RowClaimed
      <3>4. QED BY <3>3 DEF RowSound
    <2>2. CASE d \notin batch
      <3>1. row'[d] = row[d] /\ RowSound(d) /\ row[d].attempts \in Nat
        BY <1>1, <1>2, <2>2 DEF DeliveriesInv, DeliveryRow
      <3>2. UNCHANGED <<notice, mailed, sent>>
        BY DEF channels
      <3>3. QED BY <1>2, <3>1, <3>2 DEF RowSound
    <2>3. QED BY <2>1, <2>2
  <1>4. row' \in [Deliveries -> DeliveryRow]
    <2>1. DOMAIN row' = Deliveries /\ row' = [d \in Deliveries |-> row'[d]]
      BY <1>1
    <2>2. QED BY <1>3, <2>1
  <1>5. AttemptsStay
    BY <1>3 DEF AttemptsStay
  <1> DEFINE tokens == [d \in Deliveries |-> IF d \in batch THEN FreshToken(d) ELSE NoToken]
             new == [process[p] EXCEPT !.tokens = tokens]
  <1>6. tokens \in [Deliveries -> Tokens \cup {NoToken}]
    BY <1>1, Fresh
  <1>7. process' = [process EXCEPT ![p] = new] /\ process[p].phase = "looping"
    <2>1. process[p].phase = "looping"
      BY DEF Claim, Idle, Looping
    <2>2. process' = [process EXCEPT ![p].tokens = tokens]
      BY <1>1
    <2> HIDE DEF tokens
    <2>3. QED BY <1>2, <2>1, <2>2
  <1> HIDE DEF tokens
  <1>8. new \in ProcessType /\ new.phase = "looping"
    BY <1>2, <1>6, <1>7 DEF ProcessType
  <1> HIDE DEF new
  <1>9. /\ process' \in [Processes -> ProcessType] /\ process'[p].phase = "looping"
        /\ \A q \in Processes : q # p => process'[q] = process[q]
    BY <1>2, <1>7, <1>8
  <1>10. Knows(p)'
    BY <1>9, LoopingKnows
  <1>11. QED BY <1>3, <1>4, <1>5, <1>9, <1>10, RowStep DEF DeliveriesInv, TypeOK

----------------------------------------------------------------------------
(* Each step of an in-process worker keeps the invariant. *)

\* A begun attempt is counted in the row and remembered by its worker.
LEMMA BeginKeeps ==
    ASSUME DeliveriesInv, NEW w \in Workers, NEW d \in Local, Begin(w, d)
    PROVE  DeliveriesInv'
  <1>1. /\ w \in Processes /\ w \notin Scans /\ d \in Deliveries
        /\ UNCHANGED channels /\ UNCHANGED <<faults, requeues>>
        /\ row[d] \in DeliveryRow /\ row[d].attempts \in Nat
    BY Channels DEF Begin, DeliveriesInv, TypeOK, DeliveryRow
  <1>2. CASE Current(w, d)
    <2>1. row' = [row EXCEPT ![d] = Begun(row[d])]
      BY <1>2 DEF Begin, DeliveriesInv, TypeOK
    <2>2. /\ Begun(row[d]) \in DeliveryRow /\ Begun(row[d]).status = "PROCESSING"
          /\ Begun(row[d]).attempts = row[d].attempts + 1
          /\ Begun(row[d]).attempts >= row[d].attempts
      BY <1>1, <1>2, RowBegun DEF Current, Owned
    <2>3. /\ row' \in [Deliveries -> DeliveryRow] /\ AttemptsStay
          /\ \A e \in Deliveries : RowSound(e)'
      BY <1>1, <2>1, <2>2, RowWritten
    <2> DEFINE attempts == row[d].attempts + 1
               new == [process[w] EXCEPT !.phase = "begun", !.at = d, !.attempts = attempts]
    <2>4. process[w] \in ProcessType /\ process' = [process EXCEPT ![w] = new]
      <3>1. process \in [Processes -> ProcessType]
        BY DEF DeliveriesInv, TypeOK
      <3>2. process' = [process EXCEPT ![w].phase = "begun", ![w].at = d,
                                       ![w].attempts = row[d].attempts + 1]
        BY <1>2 DEF Begin
      <3>3. QED BY <1>1, <3>1, <3>2
    <2>5. attempts \in Nat /\ attempts = row[d].attempts + 1
      BY <1>1
    <2> HIDE DEF attempts
    <2>6. /\ new \in ProcessType /\ new.phase = "begun" /\ new.at = d
          /\ new.attempts = attempts
      BY <1>1, <2>4, <2>5 DEF ProcessType
    <2> HIDE DEF new
    <2>7. /\ process' \in [Processes -> ProcessType] /\ process'[w] = new
          /\ \A q \in Processes : q # w => process'[q] = process[q]
      BY <1>1, <2>4, <2>6 DEF DeliveriesInv, TypeOK
    <2>8. row'[d].attempts = attempts
      BY <1>1, <2>1, <2>2, <2>5 DEF DeliveriesInv, TypeOK
    <2>9. Knows(w)'
      BY <1>1, <2>5, <2>6, <2>7, <2>8 DEF Knows, WorkerKnows
    <2>10. QED BY <1>1, <2>3, <2>6, <2>7, <2>9, RowStep DEF DeliveriesInv, TypeOK
  <1>3. CASE ~Current(w, d)
    <2>1. Drops(w, d) /\ row' = row /\ At(w, "looping")
      BY <1>3 DEF Begin
    <2>2. /\ process' \in [Processes -> ProcessType]
          /\ process'[w].phase = "looping" /\ Knows(w)'
          /\ \A q \in Processes : q # w => process'[q] = process[q]
      BY <1>1, <2>1, ClaimDropped DEF DeliveriesInv
    <2>3. \A e \in Deliveries : RowSound(e)'
      BY <1>1, <2>1 DEF DeliveriesInv, RowSound, channels
    <2>4. AttemptsStay
      BY <2>1 DEF AttemptsStay, DeliveriesInv, TypeOK, DeliveryRow
    <2>5. QED BY <1>1, <2>1, <2>2, <2>3, <2>4, RowStep DEF DeliveriesInv, TypeOK
  <1>4. QED BY <1>2, <1>3

\* Of a worker that is at a delivery.
LEMMA WorkerAt ==
    ASSUME DeliveriesInv, NEW w \in Workers, process[w].phase # "looping"
    PROVE  /\ w \in Processes /\ w \notin Scans /\ WorkerKnows(w)
           /\ process[w].at \in Local /\ process[w].at \in Deliveries
           /\ process[w].attempts <= row[process[w].at].attempts
  BY Channels DEF DeliveriesInv, Knows, WorkerKnows

\* Only an invalid delivery is refused.
LEMMA RefuseKeeps ==
    ASSUME DeliveriesInv, NEW w \in Workers, Refuse(w)
    PROVE  DeliveriesInv'
  <1>1. /\ w \in Processes /\ w \notin Scans /\ WorkerKnows(w) /\ process[w].at \in Invalid
        /\ UNCHANGED <<row, notice, published, record, mailed, receipt, sent, faults, requeues>>
        /\ process[w].at \in Local
        /\ process[w].attempts <= row[process[w].at].attempts
    BY WorkerAt DEF Refuse, At, channels
  <1>2. /\ process' \in [Processes -> ProcessType]
        /\ process'[w].phase = "failing" /\ process'[w].at = process[w].at
        /\ process'[w].attempts = process[w].attempts
        /\ \A q \in Processes : q # w => process'[q] = process[q]
    BY <1>1, ProcessAnswers DEF Refuse, DeliveriesInv
  <1>3. Knows(w)'
    BY <1>1, <1>2 DEF Knows, WorkerKnows
  <1>4. TypeOK' /\ EffectsOnce' /\ RecordsTrue' /\ ChannelsGrow(w)
    BY <1>1, <1>2 DEF DeliveriesInv, TypeOK, EffectsOnce, RecordsTrue, ChannelsGrow
  <1>5. QED BY <1>1, <1>2, <1>3, <1>4, ChannelStep

\* A worker that stored the notification is the only one to publish it.
LEMMA CreateNotificationKeeps ==
    ASSUME DeliveriesInv, NEW w \in Workers, CreateNotification(w)
    PROVE  DeliveriesInv'
  <1>0. PICK d \in InApp : d = process[w].at
    BY DEF CreateNotification
  <1>1. /\ w \in Processes /\ w \notin Scans /\ d \in Local /\ d \notin Email
        /\ process[w].attempts <= row[d].attempts
        /\ notice' = [notice EXCEPT ![d] = IF @ = 0 THEN 1 ELSE @]
        /\ UNCHANGED <<row, published, record, mailed, receipt, sent, faults, requeues>>
    BY <1>0, WorkerAt, Channels DEF CreateNotification, At, Stored
  <1>2. /\ notice \in [InApp -> Nat] /\ notice[d] \in {0, 1}
        /\ published[d] \in Nat /\ published[d] <= notice[d]
    BY DEF DeliveriesInv, TypeOK, EffectsOnce
  <1>3. /\ notice' \in [InApp -> Nat] /\ notice'[d] = 1
        /\ \A e \in InApp : e # d => notice'[e] = notice[e]
    BY <1>1, <1>2
  <1>4. \/ notice[d] = 0 /\ Go(w, "created")
        \/ notice[d] = 1 /\ Ends(w, "answered", "DELIVERED")
    BY <1>0, <1>2 DEF CreateNotification
  <1>5. /\ process' \in [Processes -> ProcessType] /\ process'[w].at = d
        /\ process'[w].attempts = process[w].attempts
        /\ \A q \in Processes : q # w => process'[q] = process[q]
        /\ \/ notice[d] = 0 /\ process'[w].phase = "created"
           \/ /\ notice[d] = 1
              /\ process'[w].phase = "answered" /\ process'[w].outcome = "DELIVERED"
    <2>1. CASE notice[d] = 0 /\ Go(w, "created")
      BY <1>0, <1>1, <2>1, ProcessGoes DEF DeliveriesInv
    <2>2. CASE notice[d] = 1 /\ Ends(w, "answered", "DELIVERED")
      BY <1>0, <1>1, <2>2, ProcessAnswers DEF DeliveriesInv
    <2>3. QED BY <1>4, <2>1, <2>2
  <1>6. Knows(w)'
    BY <1>1, <1>2, <1>3, <1>5 DEF Knows, WorkerKnows
  <1>7. TypeOK' /\ EffectsOnce' /\ RecordsTrue' /\ ChannelsGrow(w)
    <2>1. TypeOK' /\ RecordsTrue' /\ ChannelsGrow(w)
      BY <1>1, <1>3, <1>5 DEF DeliveriesInv, TypeOK, RecordsTrue, ChannelsGrow
    <2>2. EffectsOnce'
      BY <1>1, <1>2, <1>3 DEF DeliveriesInv, EffectsOnce
    <2>3. QED BY <2>1, <2>2
  <1>8. notice[d] = 0 => \A q \in Workers : process[q].phase = "created" => process[q].at # d
    BY Channels DEF DeliveriesInv, Knows, WorkerKnows
  <1>9. QED BY <1>1, <1>5, <1>6, <1>7, <1>8, ChannelStep

\* The realtime event of a notification is its first: nobody else stands before it.
LEMMA PublishCreatedKeeps ==
    ASSUME DeliveriesInv, NEW w \in Workers, PublishCreated(w)
    PROVE  DeliveriesInv'
  <1>0. PICK d \in InApp : d = process[w].at
    BY WorkerAt DEF PublishCreated, At, WorkerKnows
  <1>1. /\ w \in Processes /\ w \notin Scans /\ d \in Local /\ d \notin Email
        /\ process[w].attempts <= row[d].attempts
        /\ notice[d] = 1 /\ published[d] = 0 /\ process[w].phase = "created"
        /\ published' = [published EXCEPT ![d] = @ + 1]
        /\ UNCHANGED <<row, notice, record, mailed, receipt, sent, faults, requeues>>
    BY <1>0, WorkerAt, Channels DEF PublishCreated, At, WorkerKnows
  <1>2. /\ published' \in [InApp -> Nat] /\ published'[d] = 1
        /\ \A e \in InApp : e # d => published'[e] = published[e]
    BY <1>1 DEF DeliveriesInv, TypeOK
  <1>3. /\ process' \in [Processes -> ProcessType] /\ process'[w].at = d
        /\ process'[w].attempts = process[w].attempts
        /\ process'[w].phase = "answered" /\ process'[w].outcome = "DELIVERED"
        /\ \A q \in Processes : q # w => process'[q] = process[q]
    BY <1>0, <1>1, ProcessAnswers DEF PublishCreated, DeliveriesInv
  <1>4. Knows(w)'
    BY <1>1, <1>3 DEF Knows, WorkerKnows
  <1>5. TypeOK' /\ RecordsTrue' /\ ChannelsGrow(w)
    BY <1>0, <1>1, <1>2, <1>3 DEF DeliveriesInv, TypeOK, RecordsTrue, ChannelsGrow
  <1>6. EffectsOnce'
    BY <1>1, <1>2 DEF DeliveriesInv, EffectsOnce
  <1>7. QED BY <1>1, <1>3, <1>4, <1>5, <1>6, ChannelStep

\* An e-mail whose record says SENT is answered without sending it again.
LEMMA PrepareEmailKeeps ==
    ASSUME DeliveriesInv, NEW w \in Workers, PrepareEmail(w)
    PROVE  DeliveriesInv'
  <1>0. PICK d \in Email : d = process[w].at
    BY DEF PrepareEmail
  <1>1. /\ w \in Processes /\ w \notin Scans /\ d \in Local /\ d \notin InApp
        /\ process[w].attempts <= row[d].attempts
        /\ UNCHANGED <<row, notice, published, mailed, receipt, sent, faults, requeues>>
    BY <1>0, WorkerAt, Channels DEF PrepareEmail, At
  <1>2. \/ record[d] = "SENT" /\ record' = record /\ Ends(w, "answered", "DELIVERED")
        \/ record' = [record EXCEPT ![d] = "PENDING"] /\ Go(w, "mailing")
    BY <1>0 DEF PrepareEmail, KnownSent
  <1>3. /\ process' \in [Processes -> ProcessType] /\ process'[w].at = d
        /\ process'[w].attempts = process[w].attempts
        /\ \A q \in Processes : q # w => process'[q] = process[q]
        /\ \/ process'[w].phase = "mailing"
           \/ /\ record[d] = "SENT"
              /\ process'[w].phase = "answered" /\ process'[w].outcome = "DELIVERED"
    <2>1. CASE record[d] = "SENT" /\ Ends(w, "answered", "DELIVERED")
      BY <1>0, <1>1, <2>1, ProcessAnswers DEF DeliveriesInv
    <2>2. CASE Go(w, "mailing")
      BY <1>0, <1>1, <2>2, ProcessGoes DEF DeliveriesInv
    <2>3. QED BY <1>2, <2>1, <2>2
  <1>4. record[d] = "SENT" => mailed[d] = 1
    BY DEF DeliveriesInv, RecordsTrue
  <1>5. Knows(w)'
    BY <1>1, <1>3, <1>4 DEF Knows, WorkerKnows
  <1>6. /\ record' \in [Email -> {"NONE", "PENDING", "SENT", "FAILED"}]
        /\ \A e \in Email : record'[e] = "SENT" => record[e] = "SENT"
    BY <1>2 DEF DeliveriesInv, TypeOK
  <1>7. TypeOK' /\ EffectsOnce' /\ RecordsTrue' /\ ChannelsGrow(w)
    BY <1>1, <1>3, <1>6 DEF DeliveriesInv, TypeOK, EffectsOnce, RecordsTrue, ChannelsGrow
  <1>8. QED BY <1>1, <1>3, <1>5, <1>7, ChannelStep

\* The provider accepts, refuses, or accepts without saying so.
LEMMA ProviderKeeps ==
    ASSUME DeliveriesInv, NEW w \in Workers, ProviderAccepts(w) \/ ProviderFails(w)
    PROVE  DeliveriesInv'
  <1>0. PICK d \in Email : d = process[w].at
    BY WorkerAt DEF ProviderAccepts, ProviderFails, At, WorkerKnows
  <1>1. /\ w \in Processes /\ w \notin Scans /\ d \in Local /\ d \notin InApp
        /\ process[w].attempts <= row[d].attempts
        /\ UNCHANGED <<row, notice, published, record, receipt, sent, faults, requeues>>
    BY <1>0, WorkerAt, Channels DEF ProviderAccepts, ProviderFails, At
  <1>2. mailed \in [Email -> Nat] /\ \A e \in Email : mailed[e] \in {0, 1}
    BY DEF DeliveriesInv, TypeOK, EffectsOnce
  <1>3. \/ Go(w, "mailed") /\ mailed' = Accepted(d)
        \/ Go(w, "mailfailed") /\ mailed' \in {mailed, Accepted(d)}
    BY <1>0 DEF ProviderAccepts, ProviderFails
  <1>4. /\ mailed' \in [Email -> Nat]
        /\ \A e \in Email : mailed'[e] \in {0, 1} /\ (mailed[e] = 1 => mailed'[e] = 1)
    BY <1>2, <1>3 DEF Accepted
  <1>5. /\ process' \in [Processes -> ProcessType] /\ process'[w].at = d
        /\ process'[w].attempts = process[w].attempts
        /\ \A q \in Processes : q # w => process'[q] = process[q]
        /\ \/ process'[w].phase = "mailed" /\ mailed'[d] = 1
           \/ process'[w].phase = "mailfailed"
    <2>1. CASE Go(w, "mailed") /\ mailed' = Accepted(d)
      <3>1. mailed'[d] = 1
        BY <1>2, <2>1 DEF Accepted
      <3>2. QED BY <1>0, <1>1, <2>1, <3>1, ProcessGoes DEF DeliveriesInv
    <2>2. CASE Go(w, "mailfailed")
      BY <1>0, <1>1, <2>2, ProcessGoes DEF DeliveriesInv
    <2>3. QED BY <1>3, <2>1, <2>2
  <1>6. Knows(w)'
    BY <1>1, <1>5 DEF Knows, WorkerKnows
  <1>7. TypeOK' /\ EffectsOnce' /\ RecordsTrue' /\ ChannelsGrow(w)
    BY <1>1, <1>4, <1>5 DEF DeliveriesInv, TypeOK, EffectsOnce, RecordsTrue, ChannelsGrow
  <1>8. QED BY <1>1, <1>5, <1>6, <1>7, ChannelStep

\* The record of an e-mail is written after the provider has answered, or has not.
LEMMA RecordKeeps ==
    ASSUME DeliveriesInv, NEW w \in Workers, RecordSent(w) \/ RecordFailed(w)
    PROVE  DeliveriesInv'
  <1>0. PICK d \in Email : d = process[w].at
    BY WorkerAt DEF RecordSent, RecordFailed, At, WorkerKnows
  <1>1. /\ w \in Processes /\ w \notin Scans /\ d \in Local /\ d \notin InApp
        /\ process[w].attempts <= row[d].attempts
        /\ UNCHANGED <<row, notice, published, mailed, receipt, sent, faults, requeues>>
    BY <1>0, WorkerAt, Channels DEF RecordSent, RecordFailed, At
  <1>2. \/ /\ Ends(w, "answered", "DELIVERED") /\ mailed[d] = 1
           /\ record' = [record EXCEPT ![d] = "SENT"]
        \/ /\ Ends(w, "failing", "RETRYABLE_FAILURE")
           /\ record' \in {record, [record EXCEPT ![d] = "FAILED"]}
    BY <1>0, WorkerAt DEF RecordSent, RecordFailed, At, WorkerKnows
  <1>3. /\ process' \in [Processes -> ProcessType] /\ process'[w].at = d
        /\ process'[w].attempts = process[w].attempts
        /\ \A q \in Processes : q # w => process'[q] = process[q]
        /\ \/ process'[w].phase = "answered" /\ process'[w].outcome = "DELIVERED" /\ mailed[d] = 1
           \/ process'[w].phase = "failing" /\ process'[w].outcome = "RETRYABLE_FAILURE"
    <2>1. CASE Ends(w, "answered", "DELIVERED") /\ mailed[d] = 1
      BY <1>0, <1>1, <2>1, ProcessAnswers DEF DeliveriesInv
    <2>2. CASE Ends(w, "failing", "RETRYABLE_FAILURE")
      BY <1>0, <1>1, <2>2, ProcessAnswers DEF DeliveriesInv
    <2>3. QED BY <1>2, <2>1, <2>2
  <1>4. /\ record' \in [Email -> {"NONE", "PENDING", "SENT", "FAILED"}]
        /\ \A e \in Email : record'[e] = "SENT" => record[e] = "SENT" \/ mailed[e] = 1
    BY <1>2 DEF DeliveriesInv, TypeOK
  <1>5. Knows(w)'
    BY <1>1, <1>3 DEF Knows, WorkerKnows
  <1>6. TypeOK' /\ EffectsOnce' /\ RecordsTrue' /\ ChannelsGrow(w)
    BY <1>1, <1>3, <1>4 DEF DeliveriesInv, TypeOK, EffectsOnce, RecordsTrue, ChannelsGrow
  <1>7. QED BY <1>1, <1>3, <1>5, <1>6, ChannelStep

\* A worker closes a row as delivered, or fails it, knowing what it did for it.
LEMMA SuccessKeeps ==
    ASSUME DeliveriesInv, NEW w \in Workers, Success(w)
    PROVE  DeliveriesInv'
  <1>0. PICK d \in Local : d = process[w].at
    BY WorkerAt DEF Success, At
  <1>1. /\ w \in Processes /\ d \in Deliveries /\ d \notin Discord
        /\ UNCHANGED channels /\ UNCHANGED <<faults, requeues>>
        /\ d \in InApp => notice[d] = 1
        /\ d \in Email => mailed[d] = 1
        /\ row' = [row EXCEPT ![d] = Delivered(row[d])] \/ row' = row
    BY <1>0, WorkerAt, Channels DEF Success, At, WorkerKnows, Write
  <1>2. row[d] \in DeliveryRow /\ row[d].attempts \in Nat
    BY <1>1 DEF DeliveriesInv, TypeOK, DeliveryRow
  <1>3. /\ Delivered(row[d]) \in DeliveryRow /\ Delivered(row[d]).status = "DELIVERED"
        /\ Delivered(row[d]).attempts >= row[d].attempts
    BY <1>2, RowClosed DEF Delivered
  <1>4. /\ row' \in [Deliveries -> DeliveryRow] /\ AttemptsStay
        /\ \A e \in Deliveries : RowSound(e)'
    BY <1>1, <1>3, RowWritten
  <1>5. /\ process' \in [Processes -> ProcessType]
        /\ process'[w].phase = "looping" /\ Knows(w)'
        /\ \A q \in Processes : q # w => process'[q] = process[q]
    BY <1>1, NextClaims DEF Success, DeliveriesInv
  <1>6. QED BY <1>1, <1>4, <1>5, RowStep DEF DeliveriesInv, TypeOK

\* A failure is terminal only for invalid deliveries and counted attempts.
LEMMA FailureKeeps ==
    ASSUME DeliveriesInv, NEW w \in Workers, Failure(w)
    PROVE  DeliveriesInv'
  <1>0. PICK d \in Local : d = process[w].at
    BY WorkerAt DEF Failure, At
  <1>1. /\ w \in Processes /\ d \in Deliveries /\ d \notin Discord
        /\ UNCHANGED channels /\ UNCHANGED <<faults, requeues>>
        /\ process[w].attempts <= row[d].attempts
        /\ process[w].outcome = "NON_RETRYABLE_FAILURE" => d \in Invalid
        /\ row' = [row EXCEPT ![d] = Failed(row[d], Terminal(w))] \/ row' = row
    BY <1>0, WorkerAt, Channels DEF Failure, At, WorkerKnows, Write
  <1>2. row[d] \in DeliveryRow /\ row[d].attempts \in Nat /\ process[w].attempts \in Nat
    BY <1>1 DEF DeliveriesInv, TypeOK, DeliveryRow, ProcessType
  <1> DEFINE new == Failed(row[d], Terminal(w))
  <1>3. /\ new \in DeliveryRow /\ new.attempts = row[d].attempts
        /\ new.status # "DELIVERED"
        /\ new.status = "DEAD_LETTER" => Terminal(w)
    BY <1>2, RowClosed DEF Failed
  <1>4. Terminal(w) => d \in Invalid \/ row[d].attempts >= MaxAttempts
    BY <1>1, <1>2 DEF Terminal
  <1>5. row' = [row EXCEPT ![d] = new] \/ row' = row
    BY <1>1
  <1> HIDE DEF new
  <1>6. new.attempts >= row[d].attempts
    BY <1>2, <1>3
  <1>7. /\ row' \in [Deliveries -> DeliveryRow] /\ AttemptsStay
        /\ \A e \in Deliveries : RowSound(e)'
    BY <1>1, <1>3, <1>4, <1>5, <1>6, RowWritten
  <1>8. /\ process' \in [Processes -> ProcessType]
        /\ process'[w].phase = "looping" /\ Knows(w)'
        /\ \A q \in Processes : q # w => process'[q] = process[q]
    BY <1>1, NextClaims DEF Failure, DeliveriesInv
  <1>9. QED BY <1>1, <1>7, <1>8, RowStep DEF DeliveriesInv, TypeOK

\* Every step of a worker keeps the invariant.
LEMMA WorkerKeeps ==
    ASSUME DeliveriesInv, NEW w \in Workers, WorkerStep(w)
    PROVE  DeliveriesInv'
  <1>1. CASE ClaimBatch(w)
    BY <1>1, ClaimKeeps, Channels DEF ClaimBatch
  <1>2. CASE ~ClaimBatch(w)
    BY <1>2, BeginKeeps, RefuseKeeps, CreateNotificationKeeps, PublishCreatedKeeps,
       PrepareEmailKeeps, ProviderKeeps, RecordKeeps, SuccessKeeps, FailureKeeps DEF WorkerStep
  <1>3. QED BY <1>1, <1>2

----------------------------------------------------------------------------
(* Each step of a scan of the bot keeps the invariant. *)

\* Of a scan that is at a delivery.
LEMMA ScanAt ==
    ASSUME DeliveriesInv, NEW s \in Scans, process[s].phase # "looping"
    PROVE  /\ s \in Processes /\ s \notin Workers /\ ScanKnows(s)
           /\ process[s].at \in Discord /\ process[s].at \in Deliveries
  BY Channels DEF DeliveriesInv, Knows, ScanKnows

\* A suppressed row is neither delivered nor given up.
LEMMA SuppressKeeps ==
    ASSUME DeliveriesInv, NEW s \in Scans, NEW d \in Discord, Suppress(s, d)
    PROVE  DeliveriesInv'
  <1>1. /\ s \in Processes /\ d \in Deliveries
        /\ UNCHANGED channels /\ UNCHANGED <<faults, requeues>>
        /\ row' = [row EXCEPT ![d] = Suppressed(row[d])] \/ row' = row
        /\ At(s, "looping") /\ Drops(s, d)
    BY Channels DEF Suppress, Write
  <1>2. row[d] \in DeliveryRow /\ row[d].attempts \in Nat
    BY <1>1 DEF DeliveriesInv, TypeOK, DeliveryRow
  <1>3. /\ Suppressed(row[d]) \in DeliveryRow /\ Suppressed(row[d]).status = "SUPPRESSED"
        /\ Suppressed(row[d]).attempts >= row[d].attempts
    BY <1>2, RowClosed DEF Suppressed
  <1>4. /\ row' \in [Deliveries -> DeliveryRow] /\ AttemptsStay
        /\ \A e \in Deliveries : RowSound(e)'
    BY <1>1, <1>3, RowWritten
  <1>5. /\ process' \in [Processes -> ProcessType]
        /\ process'[s].phase = "looping" /\ Knows(s)'
        /\ \A q \in Processes : q # s => process'[q] = process[q]
    BY <1>1, ClaimDropped DEF DeliveriesInv
  <1>6. QED BY <1>1, <1>4, <1>5, RowStep DEF DeliveriesInv, TypeOK

\* A scan believes a receipt that says DELIVERED, and the receipt is true.
LEMMA ReadReceiptKeeps ==
    ASSUME DeliveriesInv, NEW s \in Scans, NEW d \in Discord, ReadReceipt(s, d)
    PROVE  DeliveriesInv'
  <1> DEFINE phase == IF AlreadySent(d) THEN "answered" ELSE "sending"
             new == [process[s] EXCEPT !.at = d, !.phase = phase, !.outcome = "DELIVERED"]
  <1>1. /\ s \in Processes /\ s \notin Workers /\ d \in Deliveries
        /\ receipt' = [receipt EXCEPT ![d] = IF @ = "NONE" THEN "PENDING" ELSE @]
        /\ UNCHANGED <<row, notice, published, record, mailed, sent, faults, requeues>>
    BY Channels DEF ReadReceipt
  <1>2. process[s] \in ProcessType /\ process' = [process EXCEPT ![s] = new]
    <2>1. process[s] \in ProcessType /\ process \in [Processes -> ProcessType]
      BY <1>1 DEF DeliveriesInv, TypeOK
    <2>2. process' = [process EXCEPT ![s].at = d, ![s].phase = phase, ![s].outcome = "DELIVERED"]
      BY DEF ReadReceipt
    <2> HIDE DEF phase
    <2>3. QED BY <1>1, <2>1, <2>2
  <1>3. phase \in {"answered", "sending"} /\ (phase = "answered" => receipt[d] = "DELIVERED")
    BY DEF AlreadySent
  <1> HIDE DEF phase
  <1>4. /\ new \in ProcessType /\ new.at = d /\ new.phase = phase
        /\ new.outcome = "DELIVERED"
    BY <1>1, <1>2, <1>3, Channels DEF ProcessType
  <1> HIDE DEF new
  <1>5. /\ process' \in [Processes -> ProcessType] /\ process'[s] = new
        /\ \A q \in Processes : q # s => process'[q] = process[q]
    BY <1>1, <1>2, <1>4 DEF DeliveriesInv, TypeOK
  <1>6. receipt[d] = "DELIVERED" => sent[d] > 0
    BY DEF DeliveriesInv, RecordsTrue
  <1>7. Knows(s)'
    BY <1>1, <1>3, <1>4, <1>5, <1>6 DEF Knows, ScanKnows
  <1>8. TypeOK' /\ EffectsOnce' /\ RecordsTrue' /\ ChannelsGrow(s)
    BY <1>1, <1>5 DEF DeliveriesInv, TypeOK, EffectsOnce, RecordsTrue, ChannelsGrow
  <1>9. QED BY <1>1, <1>5, <1>7, <1>8, ChannelStep

\* Sending, and what becomes of the receipt.
LEMMA SendingKeeps ==
    ASSUME DeliveriesInv, NEW s \in Scans,
           Send(s) \/ SendFails(s) \/ CompleteReceipt(s) \/ FailReceipt(s)
    PROVE  DeliveriesInv'
  <1>0. PICK d \in Discord : d = process[s].at
    BY ScanAt DEF Send, SendFails, CompleteReceipt, FailReceipt, At
  <1>1. /\ s \in Processes /\ s \notin Workers /\ ScanKnows(s)
        /\ UNCHANGED <<row, notice, published, record, mailed, faults, requeues>>
    BY ScanAt DEF Send, SendFails, CompleteReceipt, FailReceipt, At, channels
  <1>2. /\ sent \in [Discord -> Nat]
        /\ receipt \in [Discord -> {"NONE", "PENDING", "DELIVERED", "RETRYABLE_FAILURE",
                                    "DESTINATION_UNAVAILABLE"}]
    BY DEF DeliveriesInv, TypeOK
  <1>3. CASE Send(s)
    <2>1. /\ sent' = [sent EXCEPT ![d] = @ + 1] /\ receipt' = receipt /\ Go(s, "sent")
      BY <1>0, <1>3 DEF Send
    <2>2. /\ sent' \in [Discord -> Nat] /\ sent'[d] > 0
          /\ \A e \in Discord : sent[e] > 0 => sent'[e] > 0
      BY <1>2, <2>1
    <2>3. /\ process' \in [Processes -> ProcessType] /\ process'[s].at = d
          /\ process'[s].phase = "sent"
          /\ \A q \in Processes : q # s => process'[q] = process[q]
      BY <1>0, <1>1, <2>1, ProcessGoes DEF DeliveriesInv
    <2>4. Knows(s)'
      BY <1>1, <2>2, <2>3 DEF Knows, ScanKnows
    <2>5. TypeOK' /\ EffectsOnce' /\ RecordsTrue' /\ ChannelsGrow(s)
      BY <1>1, <2>1, <2>2, <2>3 DEF DeliveriesInv, TypeOK, EffectsOnce, RecordsTrue, ChannelsGrow
    <2>6. QED BY <1>1, <2>3, <2>4, <2>5, ChannelStep
  <1>4. CASE SendFails(s)
    <2>1. /\ UNCHANGED <<sent, receipt>>
          /\ \E code \in {"DESTINATION_UNAVAILABLE", "RETRYABLE_FAILURE"} : Ends(s, "failing", code)
      BY <1>4 DEF SendFails, channels
    <2>2. /\ process' \in [Processes -> ProcessType] /\ process'[s].at = d
          /\ process'[s].phase = "failing"
          /\ process'[s].outcome \in {"DESTINATION_UNAVAILABLE", "RETRYABLE_FAILURE"}
          /\ \A q \in Processes : q # s => process'[q] = process[q]
      BY <1>0, <1>1, <2>1, ProcessAnswers DEF DeliveriesInv
    <2>3. Knows(s)'
      BY <1>1, <2>2 DEF Knows, ScanKnows
    <2>4. TypeOK' /\ EffectsOnce' /\ RecordsTrue' /\ ChannelsGrow(s)
      BY <1>1, <2>1, <2>2 DEF DeliveriesInv, TypeOK, EffectsOnce, RecordsTrue, ChannelsGrow
    <2>5. QED BY <1>1, <2>2, <2>3, <2>4, ChannelStep
  <1>5. CASE CompleteReceipt(s)
    <2>1. /\ sent' = sent /\ sent[d] > 0 /\ receipt' = [receipt EXCEPT ![d] = "DELIVERED"]
          /\ Ends(s, "answered", "DELIVERED")
      BY <1>0, <1>1, <1>5 DEF CompleteReceipt, At, ScanKnows
    <2>2. /\ process' \in [Processes -> ProcessType] /\ process'[s].at = d
          /\ process'[s].phase = "answered"
          /\ \A q \in Processes : q # s => process'[q] = process[q]
      BY <1>0, <1>1, <2>1, ProcessAnswers DEF DeliveriesInv
    <2>3. Knows(s)'
      BY <1>1, <2>1, <2>2 DEF Knows, ScanKnows
    <2>4. TypeOK' /\ EffectsOnce' /\ RecordsTrue' /\ ChannelsGrow(s)
      BY <1>1, <1>2, <2>1, <2>2 DEF DeliveriesInv, TypeOK, EffectsOnce, RecordsTrue, ChannelsGrow
    <2>5. QED BY <1>1, <2>2, <2>3, <2>4, ChannelStep
  <1>6. CASE FailReceipt(s)
    <2>1. /\ sent' = sent /\ receipt' = [receipt EXCEPT ![d] = process[s].outcome]
          /\ process[s].outcome \in {"DESTINATION_UNAVAILABLE", "RETRYABLE_FAILURE"}
          /\ Go(s, "answered")
      BY <1>0, <1>1, <1>6 DEF FailReceipt, At, ScanKnows
    <2>2. /\ process' \in [Processes -> ProcessType] /\ process'[s].at = d
          /\ process'[s].phase = "answered" /\ process'[s].outcome = process[s].outcome
          /\ \A q \in Processes : q # s => process'[q] = process[q]
      BY <1>0, <1>1, <2>1, ProcessGoes DEF DeliveriesInv
    <2>3. Knows(s)'
      BY <1>1, <2>1, <2>2 DEF Knows, ScanKnows
    <2>4. TypeOK' /\ EffectsOnce' /\ RecordsTrue' /\ ChannelsGrow(s)
      BY <1>1, <1>2, <2>1, <2>2 DEF DeliveriesInv, TypeOK, EffectsOnce, RecordsTrue, ChannelsGrow
    <2>5. QED BY <1>1, <2>2, <2>3, <2>4, ChannelStep
  <1>7. QED BY <1>3, <1>4, <1>5, <1>6

\* The server closes the row as the scan's outcome says, which is true.
LEMMA AcknowledgeKeeps ==
    ASSUME DeliveriesInv, NEW s \in Scans, Acknowledge(s)
    PROVE  DeliveriesInv'
  <1>0. PICK d \in Discord : d = process[s].at
    BY ScanAt DEF Acknowledge, At
  <1>1. /\ s \in Processes /\ d \in Deliveries
        /\ UNCHANGED channels /\ UNCHANGED <<faults, requeues>>
        /\ d \notin InApp /\ d \notin Email
        /\ process[s].outcome = "DELIVERED" => sent[d] > 0
    BY <1>0, ScanAt, Channels DEF Acknowledge, At, ScanKnows
  <1>2. row[d] \in DeliveryRow /\ row[d].attempts \in Nat
    BY <1>1 DEF DeliveriesInv, TypeOK, DeliveryRow
  <1> DEFINE given == IF GivenUp(d) THEN "DEAD_LETTER" ELSE "PENDING"
  <1>3. \E status \in {"DELIVERED", given, "SUPPRESSED"} :
            /\ status = "DELIVERED" => process[s].outcome = "DELIVERED"
            /\ row' = [row EXCEPT ![d] = Closed(row[d], status)] \/ row' = row
    BY <1>0 DEF Acknowledge, Write, Delivered, Failed, Suppressed
  <1>4. PICK status \in {"DELIVERED", "PENDING", "DEAD_LETTER", "SUPPRESSED"} :
            /\ status = "DELIVERED" => process[s].outcome = "DELIVERED"
            /\ status = "DEAD_LETTER" => GivenUp(d)
            /\ row' = [row EXCEPT ![d] = Closed(row[d], status)] \/ row' = row
    BY <1>3
  <1>5. /\ Closed(row[d], status) \in DeliveryRow /\ Closed(row[d], status).status = status
        /\ Closed(row[d], status).attempts = row[d].attempts
        /\ Closed(row[d], status).attempts >= row[d].attempts
    BY <1>2, RowClosed
  <1>6. GivenUp(d) => row[d].attempts >= DiscordMaxAttempts
    BY DEF GivenUp
  <1>7. /\ row' \in [Deliveries -> DeliveryRow] /\ AttemptsStay
        /\ \A e \in Deliveries : RowSound(e)'
    BY <1>1, <1>4, <1>5, <1>6, RowWritten
  <1>8. /\ process' \in [Processes -> ProcessType]
        /\ process'[s].phase = "looping" /\ Knows(s)'
        /\ \A q \in Processes : q # s => process'[q] = process[q]
    BY <1>1, NextClaims DEF Acknowledge, DeliveriesInv
  <1>9. QED BY <1>1, <1>7, <1>8, RowStep DEF DeliveriesInv, TypeOK

\* Every step of a scan, its users' changes included, keeps the invariant.
LEMMA ScanKeeps ==
    ASSUME DeliveriesInv, NEW s \in Scans, ScanStep(s)
    PROVE  DeliveriesInv'
  <1>1. CASE Pull(s)
    BY <1>1, ClaimKeeps, Channels DEF Pull
  <1>2. CASE ~Pull(s)
    BY <1>2, ReadReceiptKeeps, SendingKeeps, AcknowledgeKeeps DEF ScanStep
  <1>3. QED BY <1>1, <1>2

----------------------------------------------------------------------------
(* Faults, the clock and operators *)

\* A fault leaves the count of faults within its bound.
LEMMA FaultCounted ==
    ASSUME TypeOK, Fault
    PROVE  faults' \in 0 .. MaxFaults
  BY DEF TypeOK, Fault

\* Rows that are not written stay justified.
LEMMA RowsUntouched ==
    ASSUME DeliveriesInv, UNCHANGED <<channels, row>>
    PROVE  AttemptsStay /\ \A d \in Deliveries : RowSound(d)'
  <1>1. UNCHANGED <<notice, mailed, sent>>
    BY DEF channels
  <1>2. \A d \in Deliveries : RowSound(d)'
    BY <1>1 DEF DeliveriesInv, RowSound
  <1>3. AttemptsStay
    BY DEF AttemptsStay, DeliveriesInv, TypeOK, DeliveryRow
  <1>4. QED BY <1>2, <1>3

\* A process that dies forgets its batch and changes no row.
LEMMA BatchDiesKeeps ==
    ASSUME DeliveriesInv, NEW p \in Processes, BatchDies(p)
    PROVE  DeliveriesInv'
  <1>1. UNCHANGED channels /\ UNCHANGED row /\ requeues' = requeues /\ faults' \in 0 .. MaxFaults
    BY FaultCounted DEF BatchDies, DeliveriesInv
  <1>2. Idle \in ProcessType /\ Idle.phase = "looping"
    BY DEF Idle, Looping, ProcessType
  <1>3. /\ process' \in [Processes -> ProcessType] /\ process'[p].phase = "looping"
        /\ \A q \in Processes : q # p => process'[q] = process[q]
    BY <1>2 DEF BatchDies, DeliveriesInv, TypeOK
  <1>4. Knows(p)'
    BY <1>3, LoopingKnows
  <1>5. QED BY <1>1, <1>3, <1>4, RowsUntouched, RowStep DEF DeliveriesInv, TypeOK

\* A mail that went out without its record is taken for failed.
LEMMA RecordSentThrowsKeeps ==
    ASSUME DeliveriesInv, NEW w \in Workers, RecordSentThrows(w)
    PROVE  DeliveriesInv'
  <1>0. PICK d \in Email : d = process[w].at
    BY WorkerAt DEF RecordSentThrows, At, WorkerKnows
  <1>1. /\ w \in Processes /\ w \notin Scans /\ d \in Local /\ d \notin InApp
        /\ process[w].attempts <= row[d].attempts
        /\ UNCHANGED <<row, notice, published, record, mailed, receipt, sent, requeues>>
        /\ UNCHANGED channels /\ faults' \in 0 .. MaxFaults /\ Go(w, "mailfailed")
    BY <1>0, WorkerAt, Channels, FaultCounted
       DEF RecordSentThrows, At, channels, DeliveriesInv
  <1>2. /\ process' \in [Processes -> ProcessType] /\ process'[w].at = d
        /\ process'[w].attempts = process[w].attempts
        /\ process'[w].phase = "mailfailed"
        /\ \A q \in Processes : q # w => process'[q] = process[q]
    BY <1>0, <1>1, ProcessGoes DEF DeliveriesInv
  <1>3. Knows(w)'
    BY <1>1, <1>2 DEF Knows, WorkerKnows
  <1>4. QED BY <1>1, <1>2, <1>3, RowsUntouched, RowStep DEF DeliveriesInv, TypeOK

\* A direct message that went out unnoticed is taken for failed.
LEMMA SentUnnoticedKeeps ==
    ASSUME DeliveriesInv, NEW s \in Scans, SentUnnoticed(s)
    PROVE  DeliveriesInv'
  <1>0. PICK d \in Discord : d = process[s].at
    BY ScanAt DEF SentUnnoticed, At
  <1>1. /\ s \in Processes /\ s \notin Workers /\ UNCHANGED channels /\ UNCHANGED <<row, requeues>>
        /\ faults' \in 0 .. MaxFaults /\ Ends(s, "failing", "RETRYABLE_FAILURE")
    BY ScanAt, FaultCounted DEF SentUnnoticed, At, DeliveriesInv
  <1>2. /\ process' \in [Processes -> ProcessType] /\ process'[s].at = d
        /\ process'[s].phase = "failing" /\ process'[s].outcome = "RETRYABLE_FAILURE"
        /\ \A q \in Processes : q # s => process'[q] = process[q]
    BY <1>0, <1>1, ProcessAnswers DEF DeliveriesInv
  <1>3. Knows(s)'
    BY <1>1, <1>2 DEF Knows, ScanKnows
  <1>4. QED BY <1>1, <1>2, <1>3, RowsUntouched, RowStep DEF DeliveriesInv, TypeOK

\* A lost acknowledgement leaves a true receipt behind.
LEMMA AcknowledgementLostKeeps ==
    ASSUME DeliveriesInv, NEW s \in Scans, AcknowledgementLost(s)
    PROVE  DeliveriesInv'
  <1>1. /\ s \in Processes /\ UNCHANGED channels /\ UNCHANGED <<row, requeues>>
        /\ faults' \in 0 .. MaxFaults /\ NextClaim(s)
    BY ScanAt, FaultCounted DEF AcknowledgementLost, At, DeliveriesInv
  <1>2. /\ process' \in [Processes -> ProcessType] /\ process'[s].phase = "looping" /\ Knows(s)'
        /\ \A q \in Processes : q # s => process'[q] = process[q]
    BY <1>1, NextClaims DEF DeliveriesInv
  <1>3. QED BY <1>1, <1>2, RowsUntouched, RowStep DEF DeliveriesInv, TypeOK

\* Backoffs and leases end, and operators requeue.
LEMMA ClockKeeps ==
    ASSUME DeliveriesInv, NEW d \in Deliveries,
           TimePasses(d) \/ LeaseOvertaken(d) \/ RequeueDelivery(d)
    PROVE  DeliveriesInv'
  <1>1. row[d] \in DeliveryRow /\ row[d].attempts \in Nat
    BY DEF DeliveriesInv, TypeOK, DeliveryRow
  <1>2. /\ UNCHANGED <<channels, process>>
        /\ faults' \in 0 .. MaxFaults /\ requeues' \in 0 .. MaxRequeues
    BY FaultCounted DEF TimePasses, LeaseOvertaken, RequeueDelivery, DeliveriesInv, TypeOK
  <1>3. \/ /\ row[d].status \in {"PENDING", "PROCESSING"}
           /\ row' = [row EXCEPT ![d] = [row[d] EXCEPT !.due = TRUE]]
        \/ row' = [row EXCEPT ![d] = Requeued(row[d])]
    BY DEF TimePasses, LeaseOvertaken, RequeueDelivery, Current, Owned, DeliveriesInv, TypeOK
  <1>4. PICK new \in DeliveryRow :
            /\ new.status \in {"PENDING", "PROCESSING"} /\ new.attempts >= row[d].attempts
            /\ row' = [row EXCEPT ![d] = new]
    <2>1. CASE /\ row[d].status \in {"PENDING", "PROCESSING"}
               /\ row' = [row EXCEPT ![d] = [row[d] EXCEPT !.due = TRUE]]
      <3> DEFINE due == [row[d] EXCEPT !.due = TRUE]
      <3>1. /\ due \in DeliveryRow /\ due.status = row[d].status
            /\ due.attempts = row[d].attempts
        BY <1>1 DEF DeliveryRow
      <3> HIDE DEF due
      <3>2. due.attempts >= row[d].attempts
        BY <1>1, <3>1
      <3>3. QED BY <2>1, <3>1, <3>2 DEF due
    <2>2. CASE row' = [row EXCEPT ![d] = Requeued(row[d])]
      <3>1. /\ Requeued(row[d]) \in DeliveryRow /\ Requeued(row[d]).status = "PENDING"
            /\ Requeued(row[d]).attempts >= row[d].attempts
        BY <1>1, RowRequeued
      <3>2. QED BY <2>2, <3>1
    <2>3. QED BY <1>3, <2>1, <2>2
  <1>5. /\ row' \in [Deliveries -> DeliveryRow] /\ AttemptsStay
        /\ \A e \in Deliveries : RowSound(e)'
    BY <1>2, <1>4, RowWritten
  <1>6. QED BY <1>2, <1>5, ClockStep

----------------------------------------------------------------------------
(* The invariant *)

\* The invariant holds when events have been routed and nobody has begun.
LEMMA DeliveriesInvInit == Init => DeliveriesInv
  <1> SUFFICES ASSUME Init PROVE DeliveriesInv
    OBVIOUS
  <1>1. PICK route \in Routes : \E off \in SUBSET route : row = Created(route, off)
    BY DEF Init
  <1>2. PICK off \in SUBSET route : row = Created(route, off)
    BY <1>1
  <1>3. /\ NoRow \in DeliveryRow /\ NewRow \in DeliveryRow /\ Suppressed(NewRow) \in DeliveryRow
        /\ NoRow.status = "NONE" /\ NewRow.status = "PENDING"
        /\ Suppressed(NewRow).status = "SUPPRESSED"
    <2>1. NoRow \in DeliveryRow /\ NoRow.status = "NONE"
      BY DEF NoRow, DeliveryRow
    <2>2. NewRow \in DeliveryRow /\ NewRow.status = "PENDING"
      BY <2>1 DEF NewRow, DeliveryRow
    <2>3. Suppressed(NewRow) \in DeliveryRow /\ Suppressed(NewRow).status = "SUPPRESSED"
      BY <2>2, RowClosed DEF Suppressed
    <2>4. QED BY <2>1, <2>2, <2>3
  <1>4. /\ row \in [Deliveries -> DeliveryRow]
        /\ \A d \in Deliveries : row[d].status \in {"NONE", "PENDING", "SUPPRESSED"}
    BY <1>2, <1>3 DEF Created
  <1>5. Idle \in ProcessType /\ Idle.phase = "looping"
    BY DEF Idle, Looping, ProcessType
  <1>6. TypeOK
    BY <1>4, <1>5 DEF Init, TypeOK
  <1>7. EffectsOnce /\ RecordsTrue
    BY DEF Init, EffectsOnce, RecordsTrue
  <1>8. \A d \in Deliveries : RowSound(d)
    BY <1>4 DEF RowSound
  <1>9. /\ \A p \in Processes : process[p].phase = "looping"
        /\ OnePublisher
    BY <1>5, Channels DEF Init, OnePublisher
  <1>10. \A p \in Processes : Knows(p)
    BY <1>9 DEF Knows, WorkerKnows, ScanKnows
  <1>11. QED BY <1>6, <1>7, <1>8, <1>9, <1>10 DEF DeliveriesInv

\* Every step keeps the invariant; one case for each kind of actor.
LEMMA DeliveriesInvNext == DeliveriesInv /\ [Next]_vars => DeliveriesInv'
  <1> SUFFICES ASSUME DeliveriesInv, [Next]_vars PROVE DeliveriesInv'
    OBVIOUS
  <1>1. CASE \E w \in Workers : WorkerStep(w) \/ RecordSentThrows(w)
    BY <1>1, WorkerKeeps, RecordSentThrowsKeeps
  <1>2. CASE \E s \in Scans : ScanStep(s) \/ SentUnnoticed(s) \/ AcknowledgementLost(s)
    BY <1>2, ScanKeeps, SentUnnoticedKeeps, AcknowledgementLostKeeps
  <1>3. CASE \E s \in Scans, d \in Discord : Suppress(s, d)
    BY <1>3, SuppressKeeps
  <1>4. CASE \E p \in Processes : BatchDies(p)
    BY <1>4, BatchDiesKeeps
  <1>5. CASE \E d \in Deliveries : TimePasses(d) \/ LeaseOvertaken(d) \/ RequeueDelivery(d)
    BY <1>5, ClockKeeps
  <1>6. CASE UNCHANGED vars
    <2>1. UNCHANGED <<channels, process>> /\ UNCHANGED <<row, faults, requeues>>
      BY <1>6 DEF vars
    <2>2. QED BY <2>1, RowsUntouched, ClockStep DEF DeliveriesInv, TypeOK
  <1>7. QED BY <1>1, <1>2, <1>3, <1>4, <1>5, <1>6 DEF Next

\* Every step of workers, scans, faults, the clock and operators keeps the inductive
\* invariant, for any deliveries and processes.
THEOREM DeliveriesInvariant == Spec => []DeliveriesInv
  BY DeliveriesInvInit, DeliveriesInvNext, PTL DEF Spec

\* The delivery rows, what processes hold of them and the channels have their types.
THEOREM DeliveryTypes == Spec => []TypeOK
  <1>1. DeliveriesInv => TypeOK
    BY DEF DeliveriesInv
  <1>2. QED BY <1>1, DeliveriesInvariant, PTL

\* The unique delivery id and the idempotency key do their work against every
\* interleaving of workers whose leases overtake each other.
THEOREM EffectsOnceAlways == Spec => []EffectsOnce
  <1>1. DeliveriesInv => EffectsOnce
    BY DEF DeliveriesInv
  <1>2. QED BY <1>1, DeliveriesInvariant, PTL

\* No worker and no scan marks as delivered what did not reach its user.
THEOREM DeliveredWasDeliveredAlways == Spec => []DeliveredWasDelivered
  <1>1. DeliveriesInv => DeliveredWasDelivered
    BY DEF DeliveriesInv, RowSound, DeliveredWasDelivered
  <1>2. QED BY <1>1, DeliveriesInvariant, PTL

\* No delivery is given up before its attempts, on either channel's way of counting.
THEOREM GivenUpJustifiedAlways == Spec => []GivenUpJustified
  <1>1. DeliveriesInv => GivenUpJustified
    BY DEF DeliveriesInv, RowSound, GivenUpJustified
  <1>2. QED BY <1>1, DeliveriesInvariant, PTL

----------------------------------------------------------------------------
(* The fences *)

\* Every write of a row asks for its claim, its lease, or its dead letter.
LEMMA ClosedStays ==
    ASSUME TypeOK, Next, NEW d \in Deliveries, row[d].status \in {"DELIVERED", "SUPPRESSED"}
    PROVE  row'[d] = row[d]
  <1>1. ~Claimable(row[d]) /\ \A p \in Processes : ~Current(p, d)
    BY DEF Claimable, Current, Owned
  <1>2. ASSUME NEW p \in Processes, NEW e \in Deliveries, NEW new, Write(p, e, new)
        PROVE  row'[d] = row[d]
    BY <1>1, <1>2 DEF Write, TypeOK
  <1>3. ASSUME NEW p \in Processes, NEW deliveries \in SUBSET Deliveries, NEW counted,
               Claim(p, deliveries, counted)
        PROVE  row'[d] = row[d]
    BY <1>1, <1>3 DEF Claim
  <1>4. CASE \E w \in Workers : WorkerStep(w) \/ RecordSentThrows(w)
    <2>1. PICK w \in Workers : WorkerStep(w) \/ RecordSentThrows(w)
      BY <1>4
    <2>2. CASE ClaimBatch(w)
      BY <1>3, <2>2, Channels DEF ClaimBatch
    <2>3. CASE \E e \in Local : Begin(w, e)
      BY <1>1, <2>3, Channels DEF Begin, TypeOK
    <2>4. CASE UNCHANGED row
      BY <2>4
    <2>5. CASE Success(w) \/ Failure(w)
      <3>1. \E new : Write(w, process[w].at, new)
        BY <2>5 DEF Success, Failure
      <3>2. QED BY <1>1, <3>1, Channels DEF Write, TypeOK
    <2>6. QED BY <2>1, <2>2, <2>3, <2>4, <2>5
              DEF WorkerStep, Refuse, CreateNotification, PublishCreated, PrepareEmail,
                  ProviderAccepts, ProviderFails, RecordSent, RecordFailed, RecordSentThrows
  <1>5. CASE \E s \in Scans : ScanStep(s) \/ SentUnnoticed(s) \/ AcknowledgementLost(s)
    <2>1. PICK s \in Scans : ScanStep(s) \/ SentUnnoticed(s) \/ AcknowledgementLost(s)
      BY <1>5
    <2>2. CASE Pull(s)
      BY <1>3, <2>2, Channels DEF Pull
    <2>3. CASE UNCHANGED row
      BY <2>3
    <2>4. CASE Acknowledge(s)
      <3>1. \E new : Write(s, process[s].at, new)
        BY <2>4 DEF Acknowledge
      <3>2. QED BY <1>1, <3>1, Channels DEF Write, TypeOK
    <2>5. QED BY <2>1, <2>2, <2>3, <2>4
              DEF ScanStep, ReadReceipt, Send, SendFails, CompleteReceipt, FailReceipt,
                  SentUnnoticed, AcknowledgementLost
  <1>6. CASE \E s \in Scans, e \in Discord : Suppress(s, e)
    BY <1>2, <1>6, Channels DEF Suppress
  <1>7. CASE \E p \in Processes : BatchDies(p)
    BY <1>7 DEF BatchDies
  <1>8. CASE \E e \in Deliveries : TimePasses(e) \/ LeaseOvertaken(e) \/ RequeueDelivery(e)
    BY <1>1, <1>8 DEF TimePasses, LeaseOvertaken, RequeueDelivery, TypeOK
  <1>9. QED BY <1>4, <1>5, <1>6, <1>7, <1>8 DEF Next

\* Late workers, late acknowledgements and operators never reopen or change what was
\* delivered or suppressed.
THEOREM ClosedForGoodAlways == Spec => ClosedForGood
  <1>1. TypeOK /\ [Next]_vars =>
            [\A d \in Deliveries :
                row[d].status \in {"DELIVERED", "SUPPRESSED"} => row'[d] = row[d]]_vars
    BY ClosedStays
  <1>2. QED BY <1>1, DeliveryTypes, PTL DEF Spec, ClosedForGood

----------------------------------------------------------------------------
(* Repeated direct messages.  A message that may still go out is owed by a   *)
(* scan that has not sent it, or sits in a row that some scan may claim; a   *)
(* fault adds one to what was sent and is owed, and nothing else does.       *)

\* A scan with the memory r may yet send d, or report it unsent.
Owes(r, d) ==
    IF r.phase = "looping" \/ r.at # d THEN r.tokens[d] # NoToken
    ELSE \/ r.phase \in {"sending", "failing"}
         \/ r.phase = "answered" /\ r.outcome # "DELIVERED"

Owing(d) == {s \in Scans : Owes(process[s], d)}

\* The row may be claimed without another fault.
Open(d) ==
    \/ row[d].status \in {"PENDING", "DEAD_LETTER"}
    \/ row[d].status = "PROCESSING" /\ (row[d].due \/ \A s \in Scans : ~Current(s, d))

Openings(d) == IF Open(d) THEN 1 ELSE 0

\* Inductive: of one delivery.
RepeatsCounted(d) ==
    /\ IsFiniteSet(Owing(d))
    /\ sent[d] + Cardinality(Owing(d)) + Openings(d) <= 1 + faults

\* What a step may do to one delivery without a fault: nothing that counts, a claim of an
\* open row by s, a message of s that goes out, or its failure.
Settles(d) ==
    /\ Owing(d)' \subseteq Owing(d) /\ sent'[d] = sent[d] /\ (Open(d)' => Open(d))
Claims(s, d) ==
    /\ Owing(d)' \subseteq Owing(d) \cup {s} /\ sent'[d] = sent[d] /\ Open(d) /\ ~Open(d)'
Sends(s, d) ==
    /\ s \in Owing(d) /\ Owing(d)' \subseteq Owing(d) \ {s}
    /\ sent'[d] = sent[d] + 1 /\ (Open(d)' => Open(d))
Reports(s, d) ==
    /\ s \in Owing(d) /\ Owing(d)' \subseteq Owing(d) \ {s} /\ sent'[d] = sent[d]

\* With a fault: one scan forgets what it has sent, or a row opens.
Errs(s, d) ==
    /\ faults' = faults + 1 /\ sent'[d] = sent[d]
    /\ \/ Owing(d)' \subseteq Owing(d) \cup {s} /\ (Open(d)' => Open(d))
       \/ Owing(d)' \subseteq Owing(d)

\* A set with at most one element more, or with one taken away.
LEMMA OneMore ==
    ASSUME NEW S, IsFiniteSet(S), NEW T
    PROVE  /\ Cardinality(S) \in Nat
           /\ T \subseteq S => IsFiniteSet(T) /\ Cardinality(T) <= Cardinality(S)
                               /\ Cardinality(T) \in Nat
           /\ \A x : T \subseteq S \cup {x} =>
                  IsFiniteSet(T) /\ Cardinality(T) <= Cardinality(S) + 1 /\ Cardinality(T) \in Nat
           /\ \A x \in S : T \subseteq S \ {x} =>
                  IsFiniteSet(T) /\ Cardinality(T) <= Cardinality(S) - 1 /\ Cardinality(T) \in Nat
  <1>1. Cardinality(S) \in Nat
    BY FS_CardinalityType
  <1>2. T \subseteq S => IsFiniteSet(T) /\ Cardinality(T) <= Cardinality(S)
                         /\ Cardinality(T) \in Nat
    BY FS_Subset, FS_CardinalityType
  <1>3. ASSUME NEW x, T \subseteq S \cup {x}
        PROVE  IsFiniteSet(T) /\ Cardinality(T) <= Cardinality(S) + 1 /\ Cardinality(T) \in Nat
    <2>1. /\ IsFiniteSet(S \cup {x})
          /\ Cardinality(S \cup {x}) = IF x \in S THEN Cardinality(S) ELSE Cardinality(S) + 1
      BY FS_AddElement
    <2>2. IsFiniteSet(T) /\ Cardinality(T) <= Cardinality(S \cup {x}) /\ Cardinality(T) \in Nat
      BY <1>3, <2>1, FS_Subset, FS_CardinalityType
    <2>3. QED BY <1>1, <2>1, <2>2
  <1>4. ASSUME NEW x \in S, T \subseteq S \ {x}
        PROVE  IsFiniteSet(T) /\ Cardinality(T) <= Cardinality(S) - 1 /\ Cardinality(T) \in Nat
    <2>1. IsFiniteSet(S \ {x}) /\ Cardinality(S \ {x}) = Cardinality(S) - 1
      BY FS_RemoveElement
    <2>2. IsFiniteSet(T) /\ Cardinality(T) <= Cardinality(S \ {x}) /\ Cardinality(T) \in Nat
      BY <1>4, <2>1, FS_Subset, FS_CardinalityType
    <2>3. QED BY <2>1, <2>2
  <1>5. QED BY <1>1, <1>2, <1>3, <1>4

\* Each of these leaves the count right.
LEMMA CountStays ==
    ASSUME NEW d \in Discord, TypeOK, TypeOK', RepeatsCounted(d), faults' >= faults,
           NEW s, Settles(d) \/ Claims(s, d) \/ Sends(s, d) \/ Reports(s, d) \/ Errs(s, d)
    PROVE  RepeatsCounted(d)'
  <1>1. sent[d] \in Nat /\ sent'[d] \in Nat /\ faults \in Int /\ faults' \in Int
    BY DEF TypeOK
  <1> DEFINE n == Cardinality(Owing(d))
             m == Cardinality(Owing(d)')
             i == Openings(d)
             j == Openings(d)'
  <1>2. IsFiniteSet(Owing(d)) /\ n \in Nat /\ sent[d] + n + i <= 1 + faults
    BY OneMore DEF RepeatsCounted
  <1>3. /\ i \in {0, 1} /\ j \in {0, 1} /\ (Open(d) => i = 1) /\ (~Open(d)' => j = 0)
        /\ (Open(d)' => Open(d)) => j <= i
    BY DEF Openings
  <1>4. IsFiniteSet(Owing(d)') /\ m \in Nat /\ sent'[d] + m + j <= 1 + faults'
    <2>1. CASE Settles(d)
      <3>1. IsFiniteSet(Owing(d)') /\ m <= n /\ m \in Nat
        BY <1>2, <2>1, OneMore DEF Settles
      <3>2. sent'[d] = sent[d] /\ j <= i
        BY <1>3, <2>1 DEF Settles
      <3> HIDE DEF n, m, i, j
      <3>3. QED BY <1>1, <1>2, <1>3, <3>1, <3>2
    <2>2. CASE Claims(s, d)
      <3>1. IsFiniteSet(Owing(d)') /\ m <= n + 1 /\ m \in Nat
        BY <1>2, <2>2, OneMore DEF Claims
      <3>2. sent'[d] = sent[d] /\ j = 0 /\ i = 1
        BY <1>3, <2>2 DEF Claims
      <3> HIDE DEF n, m, i, j
      <3>3. QED BY <1>1, <1>2, <1>3, <3>1, <3>2
    <2>3. CASE Sends(s, d)
      <3>1. IsFiniteSet(Owing(d)') /\ m <= n - 1 /\ m \in Nat
        BY <1>2, <2>3, OneMore DEF Sends
      <3>2. sent'[d] = sent[d] + 1 /\ j <= i
        BY <1>3, <2>3 DEF Sends
      <3> HIDE DEF n, m, i, j
      <3>3. QED BY <1>1, <1>2, <1>3, <3>1, <3>2
    <2>4. CASE Reports(s, d)
      <3>1. IsFiniteSet(Owing(d)') /\ m <= n - 1 /\ m \in Nat
        BY <1>2, <2>4, OneMore DEF Reports
      <3>2. sent'[d] = sent[d]
        BY <2>4 DEF Reports
      <3> HIDE DEF n, m, i, j
      <3>3. QED BY <1>1, <1>2, <1>3, <3>1, <3>2
    <2>5. CASE Errs(s, d)
      <3>1. faults' = faults + 1 /\ sent'[d] = sent[d]
        BY <2>5 DEF Errs
      <3>2. CASE Owing(d)' \subseteq Owing(d) \cup {s} /\ (Open(d)' => Open(d))
        <4>1. IsFiniteSet(Owing(d)') /\ m <= n + 1 /\ m \in Nat /\ j <= i
          BY <1>2, <1>3, <3>2, OneMore
        <4> HIDE DEF n, m, i, j
        <4>2. QED BY <1>1, <1>2, <1>3, <3>1, <4>1
      <3>3. CASE Owing(d)' \subseteq Owing(d)
        <4>1. IsFiniteSet(Owing(d)') /\ m <= n /\ m \in Nat
          BY <1>2, <3>3, OneMore
        <4> HIDE DEF n, m, i, j
        <4>2. QED BY <1>1, <1>2, <1>3, <3>1, <4>1
      <3>4. QED BY <2>5, <3>2, <3>3 DEF Errs
    <2>6. QED BY <2>1, <2>2, <2>3, <2>4, <2>5
  <1>5. QED BY <1>4 DEF RepeatsCounted

\* What others owe does not change.
LEMMA OthersOwe ==
    ASSUME NEW s, NEW d \in Discord, \A q \in Scans : q # s => process'[q] = process[q]
    PROVE  /\ Owing(d)' \subseteq Owing(d) \cup {s}
           /\ (s \in Owing(d)' => s \in Owing(d)) => Owing(d)' \subseteq Owing(d)
           /\ s \notin Owing(d)' => Owing(d)' \subseteq Owing(d) \ {s}
  BY DEF Owing

\* A row that is not written opens only when its claim is forgotten.
LEMMA RowStaysShut ==
    ASSUME NEW s, NEW d \in Discord, row'[d] = row[d],
           \A q \in Scans : q # s => process'[q] = process[q],
           s \in Scans /\ Current(s, d) => process'[s].tokens[d] = process[s].tokens[d]
    PROVE  Open(d)' => Open(d)
  <1>1. \A q \in Scans : Current(q, d) => Current(q, d)'
    BY DEF Current, Holds
  <1>2. QED BY <1>1 DEF Open

----------------------------------------------------------------------------
(* Each step leaves the count of repeats right. *)

\* No worker touches the rows or the messages of Discord.
LEMMA WorkerSettles ==
    ASSUME DeliveriesInv, NEW w \in Workers, WorkerStep(w) \/ RecordSentThrows(w),
           NEW d \in Discord
    PROVE  Settles(d) /\ faults' >= faults
  <1>1. /\ w \notin Scans /\ d \in Deliveries /\ d \notin Local
        /\ process \in [Processes -> ProcessType] /\ Scans \subseteq Processes
        /\ row \in [Deliveries -> DeliveryRow] /\ faults \in Int
    BY Channels DEF DeliveriesInv, TypeOK
  <1>2. row'[d] = row[d]
    <2>1. CASE ClaimBatch(w)
      BY <1>1, <2>1 DEF ClaimBatch, Claim
    <2>2. CASE \E e \in Local : Begin(w, e)
      BY <1>1, <2>2 DEF Begin
    <2>3. CASE Success(w) \/ Failure(w)
      <3>1. process[w].at \in Local
        BY <2>3, WorkerAt DEF Success, Failure, At
      <3>2. QED BY <1>1, <2>3, <3>1 DEF Success, Failure, Write
    <2>4. CASE RecordSentThrows(w)
      BY <2>4 DEF RecordSentThrows
    <2>5. CASE UNCHANGED row
      BY <2>5
    <2>6. QED BY <2>1, <2>2, <2>3, <2>4, <2>5 DEF WorkerStep, Refuse, CreateNotification,
                 PublishCreated, PrepareEmail, ProviderAccepts, ProviderFails, RecordSent, RecordFailed
  <1>3. \A q \in Scans : process'[q] = process[q]
    <2>1. CASE ClaimBatch(w)
      BY <1>1, <2>1 DEF ClaimBatch, Claim
    <2>2. CASE \E e \in Local : Begin(w, e)
      BY <1>1, <2>2 DEF Begin, Drops
    <2>3. CASE Refuse(w) \/ CreateNotification(w) \/ PublishCreated(w) \/ PrepareEmail(w)
      BY <1>1, <2>3 DEF Refuse, CreateNotification, PublishCreated, PrepareEmail, Go, Ends
    <2>4. CASE \/ ProviderAccepts(w) \/ ProviderFails(w) \/ RecordSent(w)
               \/ RecordFailed(w) \/ RecordSentThrows(w)
      BY <1>1, <2>4 DEF ProviderAccepts, ProviderFails, RecordSent, RecordFailed,
                        RecordSentThrows, Go, Ends
    <2>5. CASE Success(w) \/ Failure(w)
      BY <1>1, <2>5 DEF Success, Failure, NextClaim
    <2>6. QED BY <2>1, <2>2, <2>3, <2>4, <2>5 DEF WorkerStep
  <1>4. sent' = sent /\ (faults' = faults \/ faults' = faults + 1)
    BY DEF WorkerStep, RecordSentThrows, ClaimBatch, Begin, Refuse, CreateNotification,
                PublishCreated, PrepareEmail, ProviderAccepts, ProviderFails, RecordSent,
                RecordFailed, Success, Failure, channels, Fault
  <1>5. Owing(d)' \subseteq Owing(d)
    BY <1>3 DEF Owing
  <1>6. Open(d)' => Open(d)
    BY <1>1, <1>2, <1>3, RowStaysShut
  <1>7. faults' >= faults
    BY <1>1, <1>4
  <1>8. QED BY <1>4, <1>5, <1>6, <1>7 DEF Settles

\* A pull claims rows that are open, and opens none.
LEMMA PullClaims ==
    ASSUME DeliveriesInv, NEW s \in Scans, Pull(s), NEW d \in Discord
    PROVE  Settles(d) \/ Claims(s, d)
  <1>1. PICK batch \in SUBSET {e \in Discord : Claimable(row[e])} :
            /\ \A e \in batch : Tokens \ TokensOf(e) # {}
            /\ row' = [e \in Deliveries |->
                  IF e \in batch
                  THEN [Claimed(row[e], FreshToken(e)) EXCEPT !.attempts = @ + 1]
                  ELSE row[e]]
            /\ process' = [process EXCEPT ![s].tokens =
                  [e \in Deliveries |-> IF e \in batch THEN FreshToken(e) ELSE NoToken]]
            /\ process[s] = Idle /\ sent' = sent
    BY DEF Pull, Claim, channels
  <1>2. /\ d \in Deliveries /\ s \in Processes /\ Scans \subseteq Processes
        /\ process \in [Processes -> ProcessType] /\ row \in [Deliveries -> DeliveryRow]
    BY Channels DEF DeliveriesInv, TypeOK
  <1>3. /\ \A q \in Scans : q # s => process'[q] = process[q]
        /\ process'[s].phase = "looping" /\ process[s].tokens[d] = NoToken
        /\ process'[s].tokens[d] = IF d \in batch THEN FreshToken(d) ELSE NoToken
    <2>1. process[s].phase = "looping" /\ process[s].tokens[d] = NoToken
      BY <1>1, <1>2 DEF Idle, Looping
    <2> DEFINE tokens == [e \in Deliveries |-> IF e \in batch THEN FreshToken(e) ELSE NoToken]
               new == [process[s] EXCEPT !.tokens = tokens]
    <2>2. tokens[d] = IF d \in batch THEN FreshToken(d) ELSE NoToken
      BY <1>2
    <2>3. process' = [process EXCEPT ![s] = new]
      BY <1>1, <1>2
    <2> HIDE DEF tokens
    <2>4. new.phase = "looping" /\ new.tokens = tokens
      BY <1>2, <2>1 DEF ProcessType
    <2> HIDE DEF new
    <2>5. process'[s] = new /\ \A q \in Scans : q # s => process'[q] = process[q]
      BY <1>2, <2>3
    <2>6. QED BY <2>1, <2>2, <2>4, <2>5
  <1>4. CASE d \in batch
    <2>1. FreshToken(d) \in Tokens /\ FreshToken(d) # NoToken
      BY <1>1, <1>2, <1>4, Fresh
    <2>2. Open(d)
      BY <1>1, <1>4 DEF Open, Claimable
    <2>3. /\ row'[d].status = "PROCESSING" /\ ~row'[d].due /\ row'[d].token = FreshToken(d)
      <3> DEFINE claimed == Claimed(row[d], FreshToken(d))
      <3>1. row'[d] = [claimed EXCEPT !.attempts = @ + 1]
        BY <1>1, <1>2, <1>4
      <3>0. row[d] \in DeliveryRow
        BY <1>2
      <3>2. /\ claimed.status = "PROCESSING" /\ claimed.due = FALSE
            /\ claimed.token = FreshToken(d) /\ claimed \in DeliveryRow
        BY <3>0, <2>1 DEF Claimed, DeliveryRow
      <3> HIDE DEF claimed
      <3>3. QED BY <3>1, <3>2 DEF DeliveryRow
    <2>4. Current(s, d)'
      BY <1>3, <1>4, <2>1, <2>3 DEF Current, Holds, Owned
    <2>5. ~Open(d)'
      BY <2>3, <2>4 DEF Open
    <2>6. QED BY <1>1, <1>3, <2>2, <2>5, OthersOwe DEF Claims
  <1>5. CASE d \notin batch
    <2>1. row'[d] = row[d] /\ process'[s].tokens[d] = NoToken
      BY <1>1, <1>2, <1>3, <1>5
    <2>2. s \notin Owing(d)'
      BY <1>3, <2>1 DEF Owing, Owes
    <2>3. Open(d)' => Open(d)
      BY <1>3, <2>1, RowStaysShut
    <2>4. QED BY <1>1, <1>3, <2>2, <2>3, OthersOwe DEF Settles
  <1>6. QED BY <1>4, <1>5

\* A suppressed row is not open.
LEMMA SuppressSettles ==
    ASSUME DeliveriesInv, NEW s \in Scans, NEW e \in Discord, Suppress(s, e), NEW d \in Discord
    PROVE  Settles(d)
  <1>1. /\ d \in Deliveries /\ e \in Deliveries /\ s \in Processes /\ Scans \subseteq Processes
        /\ process \in [Processes -> ProcessType] /\ row \in [Deliveries -> DeliveryRow]
    BY Channels DEF DeliveriesInv, TypeOK
  <1>2. /\ process[s].phase = "looping" /\ Drops(s, e) /\ sent' = sent
        /\ row' = IF Current(s, e) THEN [row EXCEPT ![e] = Suppressed(row[e])] ELSE row
    BY DEF Suppress, At, Write, channels
  <1>3. /\ \A q \in Scans : q # s => process'[q] = process[q]
        /\ process'[s].phase = "looping"
        /\ process'[s].tokens[d] = IF d = e THEN NoToken ELSE process[s].tokens[d]
    <2> DEFINE tokens == [process[s].tokens EXCEPT ![e] = NoToken]
               new == [process[s] EXCEPT !.tokens = tokens]
    <2>1. process' = [process EXCEPT ![s] = new]
      BY <1>1, <1>2 DEF Drops
    <2>2. tokens[d] = IF d = e THEN NoToken ELSE process[s].tokens[d]
      BY <1>1 DEF ProcessType
    <2> HIDE DEF tokens
    <2>3. new.phase = "looping" /\ new.tokens = tokens
      BY <1>1, <1>2 DEF ProcessType
    <2> HIDE DEF new
    <2>4. process'[s] = new /\ \A q \in Scans : q # s => process'[q] = process[q]
      BY <1>1, <2>1
    <2>5. QED BY <2>2, <2>3, <2>4
  <1>4. s \in Owing(d)' => s \in Owing(d)
    BY <1>2, <1>3 DEF Owing, Owes
  <1>5. Open(d)' => Open(d)
    <2>1. CASE d = e /\ Current(s, e)
      <3>1. row'[d].status = "SUPPRESSED"
        BY <1>1, <1>2, <2>1, RowClosed DEF Suppressed
      <3>2. QED BY <3>1 DEF Open
    <2>2. CASE ~(d = e /\ Current(s, e))
      <3>1. row'[d] = row[d]
        BY <1>1, <1>2, <2>2
      <3>2. QED BY <1>3, <2>2, <3>1, RowStaysShut
    <2>3. QED BY <2>1, <2>2
  <1>6. QED BY <1>2, <1>3, <1>4, <1>5, OthersOwe DEF Settles

\* A step of a scan between its claim and its acknowledgement keeps the claims.
LEMMA SendingCounts ==
    ASSUME DeliveriesInv, NEW s \in Scans, NEW d \in Discord,
           \/ \E e \in Discord : ReadReceipt(s, e)
           \/ Send(s) \/ SendFails(s) \/ CompleteReceipt(s) \/ FailReceipt(s) \/ SentUnnoticed(s)
    PROVE  Settles(d) \/ Sends(s, d) \/ Errs(s, d)
  <1>1. /\ d \in Deliveries /\ s \in Processes /\ Scans \subseteq Processes
        /\ process \in [Processes -> ProcessType] /\ sent \in [Discord -> Nat]
        /\ process[s] \in ProcessType
    BY Channels DEF DeliveriesInv, TypeOK
  <1>2. /\ \A q \in Scans : q # s => process'[q] = process[q]
        /\ process'[s].tokens = process[s].tokens
        /\ row' = row
    <2>1. ASSUME NEW e \in Discord, ReadReceipt(s, e)
          PROVE  /\ \A q \in Scans : q # s => process'[q] = process[q]
                 /\ process'[s].tokens = process[s].tokens
                 /\ row' = row
      <3> DEFINE phase == IF AlreadySent(e) THEN "answered" ELSE "sending"
                 new == [process[s] EXCEPT !.at = e, !.phase = phase, !.outcome = "DELIVERED"]
      <3>1. row' = row /\ process' = [process EXCEPT ![s] = new]
        <4>1. row' = row /\ process' = [process EXCEPT ![s].at = e, ![s].phase = phase,
                                                       ![s].outcome = "DELIVERED"]
          BY <2>1 DEF ReadReceipt
        <4> HIDE DEF phase
        <4>2. QED BY <1>1, <4>1
      <3> HIDE DEF phase
      <3>2. new.tokens = process[s].tokens
        BY <1>1 DEF ProcessType
      <3> HIDE DEF new
      <3>3. QED BY <1>1, <3>1, <3>2
    <2>2. CASE Send(s) \/ CompleteReceipt(s) \/ FailReceipt(s)
      BY <1>1, <2>2 DEF Send, CompleteReceipt, FailReceipt, Go, Ends, ProcessType
    <2>3. CASE SendFails(s) \/ SentUnnoticed(s)
      <3>1. row' = row /\ \E code \in {"DESTINATION_UNAVAILABLE", "RETRYABLE_FAILURE"} :
                              Ends(s, "failing", code)
        BY <2>3 DEF SendFails, SentUnnoticed
      <3>2. QED BY <1>1, <3>1 DEF Ends, ProcessType
    <2>4. QED BY <2>1, <2>2, <2>3
  <1>3. Open(d)' => Open(d)
    BY <1>2, RowStaysShut
  <1>4. ASSUME NEW e \in Discord, ReadReceipt(s, e)
        PROVE  Settles(d)
    <2>1. /\ process[s].phase = "looping" /\ process[s].tokens[e] # NoToken
          /\ process'[s].phase # "looping" /\ process'[s].at = e /\ sent' = sent
      BY <1>1, <1>4 DEF ReadReceipt, At, Holds, ProcessType
    <2>2. s \in Owing(d)' => s \in Owing(d)
      BY <1>2, <2>1 DEF Owing, Owes
    <2>3. QED BY <1>2, <1>3, <2>1, <2>2, OthersOwe DEF Settles
  <1>5. CASE Send(s)
    <2>1. /\ process[s].phase = "sending" /\ process'[s].phase = "sent"
          /\ process'[s].at = process[s].at
          /\ sent' = [sent EXCEPT ![process[s].at] = @ + 1]
      BY <1>1, <1>5 DEF Send, At, Go, ProcessType
    <2>2. CASE d = process[s].at
      <3>1. s \in Owing(d) /\ s \notin Owing(d)'
        BY <2>1, <2>2 DEF Owing, Owes
      <3>2. sent'[d] = sent[d] + 1
        BY <1>1, <2>1, <2>2
      <3>3. QED BY <1>2, <1>3, <3>1, <3>2, OthersOwe DEF Sends
    <2>3. CASE d # process[s].at
      <3>1. s \in Owing(d)' => s \in Owing(d)
        BY <1>2, <2>1, <2>3 DEF Owing, Owes
      <3>2. sent'[d] = sent[d]
        BY <1>1, <2>1, <2>3
      <3>3. QED BY <1>2, <1>3, <3>1, <3>2, OthersOwe DEF Settles
    <2>4. QED BY <2>2, <2>3
  <1>6. CASE SendFails(s) \/ CompleteReceipt(s) \/ FailReceipt(s)
    <2>1. /\ process'[s].at = process[s].at /\ sent' = sent
          /\ \/ process[s].phase = "sending" /\ process'[s].phase = "failing"
             \/ /\ process[s].phase = "sent" /\ process'[s].phase = "answered"
                /\ process'[s].outcome = "DELIVERED"
             \/ process[s].phase = "failing" /\ process'[s].phase = "answered"
      BY <1>1, <1>6 DEF SendFails, CompleteReceipt, FailReceipt, At, Go, Ends, channels, ProcessType
    <2>2. s \in Owing(d)' => s \in Owing(d)
      BY <1>2, <2>1 DEF Owing, Owes
    <2>3. QED BY <1>2, <1>3, <2>1, <2>2, OthersOwe DEF Settles
  <1>7. CASE SentUnnoticed(s)
    <2>1. faults' = faults + 1 /\ sent' = sent
      BY <1>7 DEF SentUnnoticed, Fault, channels
    <2>2. QED BY <1>2, <1>3, <2>1, OthersOwe DEF Errs
  <1>8. QED BY <1>4, <1>5, <1>6, <1>7

\* A scan that goes on with its batch forgets one delivery.
LEMMA NextClaimForgets ==
    ASSUME DeliveriesInv, NEW s \in Scans, NextClaim(s), process[s].phase # "looping",
           NEW d \in Discord
    PROVE  /\ \A q \in Scans : q # s => process'[q] = process[q]
           /\ d # process[s].at => process'[s].tokens[d] = process[s].tokens[d]
           /\ d = process[s].at => s \notin Owing(d)'
           /\ s \in Owing(d)' => s \in Owing(d)
  <1>1. /\ d \in Deliveries /\ s \in Processes /\ Scans \subseteq Processes
        /\ process \in [Processes -> ProcessType] /\ process[s] \in ProcessType
    BY Channels DEF DeliveriesInv, TypeOK
  <1> DEFINE tokens == [process[s].tokens EXCEPT ![process[s].at] = NoToken]
  <1>2. tokens[d] = IF d = process[s].at THEN NoToken ELSE process[s].tokens[d]
    BY <1>1 DEF ProcessType
  <1>3. process' = [process EXCEPT ![s] = Looping(tokens)]
    BY <1>1 DEF NextClaim
  <1> HIDE DEF tokens
  <1>4. process'[s] = Looping(tokens) /\ \A q \in Scans : q # s => process'[q] = process[q]
    BY <1>1, <1>3
  <1>5. process'[s].phase = "looping" /\ process'[s].tokens = tokens
    BY <1>4 DEF Looping
  <1>6. QED BY <1>2, <1>4, <1>5 DEF Owing, Owes

\* An acknowledgement closes its row, or opens it for a message that was not sent.
LEMMA AcknowledgeReports ==
    ASSUME DeliveriesInv, NEW s \in Scans, Acknowledge(s), NEW d \in Discord
    PROVE  Settles(d) \/ Reports(s, d)
  <1> DEFINE e == process[s].at
  <1>1. /\ process[s].phase = "answered" /\ NextClaim(s) /\ sent' = sent
        /\ process[s].outcome = "DELIVERED" =>
               row' = IF Current(s, e) THEN [row EXCEPT ![e] = Delivered(row[e])] ELSE row
        /\ \E new : row' = IF Current(s, e) THEN [row EXCEPT ![e] = new] ELSE row
    BY DEF Acknowledge, At, Write, channels
  <1>2. row \in [Deliveries -> DeliveryRow] /\ d \in Deliveries
    BY Channels DEF DeliveriesInv, TypeOK
  <1>3. /\ \A q \in Scans : q # s => process'[q] = process[q]
        /\ d # e => process'[s].tokens[d] = process[s].tokens[d]
        /\ d = e => s \notin Owing(d)'
        /\ s \in Owing(d)' => s \in Owing(d)
    BY <1>1, NextClaimForgets
  <1>4. CASE d # e
    <2>1. row'[d] = row[d]
      BY <1>1, <1>2, <1>4
    <2>2. Open(d)' => Open(d)
      BY <1>3, <1>4, <2>1, RowStaysShut
    <2>3. QED BY <1>1, <1>3, <2>2, OthersOwe DEF Settles
  <1>5. CASE d = e /\ s \in Owing(d)
    BY <1>1, <1>3, <1>5, OthersOwe DEF Reports
  <1>6. CASE d = e /\ s \notin Owing(d)
    <2>1. process[s].outcome = "DELIVERED"
      BY <1>1, <1>6 DEF Owing, Owes
    <2>2. CASE Current(s, d)
      <3>1. row'[d].status = "DELIVERED"
        BY <1>1, <1>2, <1>6, <2>1, <2>2, RowClosed DEF Delivered
      <3>2. ~Open(d)'
        BY <3>1 DEF Open
      <3>3. QED BY <1>1, <1>3, <3>2, OthersOwe DEF Settles
    <2>3. CASE ~Current(s, d)
      <3>1. row'[d] = row[d]
        BY <1>1, <1>6, <2>3
      <3>2. Open(d)' => Open(d)
        BY <1>3, <2>3, <3>1, RowStaysShut
      <3>3. QED BY <1>1, <1>3, <3>2, OthersOwe DEF Settles
    <2>4. QED BY <2>2, <2>3
  <1>7. QED BY <1>4, <1>5, <1>6

\* A process that dies, a lost acknowledgement and an overtaken lease are faults, which
\* may open rows and add to what no scan owes.
LEMMA FaultsErr ==
    ASSUME DeliveriesInv, NEW d \in Discord, NEW s,
           \/ \E p \in Processes : BatchDies(p)
           \/ \E q \in Scans : AcknowledgementLost(q)
           \/ \E e \in Deliveries : LeaseOvertaken(e)
    PROVE  Errs(s, d)
  <1>1. /\ d \in Deliveries /\ Scans \subseteq Processes
        /\ process \in [Processes -> ProcessType]
    BY Channels DEF DeliveriesInv, TypeOK
  <1>2. faults' = faults + 1 /\ sent' = sent
    BY DEF BatchDies, AcknowledgementLost, LeaseOvertaken, Fault, channels
  <1>3. Owing(d)' \subseteq Owing(d)
    <2>1. ASSUME NEW p \in Processes, BatchDies(p)
          PROVE  Owing(d)' \subseteq Owing(d)
      <3>1. process'[p] = Idle /\ \A q \in Scans : q # p => process'[q] = process[q]
        BY <1>1, <2>1 DEF BatchDies
      <3>2. p \notin Owing(d)'
        BY <1>1, <3>1 DEF Owing, Owes, Idle, Looping
      <3>3. QED BY <3>1, <3>2, OthersOwe
    <2>2. ASSUME NEW q \in Scans, AcknowledgementLost(q)
          PROVE  Owing(d)' \subseteq Owing(d)
      <3>1. NextClaim(q) /\ process[q].phase # "looping"
        BY <2>2 DEF AcknowledgementLost, At
      <3>2. QED BY <3>1, NextClaimForgets, OthersOwe
    <2>3. CASE UNCHANGED process
      BY <2>3 DEF Owing
    <2>4. QED BY <2>1, <2>2, <2>3 DEF LeaseOvertaken
  <1>4. QED BY <1>2, <1>3 DEF Errs

\* The clock and operators only touch rows that are open, or other ones.
LEMMA ClockSettles ==
    ASSUME DeliveriesInv, NEW d \in Discord, NEW e \in Deliveries,
           TimePasses(e) \/ RequeueDelivery(e)
    PROVE  Settles(d)
  <1>1. /\ d \in Deliveries /\ Scans \subseteq Processes
        /\ row \in [Deliveries -> DeliveryRow]
    BY Channels DEF DeliveriesInv, TypeOK
  <1>2. UNCHANGED process /\ sent' = sent
    BY DEF TimePasses, RequeueDelivery, channels
  <1>3. Owing(d)' \subseteq Owing(d)
    BY <1>2 DEF Owing
  <1>4. CASE d = e
    <2>1. ASSUME TimePasses(e)
          PROVE  Open(d)
      <3>1. row[d].status \in {"PENDING", "PROCESSING"} /\ \A s \in Scans : ~Current(s, d)
        BY <1>1, <1>4, <2>1 DEF TimePasses
      <3>2. QED BY <3>1 DEF Open
    <2>2. ASSUME RequeueDelivery(e)
          PROVE  Open(d)
      BY <1>4, <2>2 DEF RequeueDelivery, Open
    <2>3. Open(d)
      BY <2>1, <2>2
    <2>4. QED BY <1>2, <1>3, <2>3 DEF Settles
  <1>5. CASE d # e
    <2>1. row'[d] = row[d]
      BY <1>1, <1>5 DEF TimePasses, RequeueDelivery
    <2>2. Open(d)' => Open(d)
      BY <1>2, <2>1, RowStaysShut
    <2>3. QED BY <1>2, <1>3, <2>2 DEF Settles
  <1>6. QED BY <1>4, <1>5

\* The count is inductive.
LEMMA RepeatsCountedNext ==
    ASSUME DeliveriesInv, DeliveriesInv', [Next]_vars, NEW d \in Discord, RepeatsCounted(d)
    PROVE  RepeatsCounted(d)'
  <1>1. TypeOK /\ TypeOK' /\ faults \in Int
    BY DEF DeliveriesInv, TypeOK
  <1>2. ASSUME NEW w \in Workers, WorkerStep(w) \/ RecordSentThrows(w)
        PROVE  RepeatsCounted(d)'
    BY <1>1, <1>2, WorkerSettles, CountStays
  <1>3. ASSUME NEW s \in Scans, ScanStep(s) \/ SentUnnoticed(s) \/ \E e \in Discord : Suppress(s, e)
        PROVE  RepeatsCounted(d)'
    <2>1. Settles(d) \/ Claims(s, d) \/ Sends(s, d) \/ Reports(s, d) \/ Errs(s, d)
      BY <1>3, PullClaims, SuppressSettles, SendingCounts, AcknowledgeReports DEF ScanStep
    <2>2. faults' >= faults
      <3>1. faults' = faults \/ faults' = faults + 1
        BY <1>3 DEF ScanStep, Pull, ReadReceipt, Send, SendFails, CompleteReceipt, FailReceipt,
                    Acknowledge, SentUnnoticed, Suppress, Fault
      <3>2. QED BY <1>1, <3>1
    <2>3. QED BY <1>1, <2>1, <2>2, CountStays
  <1>4. CASE \/ \E p \in Processes : BatchDies(p)
             \/ \E q \in Scans : AcknowledgementLost(q)
             \/ \E e \in Deliveries : LeaseOvertaken(e)
    <2>1. Errs(d, d)
      BY <1>4, FaultsErr
    <2>2. faults' >= faults
      BY <1>1, <2>1 DEF Errs
    <2>3. QED BY <1>1, <2>1, <2>2, CountStays
  <1>5. ASSUME NEW e \in Deliveries, TimePasses(e) \/ RequeueDelivery(e)
        PROVE  RepeatsCounted(d)'
    <2>1. faults' = faults
      BY <1>5 DEF TimePasses, RequeueDelivery
    <2>2. faults' >= faults
      BY <1>1, <2>1
    <2>3. QED BY <1>1, <1>5, <2>2, ClockSettles, CountStays
  <1>6. CASE UNCHANGED vars
    <2>1. UNCHANGED <<row, process, sent, faults>>
      BY <1>6 DEF vars, channels
    <2>2. Owing(d)' = Owing(d) /\ Open(d)' = Open(d)
      BY <2>1 DEF Owing, Open, Current, Holds
    <2>3. QED BY <2>1, <2>2 DEF RepeatsCounted, Openings
  <1>7. QED BY <1>2, <1>3, <1>4, <1>5, <1>6 DEF Next

\* Before the first pull every delivery is owed at most by its row.
LEMMA RepeatsCountedInit ==
    ASSUME Init, NEW d \in Discord
    PROVE  RepeatsCounted(d)
  <1>1. Owing(d) = {}
    <2>1. d \in Deliveries /\ Scans \subseteq Processes
      BY Channels
    <2>2. \A s \in Scans : process[s] = Idle
      BY <2>1 DEF Init
    <2>3. ~Owes(Idle, d)
      BY <2>1 DEF Owes, Idle, Looping
    <2>4. QED BY <2>2, <2>3 DEF Owing
  <1>2. IsFiniteSet(Owing(d)) /\ Cardinality(Owing(d)) = 0
    BY <1>1, FS_EmptySet
  <1>3. sent[d] = 0 /\ faults = 0 /\ Openings(d) \in {0, 1}
    BY DEF Init, Openings
  <1>4. QED BY <1>2, <1>3 DEF RepeatsCounted

\* A direct message is sent again only where a fault came between sending it and
\* acknowledging it, and no more often than that, however scans overlap, leases expire
\* and operators requeue.
THEOREM RepeatsNeedFaultsAlways == Spec => []RepeatsNeedFaults
  <1> DEFINE Counted == \A d \in Discord : RepeatsCounted(d)
  <1>1. Init => Counted
    BY RepeatsCountedInit
  <1>2. DeliveriesInv /\ DeliveriesInv' /\ Counted /\ [Next]_vars => Counted'
    BY RepeatsCountedNext
  <1>3. DeliveriesInv /\ Counted => RepeatsNeedFaults
    <2> SUFFICES ASSUME DeliveriesInv, Counted, NEW d \in Discord
                 PROVE  sent[d] <= 1 + faults
      BY DEF RepeatsNeedFaults
    <2>1. /\ IsFiniteSet(Owing(d))
          /\ sent[d] + Cardinality(Owing(d)) + Openings(d) <= 1 + faults
      BY DEF RepeatsCounted
    <2>2. Cardinality(Owing(d)) \in Nat /\ Openings(d) \in {0, 1}
      BY <2>1, FS_CardinalityType DEF Openings
    <2>3. sent[d] \in Nat /\ faults \in Int
      BY DEF DeliveriesInv, TypeOK
    <2>4. QED BY <2>1, <2>2, <2>3
  <1> HIDE DEF Counted
  <1>4. QED BY <1>1, <1>2, <1>3, DeliveriesInvariant, PTL DEF Spec
=============================================================================
