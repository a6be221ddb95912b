------------------------------ MODULE LeasedWork ------------------------------
(***************************************************************************)
(* A row of a PostgreSQL work queue that workers lease: the columns that   *)
(* the worker repositories of the outbox module read and write.            *)
(*                                                                         *)
(* due stands for the clock: availableAt <= now in a PENDING row,          *)
(* leaseExpiresAt <= now in a PROCESSING row.                              *)
(***************************************************************************)
EXTENDS Naturals

(* Definitions commented "Faulty variant" are no part of the protocol: each   *)
(* is the definition after it with a plausible slip in the code.              *)

NoToken == 0

RowType(Tokens) ==
    [status   : {"NONE", "PENDING", "PROCESSING", "DELIVERED", "DEAD_LETTER"},
     due      : BOOLEAN,
     token    : Tokens \cup {NoToken},
     attempts : Nat]

NoRow == [status |-> "NONE", due |-> FALSE, token |-> NoToken, attempts |-> 0]

\* Created with availableAt = occurredAt, so at once due.
NewRow == [NoRow EXCEPT !.status = "PENDING", !.due = TRUE]

\* Faulty variant: only PENDING rows are looked for.
ClaimablePending(row) == row.status = "PENDING" /\ row.due

\* Faulty variant: a leased row is taken without waiting for the lease to expire.
ClaimableLeased(row) == row.status \in {"PENDING", "PROCESSING"}

Claimable(row) == row.status \in {"PENDING", "PROCESSING"} /\ row.due

\* A fresh claim token and a lease; attempts are not counted yet.
Claimed(row, token) ==
    [row EXCEPT !.status = "PROCESSING", !.due = FALSE, !.token = token]

\* Faulty variant: the write names the row alone.
OwnedByAnyone(row, token) == token # NoToken

\* The WHERE clause of every later write of a claim.
Owned(row, token) == row.status = "PROCESSING" /\ row.token = token

Begun(row) == [row EXCEPT !.attempts = @ + 1]

Closed(row, status) == [row EXCEPT !.status = status, !.token = NoToken, !.due = FALSE]

Delivered(row) == Closed(row, "DELIVERED")

\* Faulty variant: the status FAILED, which the schema has and no query looks for.
FailedForGood(row, terminal) == Closed(row, IF terminal THEN "FAILED" ELSE "PENDING")

\* A failure is final, or the row becomes due again after a backoff.
Failed(row, terminal) == Closed(row, IF terminal THEN "DEAD_LETTER" ELSE "PENDING")

\* resetForRequeue: available now; attempts are kept.
Requeued(row) == [Closed(row, "PENDING") EXCEPT !.due = TRUE]
=============================================================================
