------------------------------- MODULE OutboxMC -------------------------------
(* A small instance of Outbox for TLC. *)
EXTENDS Outbox

MCTokens == 1 .. Cardinality(Workers) + 1
=============================================================================
