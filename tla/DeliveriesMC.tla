------------------------------ MODULE DeliveriesMC ------------------------------
(* A small instance of Deliveries for TLC. *)
EXTENDS Deliveries

CONSTANTS inApp, email, discord, bad

MCTokens == 1 .. Cardinality(Processes) + 1

\* A financial event whose user has no usable e-mail address; the e-mail half of
\* another and the Discord half of an order's, which share no state with their
\* in-app halves.
MCRoutes == {{inApp, bad}, {email}, {discord}}
=============================================================================
