--------------------------- MODULE MoneyMovementsMC ---------------------------
(* A small instance of MoneyMovements for TLC. *)
EXTENDS MoneyMovements

CONSTANTS large, small, payday

\* The larger deposit exceeds what the smaller one can make good.
MCAmount == [m \in Movements |-> IF m = small THEN 1 ELSE 2]

\* Two deposits, or a deposit and a withdrawal.
MCPlans == {plan \cap Movements : plan \in {{large, small}, {large, payday}}}

\* The smaller deposit is uneventful: what it meets comes from the other movements.
MCCourse == [m \in Movements |->
    CASE m = large -> {"processing", "confirmed", "succeeded", "available", "disputed",
                       "withdrawn", "failed", "lapsed", "canceled"}
      [] m = small -> {"confirmed", "succeeded", "available"}
      [] OTHER     -> {"paid", "bounced"}]
=============================================================================
