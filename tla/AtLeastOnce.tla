------------------------------ MODULE AtLeastOnce ------------------------------
(***************************************************************************)
(* What the outbox promises: an event, once appended, is never forgotten;  *)
(* its routing is durable; it is done only after it was routed, and for    *)
(* good; it is given up only into the hands of an operator.                *)
(***************************************************************************)
CONSTANTS Events, Malformed

VARIABLES state,   \* of each event
          routed   \* events whose deliveries exist

queueVars == <<state, routed>>

Append(e) ==
    /\ state[e] = "absent"
    /\ state' = [state EXCEPT ![e] = "queued"]
    /\ UNCHANGED routed

\* A worker that was overtaken may route an event long after it was given up.
Route(e) ==
    /\ state[e] # "absent"
    /\ e \notin Malformed
    /\ routed' = routed \cup {e}
    /\ UNCHANGED state

Finish(e) ==
    /\ state[e] = "queued"
    /\ e \in routed
    /\ state' = [state EXCEPT ![e] = "done"]
    /\ UNCHANGED routed

GiveUp(e) ==
    /\ state[e] = "queued"
    /\ state' = [state EXCEPT ![e] = "dead"]
    /\ UNCHANGED routed

Requeue(e) ==
    /\ state[e] = "dead"
    /\ state' = [state EXCEPT ![e] = "queued"]
    /\ UNCHANGED routed

Init ==
    /\ state = [e \in Events |-> "absent"]
    /\ routed = {}

Next == \E e \in Events : Append(e) \/ Route(e) \/ Finish(e) \/ GiveUp(e) \/ Requeue(e)

Spec == Init /\ [][Next]_queueVars
=============================================================================
