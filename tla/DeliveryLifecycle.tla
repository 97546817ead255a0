------------------------- MODULE DeliveryLifecycle -------------------------
(***************************************************************************)
(* What the queue promises of each delivery, with no clock, lease, worker  *)
(* or endpoint in sight: it is queued once, each attempt counts for one,   *)
(* it ends after MaxAttempts of them at the latest, and it stays as it     *)
(* ended until an operator replays it.  One step may move several          *)
(* deliveries, each along its own life cycle.                              *)
(***************************************************************************)
EXTENDS Integers

CONSTANTS Delivery, MaxAttempts

VARIABLES
  status,     \* per delivery: absent, pending, or the way it ended
  attempts    \* per delivery: attempts counted since it was queued or replayed

lifecycle == <<status, attempts>>

Init ==
  /\ status = [d \in Delivery |-> "absent"]
  /\ attempts = [d \in Delivery |-> 0]

Becomes(d, s, n) == status'[d] = s /\ attempts'[d] = n

Queue(d) == status[d] = "absent" /\ Becomes(d, "pending", 0)

(* One attempt more.  It may succeed, be the last, be followed by another  *)
(* if the schedule holds one, or make the breaker switch the endpoint off. *)
Attempt(d) ==
  /\ status[d] = "pending"
  /\ \/ \E s \in {"succeeded", "failed"} : Becomes(d, s, attempts[d] + 1)
     \/ /\ attempts[d] + 1 < MaxAttempts
        /\ \E s \in {"pending", "cancelled"} : Becomes(d, s, attempts[d] + 1)

Cancel(d) == status[d] = "pending" /\ Becomes(d, "cancelled", attempts[d])

(* A cancel that was checked while the delivery was pending and written    *)
(* once it had ended.                                                      *)
CancelLate(d) ==
  status[d] \in {"succeeded", "failed"} /\ Becomes(d, "cancelled", attempts[d])

Replay(d) == status[d] # "absent" /\ Becomes(d, "pending", 0)

Delete(d) == status[d] # "absent" /\ Becomes(d, "absent", 0)

Stay(d) == Becomes(d, status[d], attempts[d])

Next ==
  \A d \in Delivery :
    \/ Queue(d) \/ Attempt(d) \/ Cancel(d) \/ CancelLate(d)
    \/ Replay(d) \/ Delete(d) \/ Stay(d)

Spec == Init /\ [][Next]_lifecycle
=============================================================================
