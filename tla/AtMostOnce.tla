------------------------------ MODULE AtMostOnce ------------------------------
(***************************************************************************)
(* What the control plane promises the caller of an operation, whatever    *)
(* queues, leases and timers are behind it.  An operation is accepted or   *)
(* turned away; once accepted it is started at most once; a mutation whose *)
(* outcome got lost stays unsettled, and until it is settled nothing of    *)
(* its group starts in the browser, so that no second mutation is built on *)
(* an unknown first one.  A finished operation may be forgotten, and only  *)
(* then can its id be accepted again.                                      *)
(***************************************************************************)
CONSTANTS
  Ops,          \* operation ids
  Harmless,     \* the operations whose outcome may get lost without a trace
  Conflicts(_, _)   \* Conflicts(o, q): o may not start while q is unsettled

VARIABLE status

Statuses == {"unknown", "accepted", "running", "unsettled", "finished"}

Init == status = [o \in Ops |-> "unknown"]

Moves(o, from, to) == status[o] = from /\ status'[o] = to

Accept(o) == Moves(o, "unknown", "accepted")

TurnAway(o) == Moves(o, "unknown", "finished") \/ Moves(o, "accepted", "finished")

Start(o) ==
  /\ Moves(o, "accepted", "running")
  /\ \A q \in Ops : Conflicts(o, q) => status[q] # "unsettled"

LoseOutcome(o) == o \notin Harmless /\ Moves(o, "running", "unsettled")

Close(o) == Moves(o, "running", "finished") \/ Moves(o, "unsettled", "finished")

Forget(o) == Moves(o, "finished", "unknown")

\* Several operations may move at once.
Next ==
  \A o \in Ops : \/ Accept(o) \/ TurnAway(o) \/ Start(o) \/ LoseOutcome(o)
                 \/ Close(o) \/ Forget(o)
                 \/ status'[o] = status[o]

Spec == Init /\ [][status' \in [Ops -> Statuses] /\ Next]_status
===============================================================================
