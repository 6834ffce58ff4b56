------------------------------ MODULE Overtaking ------------------------------
(***************************************************************************)
(* Scheduler with an observer that counts how often the operation at the   *)
(* head of a tab's queue is overtaken: by a global operation of its        *)
(* browser, and by a daemon-global one, in all and since the daemon last   *)
(* had none.  The observer changes nothing.                                *)
(***************************************************************************)
EXTENDS Scheduler

VARIABLE overtaken

observed == <<vars, overtaken>>

SameHead(t) == queue[t] # <<>> /\ queue'[t] # <<>> /\ Head(queue'[t]) = Head(queue[t])

Starts(lane) == \E o \in Ops : /\ On(o) = lane
                               /\ state[o] # "dispatched" /\ state'[o] = "dispatched"

\* What is counted: operations of the tab's browser, those of the daemon, and
\* those of the daemon since it last had none.
Counted == {"browser", "daemon", "backlog"}
LaneOf(t, by) == IF by = "browser" THEN BrowserOf[t] ELSE Daemon
DaemonIdle == queue[Daemon] = <<>> /\ Daemon \notin busy

Count ==
  overtaken' = [t \in Tabs |->
    [by \in Counted |->
       IF ~ SameHead(t) \/ (by = "backlog" /\ DaemonIdle') THEN 0
       ELSE IF Starts(LaneOf(t, by)) THEN overtaken[t][by] + 1 ELSE overtaken[t][by]]]

ObservedInit == Init /\ overtaken = [t \in Tabs |-> [by \in Counted |-> 0]]

ObservedSpec == ObservedInit /\ [][Next /\ Count]_observed

\* Global work does not starve tabs: the operation at the head of a tab's queue is
\* overtaken by at most one global operation of its browser, however many are
\* sent, and by at most one of the daemon between two moments at which that has
\* none queued or in flight (next_ready gives the waiting tabs a round after each
\* global operation, and forgets that of the daemon when none of its is queued).
OvertakenSeldom == \A t \in Tabs : overtaken[t].browser <= 1 /\ overtaken[t].backlog <= 1

\* ... by at most one of each, whether or not the daemon ran out of them.
OvertakenOnce == \A t \in Tabs : overtaken[t].browser <= 1 /\ overtaken[t].daemon <= 1
===============================================================================
