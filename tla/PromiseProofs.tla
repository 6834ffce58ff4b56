----------------------------- MODULE PromiseProofs -----------------------------
(***************************************************************************)
(* The scheduler implements AtMostOnce: every step moves every operation   *)
(* the way the promise allows, or not at all.  After that, two properties  *)
(* that hold under a condition: lanes exclude one another as long as no    *)
(* browser is lost, and a group stays with its owner while an operation of *)
(* it is in flight, if the group has a lane of its own.                    *)
(***************************************************************************)
EXTENDS SettlementProofs

\* How a step of the scheduler may move the record of an operation.
Step(o) ==
  \/ state'[o] = state[o]
  \/ state[o] = "new" /\ state'[o] \in {"queued", "terminal"}
  \/ state[o] = "queued" /\ state'[o] = "dispatched" /\ MayDispatch(o)
  \/ state[o] = "dispatched" /\ state'[o] = "pending" /\ NeedsSettlement(o)
  \/ state[o] = "pending" /\ state'[o] = "unknown"
  \/ state[o] # "new" /\ state'[o] = "terminal"
  \/ state[o] = "terminal" /\ state'[o] = "new"

Steps == \A o \in Ops : Step(o)

LEMMA Unmoved ==
  ASSUME UNCHANGED state
  PROVE  Steps
BY DEF Steps, Step

LEMMA FinishSteps ==
  ASSUME OperationInv, NEW o \in Ops, NEW c, Finish(o, c), state[o] # "terminal"
  PROVE  Steps
<1>1. /\ state'[o] = "terminal"
      /\ \A q \in Ops \ {o} : \/ state'[q] = state[q]
                              \/ state[q] = "terminal" /\ state'[q] = "new"
  BY FinishEffect DEF OperationInv, TypeOK, Books
<1>2. QED
  BY <1>1 DEF Steps, Step

LEMMA CommandSteps ==
  ASSUME OperationInv, NEW o \in Ops, OperationCommand(o)
  PROVE  Steps
<1>1. state \in [Ops -> OperationStates]
  BY DEF OperationInv, TypeOK, OperationTypes
<1>2. CASE Submit(o)
  <2>1. CASE Attach(o)
    BY <2>1, Unmoved DEF Attach
  <2>2. CASE AdmitCancelled(o)
    BY <2>2, FinishSteps DEF AdmitCancelled
  <2>3. ASSUME NEW p, Enqueue(o, p)
        PROVE  Steps
    BY <1>1, <2>3 DEF Enqueue, Fresh, Steps, Step
  <2>4. ASSUME NEW p, Refuse(o, p)
        PROVE  Steps
    BY <2>4, Unmoved DEF Refuse, opVars
  <2>5. QED
    BY <1>2, <2>1, <2>2, <2>3, <2>4 DEF Submit
<1>3. ASSUME NEW client, Cancel(o, client)
      PROVE  Steps
  <2>1. CASE state[o] = "queued" /\ CancelQueued(o)
    BY <2>1, FinishSteps DEF CancelQueued
  <2>2. CASE RememberIntent(o, client) \/ Detach({o})
    BY <2>2, Unmoved DEF RememberIntent, Detach, opVars
  <2>3. QED
    BY <1>3, <2>1, <2>2 DEF Cancel
<1>4. ASSUME NEW outcome, Executed(o, outcome)
      PROVE  Steps
  <2>1. state[o] = "dispatched"
    BY <1>4 DEF Executed
  <2>2. CASE CompleteTerminal(o, outcome) \/ CompleteSettled(o)
    BY <2>1, <2>2, FinishSteps DEF CompleteTerminal, CompleteSettled
  <2>3. CASE CompleteAmbiguous(o)
    BY <1>1, <2>1, <2>3 DEF CompleteAmbiguous, Steps, Step
  <2>4. QED
    BY <1>4, <2>2, <2>3 DEF Executed
<1>5. ASSUME NEW outcome, Settle(o, outcome)
      PROVE  Steps
  <2>1. CASE SettleEarly(o, outcome)
    BY <2>1, Unmoved DEF SettleEarly, opVars
  <2>2. CASE SettleNow(o, outcome)
    BY <2>2, FinishSteps DEF SettleNow
  <2>3. QED
    BY <1>5, <2>1, <2>2 DEF Settle
<1>6. QED
  BY <1>2, <1>3, <1>4, <1>5 DEF OperationCommand

LEMMA VictimSteps ==
  ASSUME OperationInv, NEW o \in Ops, CancelVictim(o) \/ RejectVictim(o)
  PROVE  Steps
<1>1. o \in Queued
  BY DEF CancelVictim, RejectVictim, Swept, OperationInv, VictimsQueued
<1>2. QED
  BY <1>1, FinishSteps
     DEF CancelVictim, CancelQueued, RejectVictim, RejectBeforeDispatch, Queued

LEMMA DequeueSteps ==
  ASSUME OperationInv, NEW lane \in Lanes, queue[lane] # <<>>, Dequeue(lane)
  PROVE  Steps
<1> DEFINE o == Head(queue[lane])
<1>1. o \in Ops /\ state[o] = "queued" /\ state \in [Ops -> OperationStates]
  BY HeadQueued DEF OperationInv, TypeOK, OperationTypes, Books, Queued
<1>2. IF MayDispatch(o) THEN MarkDispatched(o) ELSE RejectBeforeDispatch(o)
  BY DEF Dequeue
<1> HIDE DEF o
<1>3. CASE MayDispatch(o)
  <2>1. state' = [state EXCEPT ![o] = "dispatched"]
    BY <1>2, <1>3 DEF MarkDispatched
  <2>2. QED
    BY <1>1, <1>3, <2>1 DEF Steps, Step
<1>4. CASE ~ MayDispatch(o)
  BY <1>1, <1>2, <1>4, FinishSteps DEF RejectBeforeDispatch
<1>5. QED
  BY <1>3, <1>4

LEMMA DispatchSteps ==
  ASSUME OperationInv, Dispatch
  PROVE  Steps
<1>1. CASE DispatchDaemonGlobal
  BY <1>1, DequeueSteps DEF DispatchDaemonGlobal, DaemonFirst, Lanes
<1>2. ASSUME NEW t \in Tabs, DispatchTab(t)
      PROVE  Steps
  BY <1>2, DequeueSteps DEF DispatchTab, EligibleTab, Lanes
<1>3. ASSUME NEW b \in Browsers, DispatchBridgeGlobal(b)
      PROVE  Steps
  BY <1>3, DequeueSteps DEF DispatchBridgeGlobal, EligibleBrowser, Lanes
<1>4. CASE DispatchDone
  BY <1>4, Unmoved DEF DispatchDone, opVars
<1>5. QED
  BY <1>1, <1>2, <1>3, <1>4 DEF Dispatch

LEMMA NextSteps ==
  ASSUME OperationInv, [Next]_vars
  PROVE  Steps
<1>1. CASE UNCHANGED vars
  BY <1>1, Unmoved DEF vars, opVars
<1>2. ASSUME NEW g \in GroupIds, GroupCommand(g)
      PROVE  Steps
  BY <1>2, GroupCommandQuiet, Unmoved DEF OnlyGroups, opVars
<1>3. CASE Tick
  BY <1>3 DEF Tick, Overdue, Steps, Step
<1>4. CASE \/ \E principal \in Principals : Disconnect(principal)
           \/ \E b \in Browsers : BrowserLost(b)
           \/ PruneReleased \/ Query \/ Elapse
  BY <1>4, Unmoved
     DEF Disconnect, Detach, BrowserLost, PruneReleased, OnlyGroups, Query, Elapse, opVars
<1>5. QED
  BY <1>1, <1>2, <1>3, <1>4, CommandSteps, VictimSteps, DispatchSteps DEF Next
-----------------------------------------------------------------------------
\* What Dispatch lets pass does not build on an unknown outcome: the group is open,
\* hence not frozen, hence none of its operations is unsettled.
LEMMA OpenGroupSettled ==
  ASSUME AuthorityInv, NEW o \in Ops, MayDispatch(o), NEW q \in Ops, SameFrozenGroup(o, q)
  PROVE  state[q] \notin {"pending", "unknown"}
<1> DEFINE s == groups[GroupOf(o)]
<1>1. /\ On(o) \in Tabs \cup Browsers
      /\ GroupOf(o) \in GroupIds /\ GroupOf(q) = GroupOf(o)
  BY RequestType DEF SameFrozenGroup, Lanes
<1>2. s.admission = "Open"
  BY <1>1, SchedulerAssumption
     DEF MayDispatch, Validates, ValidatesBridgeGlobal, OpenOwner
<1>3. ~ HasUnresolved(s)
  BY <1>1, <1>2 DEF AuthorityInv, GroupsFrozen, FrozenGroup
<1>4. {p \in Unsettled : GroupOf(p) = GroupOf(o)} = {}
  BY <1>1, <1>3 DEF AuthorityInv, SettlementsExact, HasUnresolved
<1>5. QED
  BY <1>1, <1>4 DEF Unsettled

\* The status of every operation, which stands for `status` of the promise.
StatusMap == [o \in Ops |-> StatusOf(o)]

LEMMA PromiseInit == Init => Promise!Init
BY DEF Init, Promise!Init, StatusOf

LEMMA PromiseNext == AuthorityInv /\ [Next]_vars => Promise!Next
<1> SUFFICES ASSUME AuthorityInv, [Next]_vars, NEW o \in Ops
             PROVE  \/ Promise!Accept(o) \/ Promise!TurnAway(o) \/ Promise!Start(o)
                    \/ Promise!LoseOutcome(o) \/ Promise!Close(o) \/ Promise!Forget(o)
                    \/ StatusMap'[o] = StatusMap[o]
  BY DEF Promise!Next, StatusMap
<1>1. Step(o)
  BY NextSteps DEF AuthorityInv, Steps
<1>2. state[o] \in OperationStates
  BY DEF AuthorityInv, OperationInv, TypeOK, OperationTypes
<1>3. CASE state'[o] = state[o]
  BY <1>2, <1>3 DEF OperationStates, StatusMap, StatusOf
<1>4. CASE state[o] = "new" /\ state'[o] \in {"queued", "terminal"}
  BY <1>4 DEF Promise!Accept, Promise!TurnAway, Promise!Moves, StatusOf
<1>5. CASE state[o] = "queued" /\ state'[o] = "dispatched" /\ MayDispatch(o)
  <2>1. Promise!Moves(o, "accepted", "running")
    BY <1>5 DEF Promise!Moves, StatusOf
  <2>2. \A q \in Ops : SameFrozenGroup(o, q) => StatusMap[q] # "unsettled"
    <3> SUFFICES ASSUME NEW q \in Ops, SameFrozenGroup(o, q)
                 PROVE  StatusMap[q] # "unsettled"
      OBVIOUS
    <3>1. state[q] \in OperationStates \ {"pending", "unknown"}
      BY <1>5, OpenGroupSettled DEF AuthorityInv, OperationInv, TypeOK, OperationTypes
    <3>2. QED
      BY <3>1 DEF OperationStates, StatusMap, StatusOf
  <2>3. QED
    BY <2>1, <2>2 DEF Promise!Start, StatusMap
<1>6. CASE state[o] = "dispatched" /\ state'[o] = "pending" /\ NeedsSettlement(o)
  BY <1>6 DEF Promise!LoseOutcome, Promise!Moves, StatusOf
<1>7. CASE state[o] = "pending" /\ state'[o] = "unknown"
  BY <1>7 DEF StatusMap, StatusOf
<1>8. CASE state[o] # "new" /\ state'[o] = "terminal"
  BY <1>2, <1>8
     DEF OperationStates, Promise!TurnAway, Promise!Close, Promise!Moves, StatusMap, StatusOf
<1>9. CASE state[o] = "terminal" /\ state'[o] = "new"
  BY <1>9 DEF Promise!Forget, Promise!Moves, StatusOf
<1>10. QED
  BY <1>1, <1>3, <1>4, <1>5, <1>6, <1>7, <1>8, <1>9 DEF Step

\* The scheduler keeps the promise of AtMostOnce: an accepted operation starts at
\* most once, and nothing of a group starts on top of an unknown outcome.
THEOREM PromiseKept == Spec => KeepsPromise
<1>1. AuthorityInv /\ TypeOK' /\ [Next]_vars
        => [ /\ [o \in Ops |-> StatusOf(o)]' \in [Ops -> Promise!Statuses]
             /\ Promise!Next ]_[o \in Ops |-> StatusOf(o)]
  <2> SUFFICES ASSUME AuthorityInv, TypeOK', [Next]_vars
               PROVE  [o \in Ops |-> StatusOf(o)]' \in [Ops -> Promise!Statuses]
    BY PromiseNext
  <2>1. QED
    BY DEF TypeOK, OperationTypes, OperationStates, StatusOf, Promise!Statuses
<1>2. QED
  BY <1>1, PromiseInit, TypeCorrect, AuthorityInvariant, PTL
     DEF Spec, KeepsPromise, Promise!Spec
-----------------------------------------------------------------------------
(* Mutual exclusion of the lanes.  reject_before_dispatch clears the flag  *)
(* of a lane it does not own when a browser is lost, and then it fails     *)
(* (run lost_exclusion).  This is the proof that nothing else breaks it:   *)
(* as long as no browser is lost, operations are exclusive.                *)

ExclusionInv == Exclusive /\ LaneFlagsExact /\ phase # "rejecting"

\* Nothing runs that lane must wait for.
Free(lane) ==
  \A l \in busy : /\ l # lane /\ l # Daemon /\ lane # Daemon
                  /\ lane \in Browsers => LaneBrowser(l) # lane
                  /\ l \in Browsers => LaneBrowser(lane) # l

LEMMA SameExclusion ==
  ASSUME ExclusionInv, Dispatched' = Dispatched, busy' = busy, phase' # "rejecting"
  PROVE  ExclusionInv'
BY DEF ExclusionInv, Exclusive, LaneFlagsExact

LEMMA ExecutedExclusion ==
  ASSUME OperationInv, CountersExact, ExclusionInv, NEW o \in Ops, NEW outcome,
         Executed(o, outcome)
  PROVE  ExclusionInv'
<1>1. /\ o \in Dispatched /\ Dispatched' = Dispatched \ {o}
      /\ busy' = busy \ {On(o)} /\ phase' # "rejecting"
  BY ExecutedCounters DEF Executed, ReleaseExecutorCapacity, BusyWithout, Dispatching
<1>2. \A q \in Dispatched \ {o} : On(q) # On(o)
  BY <1>1 DEF ExclusionInv, Exclusive
<1>3. Exclusive'
  BY <1>1 DEF ExclusionInv, Exclusive
<1>4. LaneFlagsExact'
  BY <1>1, <1>2 DEF ExclusionInv, LaneFlagsExact
<1>5. QED
  BY <1>1, <1>3, <1>4 DEF ExclusionInv

LEMMA DequeueExclusion ==
  ASSUME OperationInv, CountersExact, ExclusionInv, NEW lane \in Lanes,
         queue[lane] # <<>>, Free(lane), phase = "dispatching", Dequeue(lane)
  PROVE  ExclusionInv'
<1> DEFINE o == Head(queue[lane])
<1>1. /\ o \in Queued /\ On(o) = lane /\ phase' # "rejecting"
      /\ Dispatched' = IF MayDispatch(o) THEN Dispatched \cup {o} ELSE Dispatched
  BY DequeueCounters DEF Dequeue
<1>2. IF MayDispatch(o) THEN MarkDispatched(o) ELSE RejectBeforeDispatch(o)
  BY DEF Dequeue
<1> HIDE DEF o
<1>3. lane \notin busy
  BY DEF Free
<1>4. CASE ~ MayDispatch(o)
  <2>1. busy' = busy
    BY <1>1, <1>2, <1>3, <1>4 DEF RejectBeforeDispatch
  <2>2. QED
    BY <1>1, <1>4, <2>1, SameExclusion
<1>5. CASE MayDispatch(o)
  <2>1. Dispatched' = Dispatched \cup {o} /\ busy' = busy \cup {lane}
    BY <1>1, <1>2, <1>5 DEF MarkDispatched
  <2>2. LaneFlagsExact'
    BY <1>1, <2>1 DEF ExclusionInv, LaneFlagsExact
  <2>3. \A q \in Dispatched :
          /\ On(q) # lane /\ On(q) # Daemon /\ lane # Daemon
          /\ lane \in Browsers => LaneBrowser(On(q)) # lane
          /\ On(q) \in Browsers => LaneBrowser(lane) # On(q)
    BY DEF ExclusionInv, LaneFlagsExact, Free
  <2>4. Exclusive'
    <3> SUFFICES ASSUME NEW p \in Dispatched \cup {o}, NEW q \in Dispatched \cup {o}, p # q
                 PROVE  /\ On(p) # On(q) /\ On(p) # Daemon
                        /\ On(p) \in Browsers /\ On(q) # Daemon => LaneBrowser(On(q)) # On(p)
      BY <2>1 DEF Exclusive
    <3>1. CASE p \in Dispatched /\ q \in Dispatched
      BY <3>1 DEF ExclusionInv, Exclusive
    <3>2. CASE p = o /\ q \in Dispatched
      BY <1>1, <2>3, <3>2
    <3>3. CASE p \in Dispatched /\ q = o
      BY <1>1, <2>3, <3>3
    <3>4. QED
      BY <3>1, <3>2, <3>3
  <2>5. QED
    BY <1>1, <2>2, <2>4 DEF ExclusionInv
<1>6. QED
  BY <1>4, <1>5

LEMMA DispatchExclusion ==
  ASSUME OperationInv, CountersExact, ExclusionInv, Dispatch
  PROVE  ExclusionInv'
<1>1. busy \subseteq Lanes
  BY DEF OperationInv, TypeOK, LaneTypes
<1>2. CASE DispatchDaemonGlobal
  <2>1. Free(Daemon)
    BY <1>2 DEF DispatchDaemonGlobal, Free
  <2>2. QED
    BY <1>2, <2>1, DequeueExclusion DEF DispatchDaemonGlobal, DaemonFirst, Lanes
<1>3. ASSUME NEW t \in Tabs, DispatchTab(t)
      PROVE  ExclusionInv'
  <2>1. Free(t)
    BY <1>1, <1>3, SchedulerAssumption
       DEF DispatchTab, Looking, EligibleTab, Free, Lanes, LaneBrowser
  <2>2. QED
    BY <1>3, <2>1, DequeueExclusion DEF DispatchTab, Looking, EligibleTab, Lanes
<1>4. ASSUME NEW b \in Browsers, DispatchBridgeGlobal(b)
      PROVE  ExclusionInv'
  <2>1. Free(b)
    BY <1>1, <1>4, SchedulerAssumption
       DEF DispatchBridgeGlobal, Looking, EligibleBrowser, ActiveFor, Free, Lanes, LaneBrowser
  <2>2. QED
    BY <1>4, <2>1, DequeueExclusion DEF DispatchBridgeGlobal, Looking, EligibleBrowser, Lanes
<1>5. CASE DispatchDone
  BY <1>5, SameExclusion DEF DispatchDone, opVars, Dispatched
<1>6. QED
  BY <1>2, <1>3, <1>4, <1>5 DEF Dispatch

LEMMA ExclusionNext ==
  ASSUME "lose" \notin Commands, OperationInv, CountersExact, ExclusionInv, [Next]_vars
  PROVE  ExclusionInv'
<1>1. CASE UNCHANGED vars
  BY <1>1, SameExclusion DEF vars, opVars, laneVars, Dispatched, ExclusionInv
<1>2. ASSUME NEW o \in Ops, Submit(o)
      PROVE  ExclusionInv'
  <2>1. busy' = busy /\ phase' # "rejecting"
    BY <1>2 DEF Submit, Accepting, Attach, AdmitCancelled, Enqueue, Refuse, laneVars
  <2>2. QED
    BY <1>2, <2>1, SubmitCounters, SameExclusion
<1>3. ASSUME NEW o \in Ops, NEW client, Cancel(o, client)
      PROVE  ExclusionInv'
  <2>1. busy' = busy /\ phase' # "rejecting"
    BY <1>3 DEF Cancel, Dispatching, RememberIntent, CancelQueued, Detach, laneVars
  <2>2. QED
    BY <1>3, <2>1, CancelCounters, SameExclusion
<1>4. ASSUME NEW o \in Ops, NEW outcome, Settle(o, outcome)
      PROVE  ExclusionInv'
  <2>1. busy' = busy /\ phase' # "rejecting"
    BY <1>4 DEF Settle, Dispatching, laneVars
  <2>2. QED
    BY <1>4, <2>1, SettleCounters, SameExclusion
<1>5. ASSUME NEW o \in Ops, CancelVictim(o) \/ RejectVictim(o)
      PROVE  ExclusionInv'
  <2>1. CancelVictim(o)
    BY <1>5 DEF RejectVictim, ExclusionInv
  <2>2. busy' = busy /\ phase' # "rejecting"
    BY <2>1 DEF CancelVictim, Swept, CancelQueued
  <2>3. QED
    BY <1>5, <2>2, VictimCounters, SameExclusion
<1>6. ASSUME NEW g \in GroupIds, GroupCommand(g)
      PROVE  ExclusionInv'
  <2>1. busy' = busy /\ Dispatched' = Dispatched
    BY <1>6, GroupCommandQuiet DEF OnlyGroups, opVars, laneVars, Dispatched
  <2>2. phase' # "rejecting"
    BY <1>6 DEF GroupCommand, CreateGroup, AddMember, Renew, ResumeRecovered, EndGroup,
       OfferHandoff, ForceHandoff, AcceptHandoff, Dispatching, Sweep
  <2>3. QED
    BY <2>1, <2>2, SameExclusion
<1>7. CASE \/ \E principal \in Principals : Disconnect(principal)
           \/ PruneReleased \/ Query \/ Elapse \/ Tick
  <2>1. busy' = busy /\ phase' # "rejecting"
    BY <1>7 DEF Disconnect, Detach, Sweep, PruneReleased, OnlyGroups, Query, Elapse, Tick,
       Dispatching, laneVars, ExclusionInv
  <2>2. QED
    BY <1>7, <2>1, OtherCommandQuiet, SameExclusion
<1>8. \A b \in Browsers : ~ BrowserLost(b)
  BY DEF BrowserLost, Command
<1>9. QED
  BY <1>1, <1>2, <1>3, <1>4, <1>5, <1>6, <1>7, <1>8, ExecutedExclusion, DispatchExclusion
     DEF Next, OperationCommand

LEMMA ExclusionInvariant ==
  ASSUME "lose" \notin Commands
  PROVE  Spec => []ExclusionInv
<1>1. Init => ExclusionInv
  BY DEF Init, ExclusionInv, Exclusive, LaneFlagsExact, Dispatched
<1>2. OperationInv /\ CountersExact /\ ExclusionInv /\ [Next]_vars => ExclusionInv'
  BY ExclusionNext
<1>3. QED
  BY <1>1, <1>2, CountersCorrect, OperationsInvariant, PTL DEF Spec

\* Unless a browser is lost, operations on a tab run one at a time, those on a
\* browser alone on it and those on the daemon alone.
THEOREM Exclusion ==
  ASSUME "lose" \notin Commands
  PROVE  Spec => []Exclusive
<1>1. ExclusionInv => Exclusive
  BY DEF ExclusionInv
<1>2. QED
  BY <1>1, ExclusionInvariant, PTL

\* Unless a browser is lost, the in-flight flags say which lanes are taken.
THEOREM LaneFlags ==
  ASSUME "lose" \notin Commands
  PROVE  Spec => []LaneFlagsExact
<1>1. ExclusionInv => LaneFlagsExact
  BY DEF ExclusionInv
<1>2. QED
  BY <1>1, ExclusionInvariant, PTL
-----------------------------------------------------------------------------
(* Who a group belongs to while one of its operations is in flight.        *)

Grouped(o) == GroupOf(o) # NoGroup

\* Closed, until an outcome or the end of the group.
Shut(s) == s.admission \in {"RecoveryRequired", "ExpiryPending"}

\* What a step may do to a group while an operation of it is in flight and none of
\* it finishes.
Stays(s, t) ==
  /\ t.principal = s.principal
  /\ ~ HasUnresolved(s) /\ s.admission # "Released" =>
       /\ ~ HasUnresolved(t) /\ t.admission # "Released"
       /\ Shut(s) => Shut(t)

LEMMA StaysSame ==
  ASSUME NEW s
  PROVE  Stays(s, s)
BY DEF Stays

LEMMA UnexpiredStays ==
  ASSUME NEW s \in GroupState
  PROVE  Stays(s, Unexpired(s))
BY Zenon DEF Unexpired, LeaseIn, GroupState, Stays, HasUnresolved, Shut

LEMMA OlderStays ==
  ASSUME NEW s \in GroupState
  PROVE  Stays(s, Older(s))
BY Zenon DEF Older, GroupState, Stays, HasUnresolved, Shut

LEMMA DisconnectedStays ==
  ASSUME NEW s \in GroupState, NEW p
  PROVE  Stays(s, MarkDisconnected(s, p))
BY Zenon DEF MarkDisconnected, Orphaned, GroupState, Stays, HasUnresolved, Shut

LEMMA WithMemberStays ==
  ASSUME NEW s \in GroupState, NEW t
  PROVE  Stays(s, WithMember(s, t))
BY Zenon DEF WithMember, GroupState, Stays, HasUnresolved, Shut

LEMMA BrowserLostStays ==
  ASSUME NEW s \in GroupState, NEW b
  PROVE  Stays(s, AfterBrowserLost(s, b))
BY Zenon DEF AfterBrowserLost, LeaseIn, GroupState, Stays, HasUnresolved, Shut

LEMMA OfferedStays ==
  ASSUME NEW s \in GroupState, s.admission = "Open", NEW p, NEW r
  PROVE  Stays(s, Offered(s, p, r))
BY Zenon DEF Offered, GroupState, Stays, HasUnresolved, Shut

LEMMA ResumedStays ==
  ASSUME NEW s \in GroupState, s.admission = "Suspended", NEW l
  PROVE  Stays(s, Resumed(s, l))
BY Zenon DEF Resumed, Unexpired, LeaseIn, GroupState, Stays, HasUnresolved, Shut

LEMMA EndedStays ==
  ASSUME NEW s \in GroupState, NEW n, n # 0
  PROVE  Stays(s, Ended(s, n))
BY Zenon DEF Ended, LeaseIn, GroupState, Stays, HasUnresolved, Shut

LEMMA ExpireStays ==
  ASSUME NEW s \in GroupState, NEW n, n # 0
  PROVE  Stays(s, Expire(s, n))
BY Zenon DEF Expire, LeaseIn, GroupState, Stays, HasUnresolved, Shut

LEMMA MarkUnknownStays ==
  ASSUME NEW s \in GroupState, NEW ops
  PROVE  Stays(s, MarkUnknown(s, ops))
<1>1. CASE HasUnresolved(s)
  BY <1>1, Zenon DEF MarkUnknown, GroupState, Stays, HasUnresolved
<1>2. CASE ~ HasUnresolved(s)
  <2>1. ops \cap s.pending = {}
    BY <1>2 DEF HasUnresolved
  <2>2. MarkUnknown(s, ops).admission = s.admission
        /\ MarkUnknown(s, ops).pending = s.pending
        /\ MarkUnknown(s, ops).principal = s.principal
    BY <2>1, Zenon DEF MarkUnknown, GroupState
  <2>3. QED
    BY <2>2, Zenon DEF Stays, HasUnresolved, Shut
<1>3. QED
  BY <1>1, <1>2

\* Two changes in a row.
LEMMA StaysTwice ==
  ASSUME NEW s, NEW r, NEW t, Stays(s, r), Stays(r, t)
  PROVE  Stays(s, t)
BY DEF Stays

\* What is known of a group with an operation in flight.
LEMMA GroupInFlight ==
  ASSUME AuthorityInv, NEW o \in Dispatched, Grouped(o)
  PROVE  LET g == GroupOf(o)  s == groups[g] IN
         /\ g \in GroupIds /\ s \in GroupState /\ FrozenGroup(s) /\ s.present
         /\ in_flight_by_group[g] # 0
<1>1. o \in Ops /\ GroupOf(o) \in GroupIds
  BY RequestType DEF Dispatched, Grouped
<1>2. in_flight_by_group[GroupOf(o)] # 0
  BY <1>1, NoneInFlight DEF AuthorityInv
<1>3. QED
  BY <1>1, <1>2, OwnSettlements

\* A command about a group does not change the owner of any group with an operation
\* in flight, unless it creates it anew.
LEMMA GroupCommandStays ==
  ASSUME AuthorityInv, NEW h \in GroupIds, GroupCommand(h),
         NEW o \in Dispatched, Grouped(o), groups[GroupOf(o)].admission # "Released"
  PROVE  Stays(groups[GroupOf(o)], groups'[GroupOf(o)])
<1> DEFINE g == GroupOf(o)  s == groups[g]
<1>1. /\ g \in GroupIds /\ s \in GroupState /\ s.present /\ in_flight_by_group[g] # 0
      /\ s.admission # "Released" /\ groups \in [GroupIds -> GroupState]
  BY GroupInFlight DEF AuthorityInv, OperationInv, TypeOK, GroupTypes
<1> HIDE DEF g
<1> SUFFICES Stays(s, groups'[g])
  BY DEF g
<1>2. ASSUME NEW t, groups' = [groups EXCEPT ![h] = t], h = g => Stays(s, t)
      PROVE  Stays(s, groups'[g])
  BY <1>1, <1>2, StaysSame
<1>3. CASE CreateGroup(h)
  <2>1. h # g
    BY <1>1, <1>3 DEF CreateGroup, Creatable
  <2>2. QED
    BY <1>2, <1>3, <2>1 DEF CreateGroup
<1>4. ASSUME NEW principal, NEW t, AddMember(h, principal, t)
      PROVE  Stays(s, groups'[g])
  BY <1>1, <1>2, <1>4, WithMemberStays DEF AddMember
<1>5. ASSUME NEW p, NEW principal, Renew(h, p, principal)
      PROVE  Stays(s, groups'[g])
  BY <1>1, <1>2, <1>5, UnexpiredStays DEF Renew
<1>6. ASSUME NEW principal, NEW members, NEW revision,
             ResumeRecovered(h, principal, members, revision)
      PROVE  Stays(s, groups'[g])
  BY <1>1, <1>2, <1>6, ResumedStays DEF ResumeRecovered, CanResume
<1>7. ASSUME NEW principal, EndGroup(h, principal)
      PROVE  Stays(s, groups'[g])
  BY <1>1, <1>2, <1>7, StaysSame, EndedStays DEF EndGroup
<1>8. ASSUME NEW principal, NEW target, NEW revision,
             OfferHandoff(h, principal, target, revision)
      PROVE  Stays(s, groups'[g])
  BY <1>1, <1>2, <1>8, OfferedStays DEF OfferHandoff, CanOffer, OpenOwner
<1>9. ASSUME NEW principal, NEW target, NEW revision,
             \/ ForceHandoff(h, principal, target, revision)
             \/ AcceptHandoff(h, target, revision)
      PROVE  Stays(s, groups'[g])
  <2>1. h # g
    BY <1>1, <1>9 DEF ForceHandoff, CanForce, AcceptHandoff, CanAccept
  <2>2. QED
    BY <1>2, <1>9, <2>1 DEF ForceHandoff, AcceptHandoff
<1>10. QED
  BY <1>3, <1>4, <1>5, <1>6, <1>7, <1>8, <1>9 DEF GroupCommand

\* Nor does any other command or the clock.
LEMMA OtherCommandStays ==
  ASSUME AuthorityInv, NEW o \in Dispatched, Grouped(o),
         \/ \E principal \in Principals : Disconnect(principal)
         \/ \E b \in Browsers : BrowserLost(b)
         \/ PruneReleased \/ Query \/ Elapse \/ Tick
  PROVE  Stays(groups[GroupOf(o)], groups'[GroupOf(o)])
<1> DEFINE g == GroupOf(o)  s == groups[g]
<1>1. /\ g \in GroupIds /\ s \in GroupState /\ in_flight_by_group[g] # 0
  BY GroupInFlight
<1> HIDE DEF g
<1> SUFFICES Stays(s, groups'[g])
  BY DEF g
<1>2. ASSUME NEW principal, Disconnect(principal)
      PROVE  Stays(s, groups'[g])
  BY <1>1, <1>2, DisconnectedStays DEF Disconnect
<1>3. ASSUME NEW b, BrowserLost(b)
      PROVE  Stays(s, groups'[g])
  BY <1>1, <1>3, BrowserLostStays DEF BrowserLost
<1>4. CASE PruneReleased
  BY <1>1, <1>4, StaysSame DEF PruneReleased, Prunable
<1>5. CASE Query
  BY <1>5, StaysSame DEF Query, groupVars
<1>6. CASE Elapse
  BY <1>1, <1>6, OlderStays DEF Elapse
<1>7. CASE Tick
  <2> DEFINE r == MarkUnknown(s, {q \in Overdue : GroupOf(q) = g})
             t == Expire(r, in_flight_by_group[g])
  <2>1. groups'[g] = t
    BY <1>1, <1>7 DEF Tick, Ticked
  <2>2. r \in GroupState /\ Stays(s, r)
    BY <1>1, MarkUnknownType, MarkUnknownStays DEF Overdue
  <2> HIDE DEF r
  <2>3. Stays(r, t)
    BY <1>1, <2>2, ExpireStays
  <2> HIDE DEF t
  <2>4. QED
    BY <2>1, <2>2, <2>3, StaysTwice
<1>8. QED
  BY <1>2, <1>3, <1>4, <1>5, <1>6, <1>7

\* The answer of one operation leaves the owner of every group alone, and every
\* other group altogether.
LEMMA FinishExecutionOwner ==
  ASSUME NEW s \in GroupState
  PROVE  FinishExecution(s).principal = s.principal
BY Zenon DEF FinishExecution, ReleaseExpired, LeaseIn, GroupState

LEMMA ExecutedOwner ==
  ASSUME AuthorityInv, NEW q \in Ops, NEW outcome, Executed(q, outcome), NEW g \in GroupIds
  PROVE  /\ groups[g].present => groups'[g].principal = groups[g].principal
         /\ g # GroupOf(q) => groups'[g] = groups[g]
<1> DEFINE s == groups[GroupOf(q)]
<1>1. PICK t : /\ groups' = WithGroup(q, t)
               /\ \/ t = FinishExecution(s)
                  \/ t = BeginSettlement(s, q)
                  \/ \E outcome2 : t = Settled(q, BeginSettlement(s, q), outcome2)
  BY DEF Executed, CompleteTerminal, CompleteAmbiguous, CompleteSettled
<1>2. groups'[g] = IF g = GroupOf(q) THEN t ELSE groups[g]
  BY <1>1, SchedulerAssumption
     DEF WithGroup, AuthorityInv, OperationInv, TypeOK, GroupTypes
<1>3. ASSUME g = GroupOf(q), groups[g].present
      PROVE  t.principal = groups[g].principal
  <2>1. s \in GroupState /\ FrozenGroup(s) /\ s.present
    BY <1>3, OwnSettlements
  <2> DEFINE b == BeginSettlement(s, q)
  <2>2. b \in GroupState /\ FrozenGroup(b) /\ b.principal = s.principal
    BY <2>1, BeginEffect, SettlementType
  <2>3. \A outcome2 : Settled(q, b, outcome2).principal = s.principal
    <3> HIDE DEF b
    <3>1. \A outcome2 : SettledTo(b, q, Settled(q, b, outcome2))
      BY <2>2, SettledEffect
    <3>2. QED
      BY <2>2, <3>1 DEF SettledTo
  <2>4. QED
    BY <1>1, <1>3, <2>1, <2>2, <2>3, FinishExecutionOwner
<1>4. QED
  BY <1>2, <1>3

\* A settlement that arrives: its group had it pending.
LEMMA SettleStays ==
  ASSUME AuthorityInv, NEW q \in Ops, NEW outcome, Settle(q, outcome), NEW g \in GroupIds
  PROVE  Stays(groups[g], groups'[g])
<1>1. CASE SettleEarly(q, outcome)
  BY <1>1, StaysSame DEF SettleEarly
<1>2. CASE SettleNow(q, outcome)
  <2> DEFINE s == groups[GroupOf(q)]  t == Settled(q, s, outcome)
  <2>1. groups' = WithGroup(q, t) /\ q \in Unsettled
    BY <1>2 DEF SettleNow, Unsettled
  <2>2. groups'[g] = IF g = GroupOf(q) THEN t ELSE groups[g]
    BY <2>1, SchedulerAssumption
       DEF WithGroup, AuthorityInv, OperationInv, TypeOK, GroupTypes
  <2>3. CASE g = GroupOf(q)
    <3>1. s \in GroupState /\ FrozenGroup(s) /\ HasUnresolved(s)
      BY <2>1, <2>3, OwnSettlements DEF HasUnresolved
    <3>2. SettledTo(s, q, t)
      BY <3>1, SettledEffect
    <3> HIDE DEF t
    <3>3. QED
      BY <2>2, <2>3, <3>1, <3>2 DEF SettledTo, Stays
  <2>4. CASE g # GroupOf(q)
    BY <2>2, <2>4, StaysSame
  <2>5. QED
    BY <2>3, <2>4
<1>3. QED
  BY <1>1, <1>2 DEF Settle

\* A lane that is free is served: its operation leaves, or is turned away and
\* nothing else happens.
LEMMA Departs ==
  ASSUME AuthorityInv, NEW lane \in Lanes, queue[lane] # <<>>, lane \notin busy,
         Dequeue(lane)
  PROVE  \/ \E o \in Queued :
              /\ On(o) = lane /\ MayDispatch(o)
              /\ Dispatched' = Dispatched \cup {o} /\ busy' = busy \cup {lane}
              /\ \/ groups' = groups
                 \/ groups' = [groups EXCEPT ![GroupOf(o)] = Unexpired(@)]
         \/ Dispatched' = Dispatched /\ busy' = busy /\ groups' = groups
<1> DEFINE o == Head(queue[lane])
<1>1. /\ o \in Queued /\ On(o) = lane
      /\ Dispatched' = IF MayDispatch(o) THEN Dispatched \cup {o} ELSE Dispatched
  BY DequeueCounters DEF AuthorityInv
<1>2. IF MayDispatch(o) THEN MarkDispatched(o) ELSE RejectBeforeDispatch(o)
  BY DEF Dequeue
<1> HIDE DEF o
<1>3. CASE ~ MayDispatch(o)
  BY <1>1, <1>2, <1>3 DEF RejectBeforeDispatch, groupVars
<1>4. CASE MayDispatch(o)
  BY <1>1, <1>2, <1>4, Zenon DEF MarkDispatched
<1>5. QED
  BY <1>3, <1>4

\* A pass of the loop serves one lane, or none.
LEMMA Passes ==
  ASSUME AuthorityInv, Dispatch
  PROVE  \/ \E lane \in Lanes : queue[lane] # <<>> /\ lane \notin busy /\ Dequeue(lane)
                                /\ phase = "dispatching"
         \/ Dispatched' = Dispatched /\ busy' = busy /\ groups' = groups /\ phase' = "idle"
<1>1. CASE DispatchDaemonGlobal
  BY <1>1 DEF DispatchDaemonGlobal, DaemonFirst, Lanes
<1>2. ASSUME NEW t \in Tabs, DispatchTab(t)
      PROVE  queue[t] # <<>> /\ t \notin busy /\ Dequeue(t) /\ phase = "dispatching"
  BY <1>2 DEF DispatchTab, EligibleTab, Looking
<1>3. ASSUME NEW b \in Browsers, DispatchBridgeGlobal(b)
      PROVE  queue[b] # <<>> /\ b \notin busy /\ Dequeue(b) /\ phase = "dispatching"
  BY <1>3 DEF DispatchBridgeGlobal, EligibleBrowser, Looking
<1>4. CASE DispatchDone
  BY <1>4 DEF DispatchDone, opVars, groupVars, Dispatched
<1>5. QED
  BY <1>1, <1>2, <1>3, <1>4 DEF Dispatch, Lanes

\* Commands about operations other than answers and settlements, and sweeps, leave
\* the groups and what is in flight alone.
LEMMA QuietOperations ==
  ASSUME AuthorityInv, NEW o \in Ops,
         \/ Submit(o) \/ (\E client \in Clients : Cancel(o, client))
         \/ CancelVictim(o) \/ RejectVictim(o)
  PROVE  groups' = groups /\ Dispatched' = Dispatched
<1>1. CASE Submit(o)
  BY <1>1, SubmitCounters
     DEF Submit, Attach, AdmitCancelled, Enqueue, Refuse, groupVars, AuthorityInv
<1>2. ASSUME NEW client, Cancel(o, client)
      PROVE  groups' = groups /\ Dispatched' = Dispatched
  BY <1>2, CancelCounters
     DEF Cancel, RememberIntent, CancelQueued, Detach, groupVars, AuthorityInv
<1>3. CASE CancelVictim(o) \/ RejectVictim(o)
  BY <1>3, VictimCounters
     DEF CancelVictim, CancelQueued, RejectVictim, RejectBeforeDispatch, groupVars,
         AuthorityInv
<1>4. QED
  BY <1>1, <1>2, <1>3
-----------------------------------------------------------------------------
(* An operation in flight works for the owner of its group.                 *)

\* RunsForOwner, for operations on the browser itself too.
ForOwner ==
  \A o \in Dispatched : Grouped(o) => groups[GroupOf(o)].principal = PrincipalOf(o)

LEMMA OwnerKept ==
  ASSUME AuthorityInv, ForOwner, Dispatched' \subseteq Dispatched,
         \A o \in Dispatched : Grouped(o) =>
           groups'[GroupOf(o)].principal = groups[GroupOf(o)].principal
  PROVE  ForOwner'
BY DEF ForOwner

LEMMA DispatchOwner ==
  ASSUME AuthorityInv, ForOwner, Dispatch
  PROVE  ForOwner'
<1>1. CASE Dispatched' = Dispatched /\ groups' = groups
  BY <1>1, OwnerKept
<1>2. ASSUME NEW o \in Queued, MayDispatch(o), Dispatched' = Dispatched \cup {o},
             \/ groups' = groups
             \/ groups' = [groups EXCEPT ![GroupOf(o)] = Unexpired(@)]
      PROVE  ForOwner'
  <2>1. groups \in [GroupIds -> GroupState]
    BY DEF AuthorityInv, OperationInv, TypeOK, GroupTypes
  <2>2. ASSUME NEW g \in GroupIds
        PROVE  groups'[g].principal = groups[g].principal
    BY <1>2, <2>1, UnexpiredStays DEF Stays
  <2>3. Grouped(o) => groups[GroupOf(o)].principal = PrincipalOf(o)
    BY <1>2, RequestType, SchedulerAssumption
       DEF MayDispatch, Validates, ValidatesBridgeGlobal, OpenOwner, Grouped, Lanes, Queued,
           On, GroupOf
  <2>4. \A q \in Dispatched \cup {o} : Grouped(q) => GroupOf(q) \in GroupIds
    BY RequestType DEF Grouped, Dispatched, Queued
  <2>5. QED
    BY <1>2, <2>2, <2>3, <2>4 DEF ForOwner
<1>3. QED
  BY <1>1, <1>2, Passes, Departs

LEMMA OwnerNext ==
  ASSUME AuthorityInv, NotReleasedInFlight, ForOwner, [Next]_vars
  PROVE  ForOwner'
<1>1. \A o \in Dispatched : Grouped(o) => /\ groups[GroupOf(o)].admission # "Released"
                                          /\ GroupOf(o) \in GroupIds
                                          /\ groups[GroupOf(o)].present
  BY GroupInFlight DEF NotReleasedInFlight, Grouped
<1>2. CASE UNCHANGED vars
  BY <1>2, OwnerKept DEF vars, opVars, groupVars, Dispatched
<1>3. ASSUME NEW o \in Ops,
             \/ Submit(o) \/ (\E client \in Clients : Cancel(o, client))
             \/ CancelVictim(o) \/ RejectVictim(o)
      PROVE  ForOwner'
  BY <1>3, QuietOperations, OwnerKept
<1>4. ASSUME NEW o \in Ops, NEW outcome, Executed(o, outcome)
      PROVE  ForOwner'
  <2>1. Dispatched' \subseteq Dispatched
    BY <1>4, ExecutedCounters DEF AuthorityInv
  <2>2. QED
    BY <1>1, <1>4, <2>1, ExecutedOwner, OwnerKept
<1>5. ASSUME NEW o \in Ops, NEW outcome, Settle(o, outcome)
      PROVE  ForOwner'
  <2>1. Dispatched' = Dispatched
    BY <1>5, SettleCounters DEF AuthorityInv
  <2>2. QED
    BY <1>1, <1>5, <2>1, SettleStays, OwnerKept DEF Stays
<1>6. ASSUME NEW h \in GroupIds, GroupCommand(h)
      PROVE  ForOwner'
  <2>1. Dispatched' = Dispatched
    BY <1>6, GroupCommandQuiet DEF OnlyGroups, opVars, Dispatched
  <2>2. QED
    BY <1>1, <1>6, <2>1, GroupCommandStays, OwnerKept DEF Stays
<1>7. CASE \/ \E principal \in Principals : Disconnect(principal)
           \/ \E b \in Browsers : BrowserLost(b)
           \/ PruneReleased \/ Query \/ Elapse \/ Tick
  <2>1. Dispatched' = Dispatched
    BY <1>7, OtherCommandQuiet
  <2>2. QED
    BY <1>7, <2>1, OtherCommandStays, OwnerKept DEF Stays
<1>8. QED
  BY <1>2, <1>3, <1>4, <1>5, <1>6, <1>7, DispatchOwner DEF Next, OperationCommand

\* As long as no group is released under an operation in flight, none changes hands
\* under one either: an operation on a tab works for the owner of the tab's group.
THEOREM OwnerKeepsGroup == Spec /\ []NotReleasedInFlight => []RunsForOwner
<1>1. Init => ForOwner
  BY DEF Init, ForOwner, Dispatched
<1>2. AuthorityInv /\ NotReleasedInFlight /\ ForOwner /\ [Next]_vars => ForOwner'
  BY OwnerNext
<1>3. ForOwner => RunsForOwner
  BY RequestType, SchedulerAssumption DEF ForOwner, RunsForOwner, Grouped, Dispatched
<1>4. QED
  BY <1>1, <1>2, <1>3, AuthorityInvariant, PTL DEF Spec
-----------------------------------------------------------------------------
(* A group holds tabs of its own browser.                                   *)

Home(g, s) == s.browser_instance_id = HomeOf[g] /\ s.members \subseteq TabsOf(g)

AtHome == \A g \in GroupIds : Home(g, groups[g])

\* A change that adds no tab.
Narrows(s, t) ==
  t.browser_instance_id = s.browser_instance_id /\ t.members \subseteq s.members

LEMMA LeaseNarrows ==
  ASSUME NEW s \in GroupState, NEW p, NEW r, NEW n, NEW l
  PROVE  /\ Narrows(s, Unexpired(s)) /\ Narrows(s, Older(s))
         /\ Narrows(s, MarkDisconnected(s, p)) /\ Narrows(s, Offered(s, p, r))
         /\ Narrows(s, Moved(s, p)) /\ Narrows(s, Resumed(s, l)) /\ Narrows(s, Pruned(s))
<1>1. /\ Narrows(s, Unexpired(s)) /\ Narrows(s, Moved(s, p)) /\ Narrows(s, Resumed(s, l))
  BY Zenon DEF Unexpired, LeaseIn, Moved, Resumed, GroupState, Narrows
<1>2. /\ Narrows(s, Older(s)) /\ Narrows(s, MarkDisconnected(s, p))
      /\ Narrows(s, Offered(s, p, r)) /\ Narrows(s, Pruned(s))
  BY Zenon DEF Older, MarkDisconnected, Orphaned, Offered, Pruned, GroupState, Narrows
<1>3. QED
  BY <1>1, <1>2

LEMMA EndNarrows ==
  ASSUME NEW s \in GroupState, NEW n, NEW ops
  PROVE  /\ Narrows(s, Ended(s, n)) /\ Narrows(s, Expire(s, n))
         /\ Narrows(s, MarkUnknown(s, ops)) /\ Narrows(s, FinishExecution(s))
<1>1. Narrows(s, Ended(s, n))
  BY Zenon DEF Ended, ReleaseExpired, LeaseIn, GroupState, Narrows
<1>2. Narrows(s, Expire(s, n))
  BY Zenon DEF Expire, ReleaseExpired, LeaseIn, GroupState, Narrows
<1>3. Narrows(s, MarkUnknown(s, ops)) /\ Narrows(s, FinishExecution(s))
  BY Zenon DEF MarkUnknown, FinishExecution, ReleaseExpired, LeaseIn, GroupState, Narrows
<1>4. QED
  BY <1>1, <1>2, <1>3

LEMMA LossNarrows ==
  ASSUME NEW s \in GroupState, NEW b
  PROVE  Narrows(s, WithoutBrowserTargets(s, b)) /\ Narrows(s, AfterBrowserLost(s, b))
<1>1. Narrows(s, WithoutBrowserTargets(s, b))
  BY Zenon DEF WithoutBrowserTargets, GroupState, Narrows
<1>2. Narrows(s, AfterBrowserLost(s, b))
  BY Zenon DEF AfterBrowserLost, LeaseIn, GroupState, Narrows
<1>3. QED
  BY <1>1, <1>2

LEMMA SettlementNarrows ==
  ASSUME NEW s \in GroupState, NEW o \in Ops, NEW outcome
  PROVE  Narrows(s, BeginSettlement(s, o)) /\ Narrows(s, Settled(o, s, outcome))
<1>1. Narrows(s, BeginSettlement(s, o))
  BY Zenon DEF BeginSettlement, GroupState, Narrows
<1>2. ASSUME NEW r \in GroupState
      PROVE  Narrows(r, FinishSettlement(r, o))
  BY Zenon DEF FinishSettlement, Unfrozen, ReleaseExpired, LeaseIn, GroupState, Narrows
<1>3. Narrows(s, Settled(o, s, outcome))
  <2> DEFINE r == IF outcome = "lost" THEN WithoutBrowserTargets(s, LaneBrowser(On(o)))
                  ELSE s
  <2>1. r \in GroupState /\ Narrows(s, r)
    BY BrowserLossType, LossNarrows DEF Narrows
  <2>2. Settled(o, s, outcome) = FinishSettlement(r, o)
    BY DEF Settled
  <2> HIDE DEF r
  <2>3. QED
    BY <1>2, <2>1, <2>2 DEF Narrows
<1>4. QED
  BY <1>1, <1>3

LEMMA HomeInit == Init => AtHome
<1> SUFFICES ASSUME Init, NEW g \in GroupIds PROVE Home(g, groups[g])
  BY DEF AtHome
<1>1. groups[g] \in InitialGroups(g)
  BY DEF Init, InitialRegistries
<1>2. Home(g, AbsentGroup(g))
  BY DEF AbsentGroup, Home
<1>3. ASSUME NEW tabs \in SUBSET TabsOf(g), NEW admission
      PROVE  Home(g, RecoveredGroup(g, tabs, admission))
  BY <1>3, Zenon DEF RecoveredGroup, AbsentGroup, Home
<1>4. QED
  BY <1>1, <1>2, <1>3 DEF InitialGroups, RecoveredGroups, TabsOf

\* A step that adds no tab to any group.
LEMMA NarrowStep ==
  ASSUME AtHome, \A g \in GroupIds : Narrows(groups[g], groups'[g])
  PROVE  AtHome'
BY DEF AtHome, Home, Narrows

LEMMA GroupCommandHome ==
  ASSUME TypeOK, AtHome, NEW h \in GroupIds, GroupCommand(h)
  PROVE  AtHome'
<1>1. groups \in [GroupIds -> GroupState] /\ groups[h] \in GroupState /\ Home(h, groups[h])
  BY DEF TypeOK, GroupTypes, AtHome
<1>2. ASSUME NEW t, groups' = [groups EXCEPT ![h] = t], Home(h, t)
      PROVE  AtHome'
  BY <1>1, <1>2 DEF AtHome
<1>3. ASSUME NEW t, groups' = [groups EXCEPT ![h] = t], Narrows(groups[h], t)
      PROVE  AtHome'
  BY <1>1, <1>2, <1>3 DEF Home, Narrows
<1>4. CASE CreateGroup(h)
  <2>1. Home(h, Created(groups[h], HomeOf[h], OwnerOf[h], next_lease + 1))
    BY <1>1, Zenon DEF Created, GroupState, Home
  <2>2. QED
    BY <1>2, <1>4, <2>1 DEF CreateGroup
<1>5. ASSUME NEW principal, NEW t \in Tabs, AddMember(h, principal, t)
      PROVE  AtHome'
  <2>1. BrowserOf[t] = HomeOf[h]
    BY <1>1, <1>5 DEF AddMember, CanAddMember, Home
  <2>2. /\ WithMember(groups[h], t).browser_instance_id = groups[h].browser_instance_id
        /\ WithMember(groups[h], t).members = groups[h].members \cup {t}
    BY <1>1, Zenon DEF WithMember, GroupState
  <2>3. Home(h, WithMember(groups[h], t))
    BY <1>1, <2>1, <2>2 DEF Home, TabsOf
  <2>4. QED
    BY <1>2, <1>5, <2>3 DEF AddMember
<1>6. ASSUME NEW p, NEW principal, Renew(h, p, principal)
      PROVE  AtHome'
  BY <1>1, <1>3, <1>6, LeaseNarrows DEF Renew
<1>7. ASSUME NEW principal, NEW members, NEW revision,
             ResumeRecovered(h, principal, members, revision)
      PROVE  AtHome'
  BY <1>1, <1>3, <1>7, LeaseNarrows DEF ResumeRecovered
<1>8. ASSUME NEW principal, EndGroup(h, principal)
      PROVE  AtHome'
  BY <1>1, <1>3, <1>8, EndNarrows DEF EndGroup, AtHome
<1>9. ASSUME NEW principal, NEW target, NEW revision,
             OfferHandoff(h, principal, target, revision)
      PROVE  AtHome'
  BY <1>1, <1>3, <1>9, LeaseNarrows DEF OfferHandoff
<1>10. ASSUME NEW principal, NEW target, NEW revision,
              \/ ForceHandoff(h, principal, target, revision)
              \/ AcceptHandoff(h, target, revision)
       PROVE  AtHome'
  BY <1>1, <1>3, <1>10, LeaseNarrows DEF ForceHandoff, AcceptHandoff
<1>11. QED
  BY <1>4, <1>5, <1>6, <1>7, <1>8, <1>9, <1>10 DEF GroupCommand

LEMMA OtherCommandHome ==
  ASSUME TypeOK, AtHome,
         \/ \E principal \in Principals : Disconnect(principal)
         \/ \E b \in Browsers : BrowserLost(b)
         \/ PruneReleased \/ Query \/ Elapse \/ Tick
  PROVE  AtHome'
<1>1. \A g \in GroupIds : groups[g] \in GroupState
  BY DEF TypeOK, GroupTypes
<1>2. \A s : Narrows(s, s)
  BY DEF Narrows
<1>3. ASSUME NEW principal, Disconnect(principal)
      PROVE  AtHome'
  BY <1>1, <1>3, LeaseNarrows, NarrowStep DEF Disconnect
<1>4. ASSUME NEW b, BrowserLost(b)
      PROVE  AtHome'
  BY <1>1, <1>4, LossNarrows, NarrowStep DEF BrowserLost
<1>5. CASE PruneReleased
  BY <1>1, <1>2, <1>5, LeaseNarrows, NarrowStep DEF PruneReleased
<1>6. CASE Query
  BY <1>2, <1>6, NarrowStep DEF Query, groupVars
<1>7. CASE Elapse
  BY <1>1, <1>7, LeaseNarrows, NarrowStep DEF Elapse
<1>8. CASE Tick
  <2> SUFFICES ASSUME NEW g \in GroupIds PROVE Narrows(groups[g], groups'[g])
    BY NarrowStep
  <2> DEFINE r == MarkUnknown(groups[g], {q \in Overdue : GroupOf(q) = g})
  <2>1. groups'[g] = Expire(r, in_flight_by_group[g])
    BY <1>8 DEF Tick, Ticked
  <2>2. r \in GroupState /\ Narrows(groups[g], r)
    BY <1>1, MarkUnknownType, EndNarrows DEF Overdue
  <2> HIDE DEF r
  <2>3. Narrows(r, Expire(r, in_flight_by_group[g]))
    BY <2>2, EndNarrows
  <2>4. QED
    BY <2>1, <2>2, <2>3 DEF Narrows
<1>9. QED
  BY <1>3, <1>4, <1>5, <1>6, <1>7, <1>8

LEMMA OperationHome ==
  ASSUME TypeOK, AtHome, NEW o \in Ops, NEW t, groups' = WithGroup(o, t),
         GroupOf(o) \in GroupIds => Narrows(groups[GroupOf(o)], t)
  PROVE  AtHome'
<1>1. \A g \in GroupIds : groups'[g] = IF g = GroupOf(o) THEN t ELSE groups[g]
  BY SchedulerAssumption DEF WithGroup, TypeOK, GroupTypes
<1>2. \A g \in GroupIds : Narrows(groups[g], groups'[g])
  BY <1>1 DEF Narrows
<1>3. QED
  BY <1>2, NarrowStep

LEMMA HomeNext == AuthorityInv /\ AtHome /\ [Next]_vars => AtHome'
<1> SUFFICES ASSUME AuthorityInv, AtHome, [Next]_vars PROVE AtHome'
  OBVIOUS
<1>1. TypeOK /\ \A g \in GroupIds : groups[g] \in GroupState
  BY DEF AuthorityInv, OperationInv, TypeOK, GroupTypes
<1>2. ASSUME groups' = groups
      PROVE  AtHome'
  BY <1>2 DEF AtHome
<1>3. ASSUME NEW o \in Ops, NEW outcome, Executed(o, outcome)
      PROVE  AtHome'
  <2> DEFINE s == groups[GroupOf(o)]
  <2>1. PICK t : /\ groups' = WithGroup(o, t)
                 /\ \/ t = FinishExecution(s)
                    \/ t = BeginSettlement(s, o)
                    \/ \E outcome2 : t = Settled(o, BeginSettlement(s, o), outcome2)
    BY <1>3 DEF Executed, CompleteTerminal, CompleteAmbiguous, CompleteSettled
  <2>2. ASSUME GroupOf(o) \in GroupIds
        PROVE  Narrows(s, t)
    <3>1. s \in GroupState
      BY <1>1, <2>2
    <3> DEFINE b == BeginSettlement(s, o)
    <3>2. b \in GroupState /\ Narrows(s, b)
      BY <3>1, SettlementType, SettlementNarrows
    <3>3. \A outcome2 : Narrows(s, Settled(o, b, outcome2))
      <4> HIDE DEF b
      <4>1. \A outcome2 : Narrows(b, Settled(o, b, outcome2))
        BY <3>2, SettlementNarrows
      <4>2. QED
        BY <3>2, <4>1 DEF Narrows
    <3>4. QED
      BY <2>1, <3>1, <3>2, <3>3, EndNarrows
  <2>3. QED
    BY <1>1, <2>1, <2>2, OperationHome
<1>4. ASSUME NEW o \in Ops, NEW outcome, Settle(o, outcome)
      PROVE  AtHome'
  <2>1. CASE SettleEarly(o, outcome)
    BY <1>2, <2>1 DEF SettleEarly
  <2>2. CASE SettleNow(o, outcome)
    BY <1>1, <2>2, SettlementNarrows, OperationHome DEF SettleNow
  <2>3. QED
    BY <1>4, <2>1, <2>2 DEF Settle
<1>5. CASE Dispatch
  <2>1. ASSUME NEW o \in Queued, groups' = [groups EXCEPT ![GroupOf(o)] = Unexpired(@)]
        PROVE  AtHome'
    <3>1. \A g \in GroupIds : groups'[g] = groups[g] \/ groups'[g] = Unexpired(groups[g])
      BY <2>1 DEF AuthorityInv, OperationInv, TypeOK, GroupTypes
    <3>2. \A g \in GroupIds : Narrows(groups[g], groups'[g])
      BY <1>1, <3>1, LeaseNarrows DEF Narrows
    <3>3. QED
      BY <3>2, NarrowStep
  <2>2. QED
    BY <1>2, <1>5, <2>1, Passes, Departs
<1>6. CASE UNCHANGED vars
  BY <1>2, <1>6 DEF vars, groupVars
<1>7. QED
  BY <1>1, <1>2, <1>3, <1>4, <1>5, <1>6, QuietOperations, GroupCommandHome, OtherCommandHome
     DEF Next, OperationCommand
-----------------------------------------------------------------------------
(* Groups that have a lane of their own.  With two lanes one operation of a *)
(* group may finish while another is in flight, and release or reopen the   *)
(* group under it (released_in_flight.cfg).                                 *)

OwnLanes ==
  \A o, q \in Ops : Grouped(o) => (GroupOf(o) = GroupOf(q) <=> On(o) = On(q))

Alone == \A o, q \in Dispatched : Grouped(o) /\ GroupOf(o) = GroupOf(q) => o = q

\* The group of an operation in flight is not released, and closed where
\* reject_before_dispatch has cleared the flag of its lane or is about to.
Guarded(o) ==
  LET s == groups[GroupOf(o)] IN
  /\ ~ HasUnresolved(s) /\ s.admission # "Released"
  /\ LaneBrowser(On(o)) = HomeOf[GroupOf(o)]
  /\ On(o) \in busy \/ Shut(s)
  /\ phase = "rejecting" => Shut(s) \/ \A v \in victims : On(v) # On(o)

OwnInv == AtHome /\ Alone /\ \A o \in Dispatched : Grouped(o) => Guarded(o)

\* What a step must show of each operation that stays in flight.
Watched(o) ==
  LET g == GroupOf(o) IN
  /\ Stays(groups[g], groups'[g])
  /\ On(o) \in busy => On(o) \in busy' \/ Shut(groups'[g])
  /\ phase' = "rejecting" => Shut(groups'[g]) \/ \A v \in victims' : On(v) # On(o)

LEMMA WatchedGuarded ==
  ASSUME NEW o, Guarded(o), Watched(o)
  PROVE  Guarded(o)'
BY DEF Watched, Guarded, Stays

LEMMA WatchedStep ==
  ASSUME OwnInv, AtHome', Dispatched' \subseteq Dispatched,
         \A o \in Dispatched' : Grouped(o) => Watched(o)
  PROVE  OwnInv'
<1>1. Alone'
  BY DEF OwnInv, Alone
<1>2. ASSUME NEW o \in Dispatched', Grouped(o)
      PROVE  Guarded(o)'
  BY <1>2, WatchedGuarded DEF OwnInv
<1>3. QED
  BY <1>1, <1>2 DEF OwnInv

\* An operation that leaves: the lane was free and its group open, so nothing else
\* of the group is in flight.
LEMMA DepartureStep ==
  ASSUME OwnLanes, AuthorityInv, OwnInv, AtHome', phase' = "dispatching",
         NEW o \in Queued, On(o) \notin busy, MayDispatch(o),
         Dispatched' = Dispatched \cup {o}, busy' = busy \cup {On(o)},
         \/ groups' = groups
         \/ groups' = [groups EXCEPT ![GroupOf(o)] = Unexpired(@)]
  PROVE  OwnInv'
<1>1. /\ o \in Ops /\ On(o) \in Lanes /\ groups \in [GroupIds -> GroupState]
      /\ \A q \in Dispatched' : Grouped(q) => q \in Ops /\ GroupOf(q) \in GroupIds
  BY RequestType
     DEF Queued, Dispatched, Grouped, AuthorityInv, OperationInv, TypeOK, GroupTypes
<1>2. \A g \in GroupIds : groups'[g] = groups[g] \/ groups'[g] = Unexpired(groups[g])
  BY <1>1
<1>3. \A g \in GroupIds : Stays(groups[g], groups'[g])
  BY <1>1, <1>2, StaysSame, UnexpiredStays
<1>4. ASSUME Grouped(o)
      PROVE  LET s == groups[GroupOf(o)] IN
             /\ s.admission = "Open" /\ ~ HasUnresolved(s)
             /\ LaneBrowser(On(o)) = HomeOf[GroupOf(o)]
  <2> DEFINE s == groups[GroupOf(o)]
  <2>1. GroupOf(o) \in GroupIds /\ On(o) \in Tabs \cup Browsers
    BY <1>1, <1>4, RequestType, SchedulerAssumption DEF Grouped, Lanes, On, GroupOf
  <2>2. s.admission = "Open"
    BY <1>4, <2>1, SchedulerAssumption
       DEF MayDispatch, Validates, ValidatesBridgeGlobal, OpenOwner, Grouped
  <2>3. ~ HasUnresolved(s)
    BY <2>1, <2>2 DEF AuthorityInv, GroupsFrozen, FrozenGroup
  <2>4. Home(GroupOf(o), s)
    BY <2>1 DEF OwnInv, AtHome
  <2>5. LaneBrowser(On(o)) = HomeOf[GroupOf(o)]
    <3>1. CASE On(o) \in Tabs
      BY <2>4, <3>1 DEF MayDispatch, Validates, Home, TabsOf, LaneBrowser
    <3>2. CASE On(o) \in Browsers
      BY <1>4, <2>1, <2>4, <3>2, SchedulerAssumption
         DEF MayDispatch, ValidatesBridgeGlobal, Home, LaneBrowser, Grouped
    <3>3. QED
      BY <2>1, <3>1, <3>2
  <2>6. QED
    BY <2>2, <2>3, <2>5
<1>5. \A q \in Dispatched : Grouped(q) => GroupOf(q) # GroupOf(o)
  <2> SUFFICES ASSUME NEW q \in Dispatched, Grouped(q), GroupOf(q) = GroupOf(o)
               PROVE  FALSE
    OBVIOUS
  <2>1. On(q) = On(o) /\ Grouped(o)
    BY <1>1 DEF OwnLanes, Dispatched, Grouped
  <2>2. Shut(groups[GroupOf(o)])
    BY <2>1 DEF OwnInv, Guarded
  <2>3. QED
    BY <1>4, <2>1, <2>2 DEF Shut
<1>6. Alone'
  BY <1>5 DEF OwnInv, Alone, Grouped
<1>7. ASSUME NEW q \in Dispatched, Grouped(q)
      PROVE  Guarded(q)'
  BY <1>1, <1>3, <1>7, WatchedGuarded DEF Watched, OwnInv
<1>8. ASSUME Grouped(o)
      PROVE  Guarded(o)'
  <2>1. GroupOf(o) \in GroupIds
    BY <1>1, <1>8
  <2>2. Stays(groups[GroupOf(o)], groups'[GroupOf(o)])
    BY <1>3, <2>1
  <2>3. QED
    BY <1>4, <1>8, <2>2 DEF Guarded, Stays
<1>9. QED
  BY <1>6, <1>7, <1>8 DEF OwnInv

LEMMA DispatchOwn ==
  ASSUME OwnLanes, AuthorityInv, OwnInv, AtHome', Dispatch
  PROVE  OwnInv'
<1>1. ASSUME Dispatched' = Dispatched, busy' = busy, groups' = groups,
             phase' # "rejecting"
      PROVE  OwnInv'
  BY <1>1, StaysSame, WatchedStep DEF Watched
<1>2. ASSUME NEW lane \in Lanes, queue[lane] # <<>>, lane \notin busy, Dequeue(lane),
             phase = "dispatching"
      PROVE  OwnInv'
  <2>1. phase' = "dispatching"
    BY <1>2 DEF Dequeue
  <2>2. QED
    BY <1>1, <1>2, <2>1, Departs, DepartureStep
<1>3. QED
  BY <1>1, <1>2, Passes

\* The lane of an answer was the lane of no other operation in flight that has a group.
LEMMA ExecutedOwn ==
  ASSUME OwnLanes, AuthorityInv, OwnInv, AtHome', NEW q \in Ops, NEW outcome,
         Executed(q, outcome)
  PROVE  OwnInv'
<1>1. /\ q \in Dispatched /\ Dispatched' = Dispatched \ {q}
      /\ busy' = busy \ {On(q)} /\ phase' = "dispatching"
  BY ExecutedCounters
     DEF AuthorityInv, Executed, ReleaseExecutorCapacity, BusyWithout, Dispatching
<1>2. ASSUME NEW o \in Dispatched', Grouped(o)
      PROVE  Watched(o)
  <2>1. o \in Dispatched /\ o # q /\ o \in Ops /\ GroupOf(o) \in GroupIds
    BY <1>1, <1>2, RequestType DEF Dispatched, Grouped
  <2>2. GroupOf(o) # GroupOf(q)
    BY <1>1, <1>2, <2>1 DEF OwnInv, Alone
  <2>3. On(o) # On(q) /\ groups'[GroupOf(o)] = groups[GroupOf(o)]
    BY <1>2, <2>1, <2>2, ExecutedOwner DEF OwnLanes
  <2>4. QED
    BY <1>1, <2>3, StaysSame DEF Watched
<1>3. QED
  BY <1>1, <1>2, WatchedStep

LEMMA QuietOwn ==
  ASSUME OwnInv, AtHome', AuthorityInv, NEW v \in Ops,
         \/ Submit(v) \/ (\E client \in Clients : Cancel(v, client))
         \/ CancelVictim(v) \/ RejectVictim(v)
  PROVE  OwnInv'
<1>1. groups' = groups /\ Dispatched' = Dispatched
  BY QuietOperations
<1>2. CASE RejectVictim(v)
  <2>1. /\ phase = "rejecting" /\ v \in victims /\ victims' \subseteq victims
        /\ busy' = busy \ {On(v)}
    BY <1>2 DEF RejectVictim, Swept, RejectBeforeDispatch
  <2>2. ASSUME NEW o \in Dispatched', Grouped(o)
        PROVE  Watched(o)
    <3>1. Shut(groups[GroupOf(o)]) \/ \A w \in victims : On(w) # On(o)
      BY <1>1, <2>1, <2>2 DEF OwnInv, Guarded
    <3>2. QED
      BY <1>1, <2>1, <3>1, StaysSame DEF Watched
  <2>3. QED
    BY <1>1, <2>2, WatchedStep
<1>3. CASE ~ RejectVictim(v)
  <2>1. busy' = busy /\ phase' # "rejecting"
    BY <1>3 DEF Submit, Accepting, Attach, AdmitCancelled, Enqueue, Refuse, laneVars,
                Cancel, Dispatching, RememberIntent, CancelQueued, Detach,
                CancelVictim, Swept
  <2>2. QED
    BY <1>1, <2>1, StaysSame, WatchedStep DEF Watched
<1>4. QED
  BY <1>2, <1>3

LEMMA BrowserLostShuts ==
  ASSUME NEW s \in GroupState, s.present, s.admission # "Released"
  PROVE  AfterBrowserLost(s, s.browser_instance_id).admission = "RecoveryRequired"
BY Zenon DEF AfterBrowserLost, LeaseIn, GroupState

\* The loss of a browser shuts every group whose lanes it sweeps.
LEMMA BrowserLostOwn ==
  ASSUME AuthorityInv, OwnInv, AtHome', NEW b \in Browsers, BrowserLost(b)
  PROVE  OwnInv'
<1>1. Dispatched' = Dispatched /\ busy' = busy
  BY DEF BrowserLost, OnlyGroups, opVars, laneVars, Dispatched
<1>2. ASSUME NEW o \in Dispatched, Grouped(o)
      PROVE  Watched(o)
  <2> DEFINE g == GroupOf(o)  s == groups[g]
  <2>1. g \in GroupIds /\ s \in GroupState /\ s.present /\ s.browser_instance_id = HomeOf[g]
    BY <1>2, GroupInFlight DEF OwnInv, AtHome, Home
  <2>2. groups'[g] = AfterBrowserLost(s, b) /\ Stays(s, groups'[g])
    BY <2>1, BrowserLostStays DEF BrowserLost
  <2>3. LaneBrowser(On(o)) = HomeOf[g] /\ s.admission # "Released"
    BY <1>2 DEF OwnInv, Guarded
  <2>4. CASE HomeOf[g] = b
    <3>1. groups'[g].admission = "RecoveryRequired"
      BY <2>1, <2>2, <2>3, <2>4, BrowserLostShuts
    <3>2. QED
      BY <2>2, <3>1 DEF Watched, Shut
  <2>5. CASE HomeOf[g] # b
    <3>1. \A v \in victims' : On(v) # On(o)
      BY <2>3, <2>5 DEF BrowserLost, Sweep
    <3>2. QED
      BY <1>1, <2>2, <3>1 DEF Watched
  <2>6. QED
    BY <2>4, <2>5
<1>3. QED
  BY <1>1, <1>2, WatchedStep

LEMMA OwnNext == OwnLanes /\ AuthorityInv /\ OwnInv /\ [Next]_vars => OwnInv'
<1> SUFFICES ASSUME OwnLanes, AuthorityInv, OwnInv, [Next]_vars PROVE OwnInv'
  OBVIOUS
<1>1. AtHome'
  BY HomeNext DEF OwnInv
<1>2. \A o \in Dispatched : Grouped(o) => /\ groups[GroupOf(o)].admission # "Released"
                                          /\ GroupOf(o) \in GroupIds
  BY GroupInFlight DEF OwnInv, Guarded
<1>3. CASE UNCHANGED vars
  <2>1. \A o \in Dispatched : Grouped(o) => Watched(o)
    BY <1>3, StaysSame DEF OwnInv, Guarded, Watched, vars, laneVars, groupVars
  <2>2. Dispatched' = Dispatched
    BY <1>3 DEF vars, opVars, Dispatched
  <2>3. QED
    BY <1>1, <2>1, <2>2, WatchedStep
<1>4. ASSUME NEW o \in Ops, NEW outcome, Settle(o, outcome)
      PROVE  OwnInv'
  <2>1. Dispatched' = Dispatched
    BY <1>4, SettleCounters DEF AuthorityInv
  <2>2. busy' = busy /\ phase' # "rejecting"
    BY <1>4 DEF Settle, Dispatching, laneVars
  <2>3. QED
    BY <1>1, <1>2, <1>4, <2>1, <2>2, SettleStays, WatchedStep DEF Watched
<1>5. ASSUME NEW h \in GroupIds, GroupCommand(h)
      PROVE  OwnInv'
  <2>1. busy' = busy /\ Dispatched' = Dispatched
    BY <1>5, GroupCommandQuiet DEF OnlyGroups, opVars, laneVars, Dispatched
  <2>2. phase' # "rejecting"
    BY <1>5 DEF GroupCommand, CreateGroup, AddMember, Renew, ResumeRecovered, EndGroup,
       OfferHandoff, ForceHandoff, AcceptHandoff, Dispatching, Sweep
  <2>3. QED
    BY <1>1, <1>2, <1>5, <2>1, <2>2, GroupCommandStays, WatchedStep DEF Watched
<1>6. CASE \/ \E principal \in Principals : Disconnect(principal)
           \/ PruneReleased \/ Query \/ Elapse \/ Tick
  <2>1. Dispatched' = Dispatched
    BY <1>6, OtherCommandQuiet
  <2>2. busy' = busy /\ (phase' = "rejecting" => FALSE)
    BY <1>6 DEF Disconnect, Detach, Sweep, PruneReleased, OnlyGroups, Query, Elapse, Tick,
       Dispatching, laneVars
  <2>3. QED
    BY <1>1, <1>6, <2>1, <2>2, OtherCommandStays, WatchedStep DEF Watched
<1>7. QED
  BY <1>1, <1>3, <1>4, <1>5, <1>6, QuietOwn, ExecutedOwn, BrowserLostOwn, DispatchOwn
     DEF Next, OperationCommand

LEMMA OwnInvariant ==
  ASSUME OwnLanes
  PROVE  Spec => []OwnInv
<1>1. Init => OwnInv
  BY HomeInit DEF Init, OwnInv, Alone, Dispatched
<1>2. AuthorityInv /\ OwnInv /\ [Next]_vars => OwnInv'
  BY OwnNext
<1>3. QED
  BY <1>1, <1>2, AuthorityInvariant, PTL DEF Spec

\* If every group has a lane of its own, it is never released while an operation of
\* it is in flight or unsettled, whatever is lost, ended, expired or handed over.
THEOREM OwnLaneNotReleased ==
  ASSUME OwnLanes
  PROVE  Spec => []NotReleasedInFlight
<1>1. AuthorityInv /\ OwnInv => NotReleasedInFlight
  <2> SUFFICES ASSUME AuthorityInv, OwnInv, NEW o \in Dispatched \cup Unsettled,
                      GroupOf(o) # NoGroup
               PROVE  groups[GroupOf(o)].admission # "Released"
    BY DEF NotReleasedInFlight
  <2>1. CASE o \in Dispatched
    BY <2>1 DEF OwnInv, Guarded, Grouped
  <2>2. CASE o \in Unsettled
    <3>1. o \in Ops /\ GroupOf(o) \in GroupIds
      BY <2>2, RequestType DEF Unsettled
    <3>2. HasUnresolved(groups[GroupOf(o)]) /\ FrozenGroup(groups[GroupOf(o)])
      BY <2>2, <3>1, OwnSettlements DEF HasUnresolved
    <3>3. QED
      BY <3>2 DEF FrozenGroup
  <2>3. QED
    BY <2>1, <2>2
<1>2. QED
  BY <1>1, AuthorityInvariant, OwnInvariant, PTL

\* If every group has a lane of its own, an operation in flight on a tab works for the
\* owner of the tab's group.
THEOREM OwnLaneRunsForOwner ==
  ASSUME OwnLanes
  PROVE  Spec => []RunsForOwner
BY OwnLaneNotReleased, OwnerKeepsGroup, PTL
===============================================================================
