---------------------------- MODULE SchedulerProofs ----------------------------
(***************************************************************************)
(* Every operator of Groups maps groups to groups, and every action of the *)
(* scheduler keeps the types of its state: TypeOK is inductive.  The other *)
(* proofs start from it.  The second part is what the scheduler keeps      *)
(* about its operations: queues, the ring of finished operations and the   *)
(* intents list exactly the operations they should, callers wait for       *)
(* operations that can still answer, and what is reported as not run has   *)
(* not run.                                                                *)
(***************************************************************************)
EXTENDS Scheduler, TLAPS

(* The operators of Groups.                                                 *)

\* The values the operators write.
LEMMA Constants ==
  /\ 0 \in Nat /\ 1 \in Nat /\ \A n \in Nat : n + 1 \in Nat
  /\ 0 \in 0 .. DisconnectGrace /\ 0 \in 0 .. IdleLease /\ IdleLease \in 0 .. IdleLease
  /\ "Active" \in LeaseStates /\ "OrphanedGrace" \in LeaseStates
  /\ "ExpiryPending" \in LeaseStates /\ "Suspended" \in LeaseStates
  /\ "Released" \in LeaseStates
  /\ "Open" \in Admissions /\ "HandoffPending" \in Admissions
  /\ "ExpiryPending" \in Admissions /\ "SettlementPending" \in Admissions
  /\ "RecoveryRequired" \in Admissions /\ "Released" \in Admissions
BY TimersAssumption DEF LeaseStates, Admissions

LEMMA LeaseInType ==
  ASSUME NEW s \in GroupState, NEW x \in LeaseStates
  PROVE  LeaseIn(s, x) \in GroupState
BY Constants, Zenon DEF LeaseIn, GroupState

LEMMA UnexpiredType ==
  ASSUME NEW s \in GroupState
  PROVE  Unexpired(s) \in GroupState
BY Constants, LeaseInType, Zenon DEF Unexpired, GroupState

LEMMA OrphanedType ==
  ASSUME NEW s \in GroupState
  PROVE  Orphaned(s) \in GroupState
<1>1. AtMost(s.expires, DisconnectGrace) \in 0 .. DisconnectGrace
  BY TimersAssumption DEF AtMost, GroupState
<1>2. QED
  BY <1>1, Constants, Zenon DEF Orphaned, GroupState

LEMMA OlderType ==
  ASSUME NEW s \in GroupState
  PROVE  Older(s) \in GroupState
<1>1. (IF s.expires = 0 THEN 0 ELSE s.expires - 1) \in 0 .. IdleLease
  BY TimersAssumption DEF GroupState
<1>2. (IF s.grace = 0 THEN 0 ELSE s.grace - 1) \in 0 .. DisconnectGrace
  BY TimersAssumption DEF GroupState
<1>3. QED
  BY <1>1, <1>2, Zenon DEF Older, GroupState

LEMMA CreatedType ==
  ASSUME NEW s \in GroupState, NEW b \in Browsers, NEW p \in Principals, NEW l \in Nat
  PROVE  Created(s, b, p, l) \in GroupState
BY Constants, Zenon DEF Created, GroupState

LEMMA PrunedType ==
  ASSUME NEW s \in GroupState
  PROVE  Pruned(s) \in GroupState
BY Constants, Zenon DEF Pruned, GroupState

LEMMA WithMemberType ==
  ASSUME NEW s \in GroupState, NEW t \in Tabs
  PROVE  WithMember(s, t) \in GroupState
BY Constants, Zenon DEF WithMember, GroupState

LEMMA BrowserLossType ==
  ASSUME NEW s \in GroupState, NEW b
  PROVE  /\ WithoutBrowserTargets(s, b) \in GroupState
         /\ AfterBrowserLost(s, b) \in GroupState
<1>1. WithoutBrowserTargets(s, b) \in GroupState
  BY Constants, Zenon DEF WithoutBrowserTargets, GroupState
<1>2. AfterBrowserLost(s, b) \in GroupState
  <2>1. /\ s.fence + 1 \in Nat /\ "RecoveryRequired" \in Admissions
        /\ (IF s.members = {} THEN s.membership_revision ELSE s.membership_revision + 1) \in Nat
    BY Constants DEF GroupState
  <2>2. QED
    BY <2>1, Constants, LeaseInType, Zenon DEF AfterBrowserLost, GroupState, LeaseIn
<1>3. QED
  BY <1>1, <1>2

LEMMA MarkDisconnectedType ==
  ASSUME NEW s \in GroupState, NEW p
  PROVE  MarkDisconnected(s, p) \in GroupState
BY OrphanedType DEF MarkDisconnected

LEMMA ResumedType ==
  ASSUME NEW s \in GroupState, NEW n \in Nat
  PROVE  Resumed(s, n + 1) \in GroupState
BY Constants, UnexpiredType, Zenon DEF Resumed, GroupState

LEMMA OfferedType ==
  ASSUME NEW s \in GroupState, NEW p \in Principals, NEW n \in Nat
  PROVE  Offered(s, p, n) \in GroupState
BY Constants, Zenon DEF Offered, GroupState, HandoffOffer

LEMMA MovedType ==
  ASSUME NEW s \in GroupState, NEW p \in Principals
  PROVE  Moved(s, p) \in GroupState
BY Constants, UnexpiredType, Zenon DEF Moved, GroupState

LEMMA ReleaseExpiredType ==
  ASSUME NEW s \in GroupState
  PROVE  ReleaseExpired(s) \in GroupState
BY Constants, LeaseInType, Zenon DEF ReleaseExpired, GroupState

LEMMA MarkUnknownType ==
  ASSUME NEW s \in GroupState, NEW ops \in SUBSET Ops
  PROVE  MarkUnknown(s, ops) \in GroupState
BY Constants, Zenon DEF MarkUnknown, GroupState

LEMMA FinishExecutionType ==
  ASSUME NEW s \in GroupState
  PROVE  FinishExecution(s) \in GroupState
BY ReleaseExpiredType DEF FinishExecution

LEMMA SettlementType ==
  ASSUME NEW s \in GroupState, NEW o \in Ops
  PROVE  /\ BeginSettlement(s, o) \in GroupState
         /\ FinishSettlement(s, o) \in GroupState
<1>1. BeginSettlement(s, o) \in GroupState
  BY Constants, Zenon DEF BeginSettlement, GroupState
<1>2. ASSUME NEW t \in GroupState PROVE Unfrozen(t) \in GroupState
  <2> DEFINE open == [t EXCEPT !.deferred = "None"]
  <2>1. open \in GroupState
    BY Zenon DEF GroupState
  <2>2. ASSUME NEW x \in Admissions PROVE [open EXCEPT !.admission = x] \in GroupState
    BY <2>1, Zenon DEF GroupState
  <2>3. ReleaseExpired(open) \in GroupState
    BY <2>1, ReleaseExpiredType
  <2> HIDE DEF open
  <2>4. QED
    BY <2>1, <2>2, <2>3, Constants DEF Unfrozen, open
<1>3. FinishSettlement(s, o) \in GroupState
  <2> DEFINE t == [s EXCEPT !.pending = @ \ {o}, !.unknown = @ \ {o}]
  <2>1. t \in GroupState
    BY Zenon DEF GroupState
  <2>2. ASSUME NEW x \in Admissions PROVE [t EXCEPT !.admission = x] \in GroupState
    BY <2>1, Zenon DEF GroupState
  <2>3. CASE ~ HasUnresolved(t)
    BY <1>2, <2>1, <2>3 DEF FinishSettlement
  <2>4. CASE HasUnresolved(t) /\ ~ s.present
    BY <2>1, <2>4, Zenon DEF FinishSettlement, GroupState
  <2>5. CASE HasUnresolved(t) /\ t.present /\ t.unknown # {}
    BY <2>1, <2>2, <2>5, Constants, Zenon DEF FinishSettlement, GroupState
  <2>6. CASE HasUnresolved(t) /\ t.present /\ t.unknown = {}
    BY <2>1, <2>2, <2>6, Constants, Zenon DEF FinishSettlement, GroupState
  <2>7. t.present = s.present
    BY Zenon DEF GroupState
  <2>8. QED
    BY <2>3, <2>4, <2>5, <2>6, <2>7, Zenon
<1>4. QED
  BY <1>1, <1>3

LEMMA EndType ==
  ASSUME NEW s \in GroupState, NEW n \in Nat
  PROVE  Ended(s, n) \in GroupState /\ Expire(s, n) \in GroupState
<1>1. Ended(s, n) \in GroupState
  <2> DEFINE t == [LeaseIn(s, "ExpiryPending") EXCEPT
                     !.deferred = IF HasUnresolved(s) THEN "ExpiryPending" ELSE @,
                     !.admission = "ExpiryPending"]
  <2>1. LeaseIn(s, "ExpiryPending") \in GroupState
    BY Constants, LeaseInType
  <2>2. t \in GroupState
    BY <2>1, Constants, Zenon DEF GroupState
  <2>3. QED
    BY <2>2, ReleaseExpiredType DEF Ended
<1>2. Expire(s, n) \in GroupState
  BY Constants, LeaseInType, ReleaseExpiredType, Zenon DEF Expire, GroupState
<1>3. QED
  BY <1>1, <1>2

-----------------------------------------------------------------------------
(* The helpers of the handlers.                                             *)

LEMMA WithoutType ==
  ASSUME NEW q \in Seq(Ops), NEW o
  PROVE  Without(q, o) \in Seq(Ops)
<1>1. CASE \A i \in 1 .. Len(q) : q[i] # o
  BY <1>1 DEF Without
<1>2. CASE \E i \in 1 .. Len(q) : q[i] = o
  <2> DEFINE k == CHOOSE i \in 1 .. Len(q) : q[i] = o
             n == Len(q) - 1
             f == [i \in 1 .. Len(q) - 1 |-> IF i < k THEN q[i] ELSE q[i + 1]]
  <2>1. k \in 1 .. Len(q)
    BY <1>2
  <2>2. n \in Nat
    BY <2>1
  <2>3. f \in [1 .. n -> Ops]
    <3> HIDE DEF k
    <3> QED BY <2>1
  <2>4. f \in Seq(Ops)
    BY <2>2, <2>3
  <2>5. QED
    BY <1>2, <2>4, Zenon DEF Without
<1>3. QED
  BY <1>1, <1>2

LEMMA FinishType ==
  ASSUME OperationTypes, NEW o \in Ops, NEW c \in Completions, Finish(o, c)
  PROVE  /\ state' \in [Ops -> OperationStates]
         /\ proof' \in [Ops -> LeaseProof]
         /\ deadline' \in [Ops -> 0 .. SettlementWindow]
         /\ completion' \in [Ops -> Completions]
         /\ ran' \in SUBSET Ops
         /\ recent' \in Seq(Ops)
<1>1. state' \in [Ops -> OperationStates]
  BY DEF Finish, OperationTypes, OperationStates
<1>2. proof' \in [Ops -> LeaseProof]
  BY DEF Finish, OperationTypes, NoProof, LeaseProof
<1>3. deadline' \in [Ops -> 0 .. SettlementWindow]
  BY SchedulerAssumption DEF Finish, OperationTypes
<1>4. completion' \in [Ops -> Completions]
  BY DEF Finish, OperationTypes, Completions
<1>5. ran' \in SUBSET Ops
  BY DEF Finish, OperationTypes
<1>6. recent' \in Seq(Ops)
  <2>1. CASE Len(recent) >= RecentLimit
    <3>1. recent # <<>>
      BY <2>1, SchedulerAssumption DEF OperationTypes
    <3>2. Tail(recent) \in Seq(Ops)
      BY <3>1 DEF OperationTypes
    <3>3. QED
      BY <2>1, <3>2 DEF Finish, Remember
  <2>2. CASE ~ (Len(recent) >= RecentLimit)
    BY <2>2 DEF Finish, Remember, OperationTypes
  <2>3. QED
    BY <2>1, <2>2
<1>7. QED
  BY <1>1, <1>2, <1>3, <1>4, <1>5, <1>6

LEMMA RequestType ==
  ASSUME NEW o \in Ops
  PROVE  /\ On(o) \in Lanes
         /\ GroupOf(o) \in GroupIds \cup {NoGroup}
         /\ ClientOf(o) \in Clients
         /\ PrincipalOf(o) \in Principals
         /\ On(o) \in Tabs => GroupOf(o) \in GroupIds
BY SchedulerAssumption DEF On, GroupOf, ClientOf, PrincipalOf, Requests

LEMMA LaneBrowserType ==
  ASSUME NEW l \in Lanes, l # Daemon
  PROVE  LaneBrowser(l) \in Browsers
BY SchedulerAssumption DEF Lanes, LaneBrowser

LEMMA DecType ==
  ASSUME NEW n \in Nat
  PROVE  Dec(n) \in Nat
BY DEF Dec

LEMMA ReleaseType ==
  ASSUME LaneTypes, CountTypes, NEW o \in Ops, ReleaseExecutorCapacity(o)
  PROVE  /\ busy' \in SUBSET Lanes
         /\ round' \in [Browsers \cup {Daemon} -> Round]
         /\ bridge_dispatch_in_flight' \in [Browsers -> Nat]
         /\ in_flight_by_group' \in [GroupIds -> Nat]
<1>1. busy' \in SUBSET Lanes
  BY DEF ReleaseExecutorCapacity, LaneTypes, BusyWithout
<1>2. round' \in [Browsers \cup {Daemon} -> Round]
  <2>1. \A l : RoundAfter(l) \in Round
    BY DEF RoundAfter, NoRound, RoundOf, Round, WaitingTabs
  <2>2. QED
    BY <2>1 DEF ReleaseExecutorCapacity, LaneTypes
<1>3. bridge_dispatch_in_flight' \in [Browsers -> Nat]
  BY DecType DEF ReleaseExecutorCapacity, CountTypes
<1>4. in_flight_by_group' \in [GroupIds -> Nat]
  BY DecType, RequestType DEF ReleaseExecutorCapacity, CountTypes
<1>5. QED
  BY <1>1, <1>2, <1>3, <1>4

LEMMA FreeSlotType ==
  ASSUME CountTypes, NEW o \in Ops, FreeSlot(o)
  PROVE  queued_by_client' \in [Clients -> Nat]
BY DecType, RequestType DEF FreeSlot, CountTypes

LEMMA ForgetIntentType ==
  ASSUME IntentTypes, NEW o \in Ops, ForgetIntent(o)
  PROVE  IntentTypes'
BY WithoutType DEF ForgetIntent, IntentTypes

LEMMA WithGroupType ==
  ASSUME GroupTypes, NEW o \in Ops, NEW s,
         GroupOf(o) \in GroupIds => s \in GroupState
  PROVE  WithGroup(o, s) \in [GroupIds -> GroupState]
BY RequestType DEF WithGroup, GroupTypes

LEMMA SettledType ==
  ASSUME NEW o \in Ops, NEW s \in GroupState, NEW outcome
  PROVE  Settled(o, s, outcome) \in GroupState
<1>1. WithoutBrowserTargets(s, LaneBrowser(On(o))) \in GroupState
  BY BrowserLossType
<1>2. ASSUME NEW t \in GroupState PROVE FinishSettlement(t, o) \in GroupState
  BY SettlementType
<1>3. QED
  BY <1>1, <1>2 DEF Settled

\* The queue of the lane of o, after o has left it.
LEMMA DropType ==
  ASSUME LaneTypes, NEW o \in Ops,
         queue' = [queue EXCEPT ![On(o)] = Without(@, o)]
  PROVE  queue' \in [Lanes -> Seq(Ops)]
BY WithoutType, RequestType DEF LaneTypes
-----------------------------------------------------------------------------
\* The helpers that end an operation keep the types of what they touch.
LEMMA CancelQueuedType ==
  ASSUME TypeOK, NEW o \in Ops, CancelQueued(o)
  PROVE  /\ OperationTypes' /\ LaneTypes' /\ CountTypes' /\ GroupTypes'
         /\ SettlementTypes' /\ IntentTypes'
<1>1. OperationTypes'
  <2>1. "cancelled" \in Completions
    BY DEF Completions
  <2>2. waiting' \in SUBSET Ops
    BY DEF CancelQueued, Answer, TypeOK, OperationTypes
  <2>3. QED
    BY <2>1, <2>2, FinishType DEF CancelQueued, TypeOK, OperationTypes
<1>2. LaneTypes'
  BY DropType DEF CancelQueued, TypeOK, LaneTypes
<1>3. CountTypes'
  BY FreeSlotType DEF CancelQueued, TypeOK, CountTypes
<1>4. GroupTypes' /\ SettlementTypes' /\ IntentTypes'
  BY DEF CancelQueued, TypeOK, GroupTypes, groupVars, SettlementTypes, IntentTypes,
         intentVars
<1>5. QED
  BY <1>1, <1>2, <1>3, <1>4

LEMMA RejectType ==
  ASSUME TypeOK, NEW o \in Ops, RejectBeforeDispatch(o)
  PROVE  /\ OperationTypes' /\ busy' \in SUBSET Lanes /\ CountTypes' /\ GroupTypes'
         /\ SettlementTypes' /\ IntentTypes'
<1>1. OperationTypes'
  <2>1. "rejected" \in Completions
    BY DEF Completions
  <2>2. waiting' \in SUBSET Ops
    BY DEF RejectBeforeDispatch, Answer, TypeOK, OperationTypes
  <2>3. QED
    BY <2>1, <2>2, FinishType DEF RejectBeforeDispatch, TypeOK, OperationTypes
<1>2. busy' \in SUBSET Lanes
  BY DEF RejectBeforeDispatch, TypeOK, LaneTypes
<1>3. CountTypes'
  BY FreeSlotType DEF RejectBeforeDispatch, TypeOK, CountTypes
<1>4. GroupTypes' /\ SettlementTypes' /\ IntentTypes'
  BY DEF RejectBeforeDispatch, TypeOK, GroupTypes, groupVars, SettlementTypes,
         IntentTypes, intentVars
<1>5. QED
  BY <1>1, <1>2, <1>3, <1>4
-----------------------------------------------------------------------------
(* One lemma per command: the command keeps TypeOK.                         *)

LEMMA SubmitType ==
  ASSUME TypeOK, NEW o \in Ops, Submit(o)
  PROVE  TypeOK'
<1>1. ActorTypes'
  BY DEF Submit, Accepting, TypeOK, ActorTypes, Phases
<1>2. CASE Attach(o)
  BY <1>1, <1>2 DEF Attach, TypeOK, OperationTypes, LaneTypes, CountTypes, GroupTypes,
       SettlementTypes, IntentTypes, laneVars, countVars, groupVars, intentVars
<1>3. CASE AdmitCancelled(o)
  <2>1. OperationTypes'
    <3>1. "cancelled" \in Completions
      BY DEF Completions
    <3>2. QED
      BY <1>3, <3>1, FinishType DEF AdmitCancelled, TypeOK, OperationTypes
  <2>2. IntentTypes'
    BY <1>3, ForgetIntentType DEF AdmitCancelled, TypeOK
  <2>3. LaneTypes' /\ CountTypes' /\ GroupTypes' /\ SettlementTypes'
    BY <1>3 DEF AdmitCancelled, TypeOK, LaneTypes, CountTypes, GroupTypes,
         SettlementTypes, laneVars, countVars, groupVars
  <2>4. QED
    BY <1>1, <2>1, <2>2, <2>3 DEF TypeOK
<1>4. ASSUME NEW p \in IssuedProofs(GroupOf(o)), Enqueue(o, p)
      PROVE  TypeOK'
  <2>1. On(o) \in Tabs => p \in LeaseProof
    <3>1. GroupOf(o) \in GroupIds \cup {NoGroup}
      BY RequestType
    <3>2. CASE GroupOf(o) = NoGroup
      BY <3>2, RequestType, SchedulerAssumption
    <3>3. CASE GroupOf(o) \in GroupIds
      <4>1. groups[GroupOf(o)].lease_id \in Nat /\ groups[GroupOf(o)].fence \in Nat
        BY <3>3 DEF TypeOK, GroupTypes, GroupState
      <4>2. QED
        BY <3>3, <4>1, SchedulerAssumption DEF IssuedProofs, LeaseProof
    <3>4. QED
      BY <3>1, <3>2, <3>3
  <2>2. OperationTypes'
    BY <1>4, <2>1 DEF Enqueue, TypeOK, OperationTypes, OperationStates, NoProof, LeaseProof
  <2>3. queue' \in [Lanes -> Seq(Ops)]
    BY <1>4, RequestType DEF Enqueue, TypeOK, LaneTypes
  <2>4. LaneTypes'
    BY <1>4, <2>3 DEF Enqueue, TypeOK, LaneTypes
  <2>5. CountTypes'
    BY <1>4, RequestType DEF Enqueue, TypeOK, CountTypes
  <2>6. IntentTypes'
    BY <1>4, ForgetIntentType DEF Enqueue, TypeOK
  <2>7. GroupTypes' /\ SettlementTypes'
    BY <1>4 DEF Enqueue, TypeOK, GroupTypes, SettlementTypes, groupVars
  <2>8. QED
    BY <1>1, <2>2, <2>4, <2>5, <2>6, <2>7 DEF TypeOK
<1>5. ASSUME NEW p, Refuse(o, p)
      PROVE  TypeOK'
  <2>1. IntentTypes'
    BY <1>5, ForgetIntentType DEF Refuse, TypeOK
  <2>2. QED
    BY <1>1, <1>5, <2>1 DEF Refuse, TypeOK, OperationTypes, LaneTypes, CountTypes,
         GroupTypes, SettlementTypes, opVars, laneVars, countVars, groupVars
<1>6. QED
  BY <1>2, <1>3, <1>4, <1>5 DEF Submit

LEMMA CancelType ==
  ASSUME TypeOK, NEW o \in Ops, NEW client \in Clients, Cancel(o, client)
  PROVE  TypeOK'
<1>1. ActorTypes'
  BY DEF Cancel, Dispatching, TypeOK, ActorTypes, Phases
<1>2. CASE RememberIntent(o, client)
  <2>1. cancellation_intents' \in [Ops -> Clients \cup {NoClient, AnyClient}]
    BY <1>2 DEF RememberIntent, TypeOK, IntentTypes
  <2>2. cancellation_intent_order' \in Seq(Ops)
    <3> DEFINE order == cancellation_intent_order
    <3>1. order \in Seq(Ops)
      BY DEF TypeOK, IntentTypes
    <3>2. Len(order) >= RecentLimit => Tail(order) \in Seq(Ops)
      <4>1. Len(order) >= RecentLimit => order # <<>>
        BY <3>1, SchedulerAssumption
      <4>2. QED
        BY <3>1, <4>1
    <3>3. QED
      BY <1>2, <3>1, <3>2 DEF RememberIntent
  <2>3. QED
    BY <1>1, <1>2, <2>1, <2>2 DEF RememberIntent, TypeOK, OperationTypes, LaneTypes,
         CountTypes, GroupTypes, SettlementTypes, IntentTypes, opVars, laneVars, countVars,
         groupVars
<1>3. CASE CancelQueued(o)
  BY <1>1, <1>3, CancelQueuedType DEF TypeOK
<1>4. CASE Detach({o}) /\ UNCHANGED groupVars
  BY <1>1, <1>4 DEF Detach, TypeOK, OperationTypes, LaneTypes, CountTypes, GroupTypes,
       SettlementTypes, IntentTypes, laneVars, countVars, groupVars, intentVars
<1>5. QED
  BY <1>2, <1>3, <1>4 DEF Cancel

LEMMA ExecutedType ==
  ASSUME TypeOK, NEW o \in Ops, NEW outcome \in Outcomes, Executed(o, outcome)
  PROVE  TypeOK'
<1>1. ActorTypes'
  BY DEF Executed, Dispatching, TypeOK, ActorTypes, Phases
<1>2. LaneTypes' /\ CountTypes'
  BY ReleaseType DEF Executed, TypeOK, LaneTypes, CountTypes
<1>3. waiting' \in SUBSET Ops /\ SettlementTypes' /\ IntentTypes'
  BY DEF Executed, Answer, DropEarly, TypeOK, OperationTypes, SettlementTypes,
         IntentTypes, intentVars
<1>4. next_lease' \in Nat
  BY DEF Executed, TypeOK, GroupTypes
<1>5. GroupOf(o) \in GroupIds => groups[GroupOf(o)] \in GroupState
  BY DEF TypeOK, GroupTypes
<1>6. CASE CompleteTerminal(o, outcome)
  <2>1. OperationTypes'
    <3>1. outcome \in Completions
      BY SchedulerAssumption DEF Completions
    <3>2. QED
      BY <1>3, <1>6, <3>1, FinishType DEF CompleteTerminal, TypeOK, OperationTypes
  <2>2. groups' \in [GroupIds -> GroupState]
    <3>1. GroupOf(o) \in GroupIds => FinishExecution(groups[GroupOf(o)]) \in GroupState
      BY <1>5, FinishExecutionType
    <3>2. QED
      BY <1>6, <3>1, WithGroupType DEF CompleteTerminal, TypeOK
  <2>3. QED
    BY <1>1, <1>2, <1>3, <1>4, <2>1, <2>2 DEF TypeOK, GroupTypes
<1>7. CASE CompleteAmbiguous(o)
  <2>1. OperationTypes'
    BY <1>3, <1>7, SchedulerAssumption DEF CompleteAmbiguous, TypeOK, OperationTypes,
       OperationStates, Completions
  <2>2. groups' \in [GroupIds -> GroupState]
    <3>1. GroupOf(o) \in GroupIds => BeginSettlement(groups[GroupOf(o)], o) \in GroupState
      BY <1>5, SettlementType
    <3>2. QED
      BY <1>7, <3>1, WithGroupType DEF CompleteAmbiguous, TypeOK
  <2>3. QED
    BY <1>1, <1>2, <1>3, <1>4, <2>1, <2>2 DEF TypeOK, GroupTypes
<1>8. CASE CompleteSettled(o)
  <2>1. OperationTypes'
    <3>1. early_settlements[o] \in Completions
      BY <1>8 DEF CompleteSettled, Completions
    <3>2. QED
      BY <1>3, <1>8, <3>1, FinishType DEF CompleteSettled, TypeOK, OperationTypes
  <2>2. groups' \in [GroupIds -> GroupState]
    <3> DEFINE s == BeginSettlement(groups[GroupOf(o)], o)
    <3>1. GroupOf(o) \in GroupIds => s \in GroupState
      BY <1>5, SettlementType
    <3> HIDE DEF s
    <3>2. GroupOf(o) \in GroupIds => Settled(o, s, early_settlements[o]) \in GroupState
      BY <3>1, SettledType
    <3>3. groups' = WithGroup(o, Settled(o, s, early_settlements[o]))
      BY <1>8 DEF CompleteSettled, s
    <3>4. QED
      BY <3>2, <3>3, WithGroupType DEF TypeOK
  <2>3. QED
    BY <1>1, <1>2, <1>3, <1>4, <2>1, <2>2 DEF TypeOK, GroupTypes
<1>9. QED
  BY <1>6, <1>7, <1>8 DEF Executed

LEMMA SettleType ==
  ASSUME TypeOK, NEW o \in Ops, NEW outcome \in Settlements, Settle(o, outcome)
  PROVE  TypeOK'
<1>1. ActorTypes' /\ LaneTypes' /\ CountTypes' /\ IntentTypes' /\ next_lease' \in Nat
  BY DEF Settle, Dispatching, TypeOK, ActorTypes, Phases, LaneTypes, CountTypes,
         IntentTypes, GroupTypes, laneVars, countVars, intentVars
<1>2. CASE SettleEarly(o, outcome)
  BY <1>1, <1>2 DEF SettleEarly, TypeOK, OperationTypes, GroupTypes, SettlementTypes,
       opVars
<1>3. CASE SettleNow(o, outcome)
  <2>1. OperationTypes'
    <3>1. outcome \in Completions
      BY <1>3 DEF SettleNow, Settlements, Completions
    <3>2. QED
      BY <1>3, <3>1, FinishType DEF SettleNow, TypeOK, OperationTypes
  <2>2. groups' \in [GroupIds -> GroupState]
    <3>1. GroupOf(o) \in GroupIds =>
            Settled(o, groups[GroupOf(o)], outcome) \in GroupState
      BY SettledType DEF TypeOK, GroupTypes
    <3>2. QED
      BY <1>3, <3>1, WithGroupType DEF SettleNow, TypeOK
  <2>3. SettlementTypes'
    BY <1>3 DEF SettleNow, TypeOK, SettlementTypes
  <2>4. QED
    BY <1>1, <2>1, <2>2, <2>3 DEF TypeOK, GroupTypes
<1>4. QED
  BY <1>2, <1>3 DEF Settle

\* A command that changes groups only keeps TypeOK if the groups stay groups.
LEMMA OnlyGroupsType ==
  ASSUME TypeOK, OnlyGroups, ActorTypes', GroupTypes'
  PROVE  TypeOK'
BY DEF OnlyGroups, TypeOK, OperationTypes, LaneTypes, CountTypes, SettlementTypes,
       IntentTypes, opVars, laneVars, countVars, intentVars

LEMMA GroupCommandType ==
  ASSUME TypeOK, NEW g \in GroupIds, GroupCommand(g)
  PROVE  TypeOK'
<1>1. groups[g] \in GroupState /\ groups \in [GroupIds -> GroupState] /\ next_lease \in Nat
  BY DEF TypeOK, GroupTypes
<1>2. Dispatching => ActorTypes'
  BY DEF Dispatching, TypeOK, ActorTypes, Phases
<1>3. \A ops \in SUBSET Ops : Sweep("cancelling", ops) => ActorTypes'
  BY DEF Sweep, ActorTypes, Phases
<1>4. CASE CreateGroup(g)
  <2>1. next_lease + 1 \in Nat /\ HomeOf[g] \in Browsers /\ OwnerOf[g] \in Principals
    BY <1>1, SchedulerAssumption
  <2>2. Created(groups[g], HomeOf[g], OwnerOf[g], next_lease + 1) \in GroupState
    BY <1>1, <2>1, CreatedType
  <2>3. GroupTypes'
    BY <1>1, <1>4, <2>1, <2>2 DEF CreateGroup, GroupTypes
  <2>4. QED
    BY <1>2, <1>4, <2>3, OnlyGroupsType DEF CreateGroup
<1>5. ASSUME NEW p \in Principals, NEW t \in Tabs, AddMember(g, p, t)
      PROVE  TypeOK'
  <2>1. GroupTypes'
    BY <1>1, <1>5, WithMemberType DEF AddMember, GroupTypes
  <2>2. QED
    BY <1>2, <1>5, <2>1, OnlyGroupsType DEF AddMember
<1>6. ASSUME NEW p, NEW principal, Renew(g, p, principal)
      PROVE  TypeOK'
  <2>1. GroupTypes'
    BY <1>1, <1>6, UnexpiredType DEF Renew, GroupTypes
  <2>2. QED
    BY <1>2, <1>6, <2>1, OnlyGroupsType DEF Renew
<1>7. ASSUME NEW principal, NEW members, NEW revision,
             ResumeRecovered(g, principal, members, revision)
      PROVE  TypeOK'
  <2>1. Resumed(groups[g], next_lease + 1) \in GroupState
    BY <1>1, ResumedType
  <2>2. GroupTypes'
    BY <1>1, <1>7, <2>1 DEF ResumeRecovered, GroupTypes
  <2>3. QED
    BY <1>2, <1>7, <2>2, OnlyGroupsType DEF ResumeRecovered
<1>8. ASSUME NEW principal, EndGroup(g, principal)
      PROVE  TypeOK'
  <2>1. Ended(groups[g], in_flight_by_group[g]) \in GroupState
    BY <1>1, EndType DEF TypeOK, CountTypes
  <2>2. GroupTypes'
    BY <1>1, <1>8, <2>1 DEF EndGroup, GroupTypes
  <2>3. ActorTypes'
    BY <1>3, <1>8 DEF EndGroup, Queued
  <2>4. QED
    BY <1>8, <2>2, <2>3, OnlyGroupsType DEF EndGroup
<1>9. ASSUME NEW p, NEW target \in Principals, NEW revision \in 0 .. MaxRevision,
             OfferHandoff(g, p, target, revision)
      PROVE  TypeOK'
  <2>1. Offered(groups[g], target, revision) \in GroupState
    BY <1>1, OfferedType, SchedulerAssumption
  <2>2. GroupTypes'
    BY <1>1, <1>9, <2>1 DEF OfferHandoff, GroupTypes
  <2>3. ActorTypes'
    BY <1>3, <1>9 DEF OfferHandoff, Queued
  <2>4. QED
    BY <1>9, <2>2, <2>3, OnlyGroupsType DEF OfferHandoff
<1>10. ASSUME NEW p, NEW target \in Principals, NEW revision,
              ForceHandoff(g, p, target, revision) \/ AcceptHandoff(g, target, revision)
       PROVE  TypeOK'
  <2>1. Moved(groups[g], target) \in GroupState
    BY <1>1, MovedType
  <2>2. GroupTypes'
    BY <1>1, <1>10, <2>1 DEF ForceHandoff, AcceptHandoff, GroupTypes
  <2>3. QED
    BY <1>2, <1>10, <2>2, OnlyGroupsType DEF ForceHandoff, AcceptHandoff
<1>11. QED
  BY <1>4, <1>5, <1>6, <1>7, <1>8, <1>9, <1>10 DEF GroupCommand

LEMMA SweepCommandType ==
  ASSUME TypeOK,
         \/ \E principal \in Principals : Disconnect(principal)
         \/ \E b \in Browsers : BrowserLost(b)
  PROVE  TypeOK'
<1>1. groups \in [GroupIds -> GroupState] /\ next_lease \in Nat
  BY DEF TypeOK, GroupTypes
<1>2. \A which \in {"cancelling", "rejecting"}, ops \in SUBSET Ops :
        Sweep(which, ops) => ActorTypes'
  BY DEF Sweep, ActorTypes, Phases
<1>3. ASSUME NEW principal \in Principals, Disconnect(principal)
      PROVE  TypeOK'
  <2>1. GroupTypes'
    BY <1>1, <1>3, MarkDisconnectedType DEF Disconnect, GroupTypes
  <2>2. ActorTypes'
    BY <1>2, <1>3 DEF Disconnect, Queued
  <2>3. QED
    BY <1>3, <2>1, <2>2 DEF Disconnect, Detach, TypeOK, OperationTypes, LaneTypes,
       CountTypes, SettlementTypes, IntentTypes, laneVars, countVars, intentVars
<1>4. ASSUME NEW b \in Browsers, BrowserLost(b)
      PROVE  TypeOK'
  <2>1. GroupTypes'
    BY <1>1, <1>4, BrowserLossType DEF BrowserLost, GroupTypes
  <2>2. ActorTypes'
    BY <1>2, <1>4 DEF BrowserLost, Queued
  <2>3. QED
    BY <1>4, <2>1, <2>2, OnlyGroupsType DEF BrowserLost
<1>5. QED
  BY <1>3, <1>4

LEMMA TimerType ==
  ASSUME TypeOK, PruneReleased \/ Query \/ Elapse \/ Tick
  PROVE  TypeOK'
<1>1. groups \in [GroupIds -> GroupState] /\ next_lease \in Nat
  BY DEF TypeOK, GroupTypes
<1>2. Dispatching => ActorTypes'
  BY DEF Dispatching, TypeOK, ActorTypes, Phases
<1>3. CASE PruneReleased
  <2>1. GroupTypes'
    BY <1>1, <1>3, PrunedType DEF PruneReleased, GroupTypes
  <2>2. QED
    BY <1>2, <1>3, <2>1, OnlyGroupsType DEF PruneReleased
<1>4. CASE Query
  BY <1>2, <1>4 DEF Query, TypeOK, OperationTypes, LaneTypes, CountTypes, GroupTypes,
     SettlementTypes, IntentTypes, opVars, laneVars, countVars, groupVars, intentVars
<1>5. CASE Elapse
  <2>1. GroupTypes'
    BY <1>1, <1>5, OlderType DEF Elapse, GroupTypes
  <2>2. deadline' \in [Ops -> 0 .. SettlementWindow]
    BY <1>5, SchedulerAssumption DEF Elapse, Dec, TypeOK, OperationTypes
  <2>3. QED
    BY <1>5, <2>1, <2>2 DEF Elapse, TypeOK, ActorTypes, OperationTypes, LaneTypes,
       CountTypes, SettlementTypes, IntentTypes, laneVars, countVars, intentVars
<1>6. CASE Tick
  <2>1. \A g \in GroupIds : Ticked(g) \in GroupState
    <3>1. \A g : {o \in Overdue : GroupOf(o) = g} \in SUBSET Ops
      BY DEF Overdue
    <3>2. \A g \in GroupIds : in_flight_by_group[g] \in Nat
      BY DEF TypeOK, CountTypes
    <3>3. QED
      BY <1>1, <3>1, <3>2, MarkUnknownType, EndType DEF Ticked
  <2>2. GroupTypes'
    BY <1>1, <1>6, <2>1 DEF Tick, GroupTypes
  <2>3. state' \in [Ops -> OperationStates]
    BY <1>6 DEF Tick, TypeOK, OperationTypes, OperationStates
  <2>4. QED
    BY <1>2, <1>6, <2>2, <2>3 DEF Tick, TypeOK, OperationTypes, LaneTypes, CountTypes,
       SettlementTypes, IntentTypes, laneVars, countVars, intentVars
<1>7. QED
  BY <1>3, <1>4, <1>5, <1>6

LEMMA MarkDispatchedType ==
  ASSUME TypeOK, NEW o \in Ops, MarkDispatched(o)
  PROVE  /\ OperationTypes' /\ busy' \in SUBSET Lanes /\ CountTypes' /\ GroupTypes'
         /\ SettlementTypes' /\ IntentTypes'
<1>1. OperationTypes'
  BY DEF MarkDispatched, TypeOK, OperationTypes, OperationStates
<1>2. busy' \in SUBSET Lanes
  BY RequestType DEF MarkDispatched, TypeOK, LaneTypes
<1>3. CountTypes'
  <2>1. queued_by_client' \in [Clients -> Nat]
    BY FreeSlotType DEF MarkDispatched, TypeOK
  <2>2. in_flight_by_group' \in [GroupIds -> Nat]
    BY RequestType DEF MarkDispatched, TypeOK, CountTypes
  <2>3. bridge_dispatch_in_flight' \in [Browsers -> Nat]
    BY RequestType, LaneBrowserType DEF MarkDispatched, TypeOK, CountTypes
  <2>4. QED
    BY <2>1, <2>2, <2>3 DEF CountTypes
<1>4. GroupTypes'
  BY RequestType, UnexpiredType DEF MarkDispatched, TypeOK, GroupTypes
<1>5. SettlementTypes' /\ IntentTypes'
  BY DEF MarkDispatched, TypeOK, SettlementTypes, IntentTypes, intentVars
<1>6. QED
  BY <1>1, <1>2, <1>3, <1>4, <1>5

LEMMA DequeueType ==
  ASSUME TypeOK, NEW l \in Lanes, queue[l] # <<>>, Dequeue(l),
         round' \in [Browsers \cup {Daemon} -> Round]
  PROVE  TypeOK'
<1>1. queue[l] \in Seq(Ops) /\ Head(queue[l]) \in Ops /\ Tail(queue[l]) \in Seq(Ops)
  BY DEF TypeOK, LaneTypes
<1>2. queue' \in [Lanes -> Seq(Ops)]
  BY <1>1 DEF Dequeue, TypeOK, LaneTypes
<1>3. ActorTypes'
  BY DEF Dequeue, TypeOK, ActorTypes
<1>4. /\ OperationTypes' /\ busy' \in SUBSET Lanes /\ CountTypes' /\ GroupTypes'
      /\ SettlementTypes' /\ IntentTypes'
  BY <1>1, MarkDispatchedType, RejectType DEF Dequeue
<1>5. QED
  BY <1>2, <1>3, <1>4 DEF TypeOK, LaneTypes

LEMMA DispatchType ==
  ASSUME TypeOK, Dispatch
  PROVE  TypeOK'
<1>1. Tabs \subseteq Lanes /\ Browsers \subseteq Lanes /\ Daemon \in Lanes
  BY DEF Lanes
<1>2. round \in [Browsers \cup {Daemon} -> Round]
  BY DEF TypeOK, LaneTypes
<1>3. DaemonRoundAfter \in Round /\ NoRound \in Round
  BY <1>2 DEF DaemonRoundAfter, NoRound, Round
<1>4. CASE DispatchDaemonGlobal
  BY <1>1, <1>2, <1>4, DequeueType DEF DispatchDaemonGlobal, DaemonFirst
<1>5. ASSUME NEW t \in Tabs, DispatchTab(t)
      PROVE  TypeOK'
  <2>1. round' \in [Browsers \cup {Daemon} -> Round]
    <3>1. \A r \in Round : [r EXCEPT !.tabs = @ \ {t}] \in Round
      BY DEF Round
    <3>2. QED
      BY <1>2, <1>5, <3>1 DEF DispatchTab
  <2>2. QED
    BY <1>1, <1>5, <2>1, DequeueType DEF DispatchTab, EligibleTab
<1>6. ASSUME NEW b \in Browsers, DispatchBridgeGlobal(b)
      PROVE  TypeOK'
  <2>1. round' \in [Browsers \cup {Daemon} -> Round]
    BY <1>2, <1>3, <1>6 DEF DispatchBridgeGlobal
  <2>2. QED
    BY <1>1, <1>6, <2>1, DequeueType DEF DispatchBridgeGlobal, EligibleBrowser
<1>7. CASE DispatchDone
  <2>1. round' \in [Browsers \cup {Daemon} -> Round]
    BY <1>2, <1>3, <1>7 DEF DispatchDone
  <2>2. QED
    BY <1>7, <2>1 DEF DispatchDone, TypeOK, ActorTypes, Phases, OperationTypes, LaneTypes,
       CountTypes, GroupTypes, SettlementTypes, IntentTypes, opVars, countVars, groupVars,
       intentVars
<1>8. QED
  BY <1>4, <1>5, <1>6, <1>7 DEF Dispatch

LEMMA VictimType ==
  ASSUME TypeOK, NEW o \in Ops, CancelVictim(o) \/ RejectVictim(o)
  PROVE  TypeOK'
<1>1. Swept(o) => ActorTypes'
  BY DEF Swept, TypeOK, ActorTypes, Phases
<1>2. CASE CancelVictim(o)
  BY <1>1, <1>2, CancelQueuedType DEF CancelVictim, TypeOK
<1>3. CASE RejectVictim(o)
  <2>1. queue' \in [Lanes -> Seq(Ops)]
    BY <1>3, DropType DEF RejectVictim, TypeOK
  <2>2. QED
    BY <1>1, <1>3, <2>1, RejectType DEF RejectVictim, TypeOK, LaneTypes
<1>4. QED
  BY <1>2, <1>3
-----------------------------------------------------------------------------
LEMMA InitType == Init => TypeOK
<1> SUFFICES ASSUME Init PROVE TypeOK
  OBVIOUS
<1>1. groups \in [GroupIds -> GroupState]
  <2>1. \A g \in GroupIds : AbsentGroup(g) \in GroupState
    BY TimersAssumption, SchedulerAssumption DEF AbsentGroup, GroupState, HandoffOffer,
       Admissions, LeaseStates
  <2>2. \A g \in GroupIds : RecoveredGroups(g) \subseteq GroupState
    <3> SUFFICES ASSUME NEW g \in GroupIds, NEW s \in RecoveredGroups(g)
                 PROVE  s \in GroupState
      OBVIOUS
    <3>1. PICK tabs \in SUBSET Tabs, admission \in {"Suspended", "RecoveryRequired"} :
            s = RecoveredGroup(g, tabs, admission)
      BY DEF RecoveredGroups
    <3>2. /\ admission \in Admissions /\ "Suspended" \in LeaseStates
          /\ 1 \in Nat /\ 2 \in Nat
      BY DEF Admissions, LeaseStates
    <3>3. QED
      BY <2>1, <3>1, <3>2, Zenon DEF RecoveredGroup, GroupState
  <2>3. \A g \in GroupIds : InitialGroups(g) \subseteq GroupState
    BY <2>1, <2>2 DEF InitialGroups
  <2>4. QED
    BY <2>3 DEF Init, InitialRegistries
<1>2. ActorTypes /\ OperationTypes
  BY SchedulerAssumption DEF Init, ActorTypes, Phases, OperationTypes, OperationStates,
     NoProof, LeaseProof, Completions
<1>3. LaneTypes /\ CountTypes
  BY DEF Init, LaneTypes, CountTypes, NoRound, Round
<1>4. GroupTypes /\ SettlementTypes /\ IntentTypes
  BY <1>1 DEF Init, GroupTypes, SettlementTypes, IntentTypes
<1>5. QED
  BY <1>2, <1>3, <1>4 DEF TypeOK

LEMMA NextType == TypeOK /\ [Next]_vars => TypeOK'
<1> SUFFICES ASSUME TypeOK, [Next]_vars PROVE TypeOK'
  OBVIOUS
<1>1. CASE UNCHANGED vars
  BY <1>1 DEF vars, opVars, laneVars, countVars, groupVars, intentVars, TypeOK,
     ActorTypes, OperationTypes, LaneTypes, CountTypes, GroupTypes, SettlementTypes,
     IntentTypes
<1>2. ASSUME NEW o \in Ops, OperationCommand(o) \/ CancelVictim(o) \/ RejectVictim(o)
      PROVE  TypeOK'
  BY <1>2, SubmitType, CancelType, ExecutedType, SettleType, VictimType
     DEF OperationCommand
<1>3. QED
  BY <1>1, <1>2, GroupCommandType, SweepCommandType, TimerType, DispatchType DEF Next

\* The state the scheduler keeps always has its type, whatever the limits, the
\* requests and the order of commands.
THEOREM TypeCorrect == Spec => []TypeOK
BY InitType, NextType, PTL DEF Spec
-----------------------------------------------------------------------------
(* Sequences that list each of their entries once.                          *)

LEMMA EmptyLists == Distinct(<<>>) /\ Entries(<<>>) = {}
BY DEF Distinct, Entries

LEMMA AppendLists ==
  ASSUME NEW S, NEW q \in Seq(S), NEW o \in S, Distinct(q), o \notin Entries(q)
  PROVE  /\ Distinct(Append(q, o))
         /\ Entries(Append(q, o)) = Entries(q) \cup {o}
<1> DEFINE r == Append(q, o)
<1>1. /\ Len(r) = Len(q) + 1 /\ Len(q) \in Nat
      /\ r[Len(q) + 1] = o
      /\ \A i \in 1 .. Len(q) : r[i] = q[i]
  OBVIOUS
<1> HIDE DEF r
<1>2. Distinct(r)
  BY <1>1 DEF Distinct, Entries
<1>3. Entries(r) = Entries(q) \cup {o}
  <2>1. \A x \in Entries(r) : x \in Entries(q) \cup {o}
    BY <1>1 DEF Entries
  <2>2. \A x \in Entries(q) : x \in Entries(r)
    BY <1>1 DEF Entries
  <2>3. o \in Entries(r)
    BY <1>1 DEF Entries
  <2>4. QED
    BY <2>1, <2>2, <2>3
<1>4. QED
  BY <1>2, <1>3 DEF r

LEMMA TailLists ==
  ASSUME NEW S, NEW q \in Seq(S), q # <<>>, Distinct(q)
  PROVE  /\ Head(q) \in Entries(q)
         /\ Tail(q) \in Seq(S)
         /\ Distinct(Tail(q))
         /\ Entries(Tail(q)) = Entries(q) \ {Head(q)}
<1> DEFINE r == Tail(q)
<1>1. /\ Len(q) \in Nat \ {0} /\ Len(r) = Len(q) - 1
      /\ Head(q) = q[1]
      /\ r \in Seq(S)
      /\ \A i \in 1 .. Len(r) : r[i] = q[i + 1]
  OBVIOUS
<1> HIDE DEF r
<1>2. Distinct(r)
  BY <1>1 DEF Distinct
<1>3. Entries(r) = Entries(q) \ {Head(q)}
  <2>1. \A x \in Entries(r) : x \in Entries(q) /\ x # q[1]
    BY <1>1 DEF Entries, Distinct
  <2>2. ASSUME NEW x \in Entries(q), x # q[1] PROVE x \in Entries(r)
    <3>1. PICK i \in 1 .. Len(q) : x = q[i]
      BY DEF Entries
    <3>2. i - 1 \in 1 .. Len(r) /\ r[i - 1] = x
      BY <1>1, <2>2, <3>1
    <3>3. QED
      BY <3>2 DEF Entries
  <2>3. QED
    BY <1>1, <2>1, <2>2
<1>4. Head(q) \in Entries(q)
  BY <1>1 DEF Entries
<1>5. QED
  BY <1>1, <1>2, <1>3, <1>4 DEF r

LEMMA WithoutLists ==
  ASSUME NEW S, NEW q \in Seq(S), NEW o, Distinct(q)
  PROVE  /\ Distinct(Without(q, o))
         /\ Entries(Without(q, o)) = Entries(q) \ {o}
<1>1. CASE \A i \in 1 .. Len(q) : q[i] # o
  BY <1>1 DEF Without, Entries
<1>2. CASE \E i \in 1 .. Len(q) : q[i] = o
  <2> DEFINE k == CHOOSE i \in 1 .. Len(q) : q[i] = o
             r == [i \in 1 .. Len(q) - 1 |-> IF i < k THEN q[i] ELSE q[i + 1]]
  <2>1. k \in 1 .. Len(q) /\ q[k] = o
    BY <1>2
  <2>2. Len(q) \in Nat \ {0} /\ Len(q) - 1 \in Nat
    BY <2>1
  <2>3. Without(q, o) = r
    BY <1>2, Zenon DEF Without
  <2> HIDE DEF k
  <2>4. r \in [1 .. Len(q) - 1 -> S]
    BY <2>1, <2>2
  <2>5. r \in Seq(S) /\ Len(r) = Len(q) - 1
    BY <2>2, <2>4
  <2>6. \A i \in 1 .. Len(r) : r[i] = IF i < k THEN q[i] ELSE q[i + 1]
    BY <2>5
  <2> HIDE DEF r
  <2>7. Distinct(r)
    <3> SUFFICES ASSUME NEW i \in 1 .. Len(r), NEW j \in 1 .. Len(r), r[i] = r[j]
                 PROVE  i = j
      BY DEF Distinct
    <3> DEFINE a == IF i < k THEN i ELSE i + 1
               b == IF j < k THEN j ELSE j + 1
    <3>1. a \in 1 .. Len(q) /\ b \in 1 .. Len(q) /\ q[a] = q[b]
      BY <2>1, <2>2, <2>5, <2>6
    <3>2. a = b
      BY <3>1 DEF Distinct
    <3>3. QED
      BY <2>1, <3>2
  <2>8. \A x \in Entries(r) : x \in Entries(q) /\ x # o
    <3> SUFFICES ASSUME NEW i \in 1 .. Len(r) PROVE r[i] \in Entries(q) /\ r[i] # o
      BY DEF Entries
    <3> DEFINE a == IF i < k THEN i ELSE i + 1
    <3>1. a \in 1 .. Len(q) /\ a # k /\ r[i] = q[a]
      BY <2>1, <2>2, <2>5, <2>6
    <3>2. QED
      BY <2>1, <3>1 DEF Distinct, Entries
  <2>9. ASSUME NEW x \in Entries(q), x # o PROVE x \in Entries(r)
    <3>1. PICK i \in 1 .. Len(q) : x = q[i]
      BY DEF Entries
    <3>2. i # k
      BY <2>1, <2>9, <3>1
    <3> DEFINE a == IF i < k THEN i ELSE i - 1
    <3>3. a \in 1 .. Len(r) /\ r[a] = x
      BY <2>1, <2>2, <2>5, <2>6, <3>1, <3>2
    <3>4. QED
      BY <3>3 DEF Entries
  <2>10. QED
    BY <2>3, <2>7, <2>8, <2>9
<1>3. QED
  BY <1>1, <1>2
-----------------------------------------------------------------------------
(* The inductive invariant.                                                 *)

\* The operations an iteration still has to end are queued, and there are none
\* outside of a sweep.
VictimsQueued ==
  /\ victims \subseteq Queued
  /\ phase \notin {"cancelling", "rejecting"} => victims = {}

\* A record has no completion exactly while its operation may still run or runs,
\* and what has not been dispatched has not run.
RecordsExact ==
  \A o \in Ops :
    /\ completion[o] = "none" <=> state[o] \in {"new", "queued", "dispatched"}
    /\ state[o] \in {"new", "queued"} => o \notin ran

Books ==
  /\ QueuesExact
  /\ RecentExact
  /\ IntentsExact
  /\ RecordsExact
  /\ NoLostWaiter
  /\ NoPhantomExecution

OperationInv == TypeOK /\ VictimsQueued /\ Books
-----------------------------------------------------------------------------
(* What ends an operation: Finish.                                          *)

\* Finish touches the record of its operation and the one it evicts, and the
\* ring stays exact.
LEMMA FinishEffect ==
  ASSUME OperationTypes, RecentExact, NEW o \in Ops, NEW c, Finish(o, c),
         state[o] # "terminal"
  PROVE  /\ state'[o] = "terminal" /\ completion'[o] = c /\ (o \in ran' <=> o \in ran)
         /\ \A q \in Ops \ {o} :
              \/ /\ state'[q] = state[q] /\ completion'[q] = completion[q]
                 /\ q \in ran' <=> q \in ran
              \/ /\ state[q] = "terminal" /\ state'[q] = "new"
                 /\ completion'[q] = "none" /\ q \notin ran'
         /\ RecentExact'
<1>1. o \notin Evicted
  BY DEF Evicted
<1>2. /\ state'[o] = "terminal" /\ completion'[o] = c /\ (o \in ran' <=> o \in ran)
      /\ \A q \in Ops \ {o} :
           \/ /\ state'[q] = state[q] /\ completion'[q] = completion[q]
              /\ q \in ran' <=> q \in ran
           \/ /\ state[q] = "terminal" /\ state'[q] = "new"
              /\ completion'[q] = "none" /\ q \notin ran'
  BY <1>1 DEF Finish, Evicted
<1>3. recent \in Seq(Ops) /\ Distinct(recent) /\ Len(recent) <= RecentLimit
  BY DEF OperationTypes, RecentExact
<1>4. Entries(recent) = {q \in Ops : state[q] = "terminal"}
  BY DEF RecentExact
<1>5. RecentLimit \in Nat \ {0}
  BY SchedulerAssumption
<1>6. CASE Len(recent) >= RecentLimit
  <2>1. recent # <<>>
    BY <1>3, <1>5, <1>6
  <2> DEFINE rest == Tail(recent)
  <2>2. /\ Head(recent) \in Entries(recent)
        /\ rest \in Seq(Ops) /\ Distinct(rest)
        /\ Entries(rest) = Entries(recent) \ {Head(recent)}
    BY <1>3, <2>1, TailLists
  <2>3. Len(rest) = Len(recent) - 1
    BY <1>3, <2>1
  <2>4. recent' = Append(rest, o)
    BY <1>6 DEF Finish, Remember
  <2>5. {q \in Ops : state'[q] = "terminal"} = Entries(rest) \cup {o}
    BY <1>4, <1>6, <2>2 DEF Finish, Evicted
  <2>6. o \notin Entries(rest)
    BY <1>4, <2>2
  <2> HIDE DEF rest
  <2>7. Distinct(recent') /\ Entries(recent') = Entries(rest) \cup {o}
    BY <2>2, <2>4, <2>6, AppendLists
  <2>8. Len(recent') <= RecentLimit
    BY <1>3, <1>5, <2>2, <2>3, <2>4
  <2>9. QED
    BY <1>2, <2>5, <2>7, <2>8 DEF RecentExact, Distinct, Entries
<1>7. CASE ~ (Len(recent) >= RecentLimit)
  <2>1. recent' = Append(recent, o)
    BY <1>7 DEF Finish, Remember
  <2>2. {q \in Ops : state'[q] = "terminal"} = Entries(recent) \cup {o}
    BY <1>4, <1>7 DEF Finish, Evicted
  <2>3. o \notin Entries(recent)
    BY <1>4
  <2>4. Distinct(recent') /\ Entries(recent') = Entries(recent) \cup {o}
    BY <1>3, <2>1, <2>3, AppendLists
  <2>5. Len(recent') <= RecentLimit
    BY <1>3, <1>5, <1>7, <2>1
  <2>6. QED
    BY <1>2, <2>2, <2>4, <2>5 DEF RecentExact, Distinct, Entries
<1>8. QED
  BY <1>6, <1>7

LEMMA FinishQueued ==
  ASSUME OperationTypes, RecentExact, NEW o \in Ops, NEW c, Finish(o, c),
         state[o] # "terminal"
  PROVE  Queued' = Queued \ {o}
BY FinishEffect DEF Queued

LEMMA FinishRecords ==
  ASSUME OperationTypes, RecentExact, RecordsExact, NoPhantomExecution,
         NEW o \in Ops, NEW c, Finish(o, c), state[o] # "terminal", c # "none",
         c \in {"cancelled", "rejected"} => state[o] \in {"new", "queued"}
  PROVE  RecordsExact' /\ NoPhantomExecution'
<1>1. c \in {"cancelled", "rejected"} => o \notin ran
  BY DEF RecordsExact
<1>2. \A q \in Ops : /\ completion'[q] = "none" <=> state'[q] \in {"new", "queued", "dispatched"}
                     /\ state'[q] \in {"new", "queued"} => q \notin ran'
  BY FinishEffect DEF RecordsExact
<1>3. \A q \in Ops : completion'[q] \in {"cancelled", "rejected"} => q \notin ran'
  BY <1>1, FinishEffect DEF NoPhantomExecution
<1>4. QED
  BY <1>2, <1>3 DEF RecordsExact, NoPhantomExecution

LEMMA FinishWaiting ==
  ASSUME OperationTypes, RecentExact, NoLostWaiter, NEW o \in Ops, NEW c, Finish(o, c),
         state[o] # "terminal", waiting' \subseteq waiting, o \notin waiting'
  PROVE  NoLostWaiter'
<1>1. waiting \subseteq Ops
  BY DEF OperationTypes
<1>2. QED
  BY <1>1, FinishEffect DEF NoLostWaiter

LEMMA FinishIntents ==
  ASSUME OperationTypes, RecentExact, IntentsExact, NEW o \in Ops, NEW c, Finish(o, c),
         state[o] \notin {"new", "terminal"}, UNCHANGED intentVars
  PROVE  IntentsExact'
<1>1. Entries(cancellation_intent_order) \subseteq Ops
  BY DEF IntentsExact
<1>2. \A q \in Entries(cancellation_intent_order) : state'[q] = "new"
  BY <1>1, FinishEffect DEF IntentsExact
<1>3. QED
  BY <1>2 DEF IntentsExact, intentVars, Entries, Distinct
-----------------------------------------------------------------------------
(* The queues.                                                              *)

LEMMA SameQueues ==
  ASSUME QueuesExact, queue' = queue, Queued' = Queued
  PROVE  QueuesExact'
BY DEF QueuesExact, Distinct, Entries

\* An operation joins the queue of its lane.
LEMMA JoinQueue ==
  ASSUME LaneTypes, QueuesExact, NEW o \in Ops, o \notin Queued,
         queue' = [queue EXCEPT ![On(o)] = Append(@, o)], Queued' = Queued \cup {o}
  PROVE  QueuesExact'
<1> SUFFICES ASSUME NEW l \in Lanes
             PROVE  /\ Distinct(queue'[l])
                    /\ Entries(queue'[l]) = {q \in Queued' : On(q) = l}
  BY DEF QueuesExact, Distinct, Entries
<1>1. /\ queue[l] \in Seq(Ops) /\ Distinct(queue[l])
      /\ Entries(queue[l]) = {q \in Queued : On(q) = l}
  BY DEF LaneTypes, QueuesExact
<1>2. CASE l = On(o)
  <2>1. queue'[l] = Append(queue[l], o)
    BY <1>2 DEF LaneTypes
  <2>2. QED
    BY <1>1, <1>2, <2>1, AppendLists
<1>3. CASE l # On(o)
  <2>1. queue'[l] = queue[l]
    BY <1>3 DEF LaneTypes
  <2>2. QED
    BY <1>1, <1>3, <2>1
<1>4. QED
  BY <1>2, <1>3

\* A queued operation leaves the queue of its lane, from any place in it.
LEMMA LeaveQueue ==
  ASSUME LaneTypes, QueuesExact, NEW o \in Ops,
         queue' = [queue EXCEPT ![On(o)] = Without(@, o)], Queued' = Queued \ {o}
  PROVE  QueuesExact'
<1> SUFFICES ASSUME NEW l \in Lanes
             PROVE  /\ Distinct(queue'[l])
                    /\ Entries(queue'[l]) = {q \in Queued' : On(q) = l}
  BY DEF QueuesExact, Distinct, Entries
<1>1. /\ queue[l] \in Seq(Ops) /\ Distinct(queue[l])
      /\ Entries(queue[l]) = {q \in Queued : On(q) = l}
  BY DEF LaneTypes, QueuesExact
<1>2. CASE l = On(o)
  <2>1. queue'[l] = Without(queue[l], o)
    BY <1>2 DEF LaneTypes
  <2>2. QED
    BY <1>1, <1>2, <2>1, WithoutLists
<1>3. CASE l # On(o)
  <2>1. queue'[l] = queue[l]
    BY <1>3 DEF LaneTypes
  <2>2. QED
    BY <1>1, <1>3, <2>1
<1>4. QED
  BY <1>2, <1>3

\* The head of a queue is an operation of the lane that is queued.
LEMMA HeadQueued ==
  ASSUME LaneTypes, QueuesExact, NEW l \in Lanes, queue[l] # <<>>
  PROVE  Head(queue[l]) \in Queued /\ On(Head(queue[l])) = l
<1>1. /\ queue[l] \in Seq(Ops) /\ Distinct(queue[l])
      /\ Entries(queue[l]) = {q \in Queued : On(q) = l}
  BY DEF LaneTypes, QueuesExact
<1>2. QED
  BY <1>1, TailLists

LEMMA TakeHead ==
  ASSUME LaneTypes, QueuesExact, NEW lane \in Lanes, queue[lane] # <<>>,
         queue' = [queue EXCEPT ![lane] = Tail(@)],
         Queued' = Queued \ {Head(queue[lane])}
  PROVE  QueuesExact'
<1> SUFFICES ASSUME NEW l \in Lanes
             PROVE  /\ Distinct(queue'[l])
                    /\ Entries(queue'[l]) = {q \in Queued' : On(q) = l}
  BY DEF QueuesExact, Distinct, Entries
<1>1. /\ queue[l] \in Seq(Ops) /\ Distinct(queue[l])
      /\ Entries(queue[l]) = {q \in Queued : On(q) = l}
  BY DEF LaneTypes, QueuesExact
<1>2. CASE l = lane
  <2>1. queue'[l] = Tail(queue[l])
    BY <1>2 DEF LaneTypes
  <2>2. QED
    BY <1>1, <1>2, <2>1, TailLists
<1>3. CASE l # lane
  <2>1. queue'[l] = queue[l]
    BY <1>3 DEF LaneTypes
  <2>2. QED
    BY <1>1, <1>3, <2>1, HeadQueued
<1>4. QED
  BY <1>2, <1>3
-----------------------------------------------------------------------------
(* The intents.                                                             *)

LEMMA ForgetIntents ==
  ASSUME IntentTypes, IntentsExact, NEW o \in Ops, ForgetIntent(o),
         \A q \in Ops \ {o} : state[q] = "new" => state'[q] = "new"
  PROVE  IntentsExact'
<1> DEFINE order == cancellation_intent_order
<1>1. /\ order \in Seq(Ops) /\ Distinct(order) /\ Len(order) <= RecentLimit
      /\ Entries(order) = {q \in Ops : cancellation_intents[q] # NoClient}
      /\ \A q \in Entries(order) : state[q] = "new"
  BY DEF IntentTypes, IntentsExact
<1>2. order' = Without(order, o)
  BY DEF ForgetIntent
<1>3. Distinct(order') /\ Entries(order') = Entries(order) \ {o}
  BY <1>1, <1>2, WithoutLists
<1>4. Len(order') <= RecentLimit
  <2>1. CASE \A i \in 1 .. Len(order) : order[i] # o
    BY <1>1, <1>2, <2>1 DEF Without
  <2>2. CASE \E i \in 1 .. Len(order) : order[i] = o
    <3>1. Len(order) - 1 \in Nat /\ Len(order) \in Nat
      BY <1>1, <2>2
    <3>2. Len(order') = Len(order) - 1
      BY <1>2, <2>2, <3>1 DEF Without
    <3>3. QED
      BY <1>1, <3>1, <3>2, SchedulerAssumption
  <2>3. QED
    BY <2>1, <2>2
<1>5. \A q \in Ops : cancellation_intents'[q] =
                       IF q = o THEN NoClient ELSE cancellation_intents[q]
  BY DEF ForgetIntent, IntentTypes
<1>6. Entries(order') = {q \in Ops : cancellation_intents'[q] # NoClient}
  BY <1>1, <1>3, <1>5
<1>7. \A q \in Entries(order') : state'[q] = "new"
  BY <1>1, <1>3
<1>8. QED
  BY <1>3, <1>4, <1>6, <1>7 DEF IntentsExact, Distinct, Entries

LEMMA RememberIntents ==
  ASSUME IntentTypes, IntentsExact, NEW o \in Ops, state[o] = "new",
         NEW client \in Clients \cup {AnyClient}, RememberIntent(o, client)
  PROVE  IntentsExact'
<1> DEFINE order == cancellation_intent_order
           known == cancellation_intents[o] # NoClient
           full  == ~ known /\ Len(order) >= RecentLimit
<1>1. /\ order \in Seq(Ops) /\ Distinct(order) /\ Len(order) <= RecentLimit
      /\ Entries(order) = {q \in Ops : cancellation_intents[q] # NoClient}
      /\ \A q \in Entries(order) : state[q] = "new"
  BY DEF IntentTypes, IntentsExact
<1>2. client # NoClient /\ RecentLimit \in Nat \ {0}
  BY SchedulerAssumption
<1>3. /\ state' = state
      /\ order' = IF known THEN order ELSE Append(IF full THEN Tail(order) ELSE order, o)
      /\ \A q \in Ops : cancellation_intents'[q] =
           IF q = o /\ (~ known \/ client = AnyClient) THEN client
           ELSE IF full /\ q = Head(order) THEN NoClient
           ELSE cancellation_intents[q]
  BY DEF RememberIntent, opVars
<1>4. CASE known
  <2>1. {q \in Ops : cancellation_intents'[q] # NoClient} =
        {q \in Ops : cancellation_intents[q] # NoClient}
    BY <1>2, <1>3, <1>4
  <2>2. order' = order
    BY <1>3, <1>4
  <2>3. QED
    BY <1>1, <1>3, <2>1, <2>2 DEF IntentsExact, Distinct, Entries
<1>5. CASE ~ known /\ full
  <2> DEFINE rest == Tail(order)
  <2>1. order # <<>>
    BY <1>1, <1>2, <1>5
  <2>2. /\ Head(order) \in Entries(order)
        /\ rest \in Seq(Ops) /\ Distinct(rest)
        /\ Entries(rest) = Entries(order) \ {Head(order)}
    BY <1>1, <2>1, TailLists
  <2>3. Len(rest) = Len(order) - 1
    BY <1>1, <2>1
  <2>4. o \notin Entries(order)
    BY <1>1, <1>5
  <2>5. order' = Append(rest, o)
    BY <1>3, <1>5
  <2> HIDE DEF rest
  <2>6. Distinct(order') /\ Entries(order') = Entries(rest) \cup {o}
    BY <2>2, <2>4, <2>5, AppendLists
  <2>7. {q \in Ops : cancellation_intents'[q] # NoClient} = Entries(rest) \cup {o}
    BY <1>1, <1>2, <1>3, <1>5, <2>2, <2>4
  <2>8. Len(order') <= RecentLimit
    BY <1>1, <1>2, <2>2, <2>3, <2>5
  <2>9. QED
    BY <1>1, <1>3, <2>2, <2>6, <2>7, <2>8 DEF IntentsExact, Distinct, Entries
<1>6. CASE ~ known /\ ~ full
  <2>1. o \notin Entries(order)
    BY <1>1, <1>6
  <2>2. order' = Append(order, o)
    BY <1>3, <1>6
  <2>3. Distinct(order') /\ Entries(order') = Entries(order) \cup {o}
    BY <1>1, <2>1, <2>2, AppendLists
  <2>4. {q \in Ops : cancellation_intents'[q] # NoClient} = Entries(order) \cup {o}
    BY <1>1, <1>2, <1>3, <1>6
  <2>5. Len(order') <= RecentLimit
    BY <1>1, <1>2, <1>6, <2>2
  <2>6. QED
    BY <1>1, <1>3, <2>3, <2>4, <2>5 DEF IntentsExact, Distinct, Entries
<1>7. QED
  BY <1>4, <1>5, <1>6

LEMMA SameIntents ==
  ASSUME IntentsExact, UNCHANGED intentVars,
         \A q \in Ops : state[q] = "new" => state'[q] = "new"
  PROVE  IntentsExact'
BY DEF IntentsExact, intentVars, Distinct, Entries
-----------------------------------------------------------------------------
(* One lemma per command: the command keeps the books.                      *)

LEMMA QuietBooks ==
  ASSUME TypeOK, Books, UNCHANGED <<state, completion, ran, recent, queue, intentVars>>,
         waiting' \subseteq waiting
  PROVE  Books' /\ Queued' = Queued
<1>1. waiting \subseteq Ops /\ Queued' = Queued
  BY DEF TypeOK, OperationTypes, Queued
<1>2. QueuesExact'
  BY <1>1, SameQueues DEF Books
<1>3. IntentsExact'
  BY SameIntents DEF Books
<1>4. RecentExact'
  BY DEF Books, RecentExact, Distinct, Entries
<1>5. RecordsExact' /\ NoLostWaiter' /\ NoPhantomExecution'
  BY <1>1 DEF Books, RecordsExact, NoLostWaiter, NoPhantomExecution
<1>6. QED
  BY <1>1, <1>2, <1>3, <1>4, <1>5 DEF Books

\* An operation that was not admitted yet or is not queued ends, and leaves the
\* queues as they are.
LEMMA EndBooks ==
  ASSUME TypeOK, Books, NEW o \in Ops, NEW c, Finish(o, c),
         state[o] \in {"dispatched", "pending", "unknown"},
         c \notin {"none", "cancelled", "rejected"},
         waiting' = waiting \ {o}, UNCHANGED <<queue, intentVars>>
  PROVE  Books' /\ Queued' = Queued
<1>1. OperationTypes /\ RecentExact /\ state[o] # "terminal"
  BY DEF TypeOK, Books
<1>2. Queued' = Queued
  BY <1>1, FinishQueued DEF Queued
<1>3. QueuesExact'
  BY <1>2, SameQueues DEF Books
<1>4. RecentExact'
  BY <1>1, FinishEffect
<1>5. IntentsExact'
  BY <1>1, FinishIntents DEF Books
<1>6. RecordsExact' /\ NoPhantomExecution'
  BY <1>1, FinishRecords DEF Books
<1>7. NoLostWaiter'
  BY <1>1, FinishWaiting DEF Books
<1>8. QED
  BY <1>2, <1>3, <1>4, <1>5, <1>6, <1>7 DEF Books

\* A queued operation ends before it is dispatched.
LEMMA DropBooks ==
  ASSUME TypeOK, Books, NEW o \in Queued, NEW c \in {"cancelled", "rejected"},
         Finish(o, c), Answer(o), UNCHANGED intentVars
  PROVE  /\ Queued' = Queued \ {o}
         /\ QueuesExact' => Books'
<1>1. OperationTypes /\ RecentExact /\ o \in Ops /\ state[o] = "queued"
  BY DEF TypeOK, Books, Queued
<1>2. Queued' = Queued \ {o}
  BY <1>1, FinishQueued
<1>3. RecentExact'
  BY <1>1, FinishEffect
<1>4. IntentsExact'
  BY <1>1, FinishIntents DEF Books
<1>5. RecordsExact' /\ NoPhantomExecution'
  BY <1>1, FinishRecords DEF Books
<1>6. NoLostWaiter'
  BY <1>1, FinishWaiting DEF Books, Answer
<1>7. QED
  BY <1>2, <1>3, <1>4, <1>5, <1>6 DEF Books

LEMMA SubmitBooks ==
  ASSUME OperationInv, NEW o \in Ops, Submit(o)
  PROVE  VictimsQueued' /\ Books'
<1>1. victims = {} /\ victims' = {}
  BY DEF Submit, Accepting, OperationInv, VictimsQueued
<1>2. VictimsQueued'
  BY <1>1 DEF VictimsQueued
<1>3. OperationTypes /\ LaneTypes /\ IntentTypes
  BY DEF OperationInv, TypeOK
<1>4. CASE Attach(o)
  <2>1. completion[o] = "none" => state[o] \in {"queued", "dispatched"}
    BY <1>4 DEF Attach, OperationInv, Books, RecordsExact
  <2>2. NoLostWaiter'
    BY <1>4, <2>1 DEF Attach, OperationInv, Books, NoLostWaiter
  <2>3. QueuesExact'
    BY <1>4, SameQueues DEF Attach, OperationInv, Books, Queued, laneVars
  <2>4. IntentsExact'
    BY <1>4, SameIntents DEF Attach, OperationInv, Books
  <2>5. RecentExact' /\ RecordsExact' /\ NoPhantomExecution'
    BY <1>4 DEF Attach, OperationInv, Books, RecentExact, RecordsExact, NoPhantomExecution,
       Distinct, Entries
  <2>6. QED
    BY <1>2, <2>2, <2>3, <2>4, <2>5 DEF Books
<1>5. CASE AdmitCancelled(o)
  <2>1. state[o] = "new" /\ Finish(o, "cancelled") /\ ForgetIntent(o) /\ RecentExact
    BY <1>5 DEF AdmitCancelled, OperationInv, Books
  <2>2. Queued' = Queued
    BY <1>3, <2>1, FinishQueued DEF Queued
  <2>3. QueuesExact'
    BY <1>5, <2>2, SameQueues DEF AdmitCancelled, OperationInv, Books, laneVars
  <2>4. RecentExact'
    BY <1>3, <2>1, FinishEffect
  <2>5. IntentsExact'
    <3>1. \A q \in Ops \ {o} : state[q] = "new" => state'[q] = "new"
      BY <1>3, <2>1, FinishEffect
    <3>2. QED
      BY <1>3, <2>1, <3>1, ForgetIntents DEF OperationInv, Books
  <2>6. RecordsExact' /\ NoPhantomExecution'
    BY <1>3, <2>1, FinishRecords DEF OperationInv, Books
  <2>7. NoLostWaiter'
    <3>1. o \notin waiting
      BY <2>1 DEF OperationInv, Books, NoLostWaiter
    <3>2. waiting' = waiting
      BY <1>5 DEF AdmitCancelled
    <3>3. QED
      BY <1>3, <2>1, <3>1, <3>2, FinishWaiting DEF OperationInv, Books
  <2>8. QED
    BY <1>2, <2>3, <2>4, <2>5, <2>6, <2>7 DEF Books
<1>6. ASSUME NEW p, Enqueue(o, p)
      PROVE  Books'
  <2>1. /\ state[o] = "new" /\ ForgetIntent(o)
        /\ state' = [state EXCEPT ![o] = "queued"]
    BY <1>6 DEF Enqueue, Fresh
  <2>2. \A q \in Ops : state'[q] = IF q = o THEN "queued" ELSE state[q]
    BY <1>3, <2>1 DEF OperationTypes
  <2>3. QueuesExact'
    <3>1. Queued' = Queued \cup {o} /\ o \notin Queued
      BY <2>1, <2>2 DEF Queued
    <3>2. queue' = [queue EXCEPT ![On(o)] = Append(@, o)]
      BY <1>6 DEF Enqueue
    <3>3. QED
      BY <1>3, <3>1, <3>2, JoinQueue DEF OperationInv, Books
  <2>4. IntentsExact'
    BY <1>3, <2>1, <2>2, ForgetIntents DEF OperationInv, Books
  <2>5. RecentExact'
    <3>1. {q \in Ops : state'[q] = "terminal"} = {q \in Ops : state[q] = "terminal"}
      BY <2>1, <2>2
    <3>2. QED
      BY <1>6, <3>1 DEF Enqueue, OperationInv, Books, RecentExact, Distinct, Entries
  <2>6. RecordsExact' /\ NoPhantomExecution'
    BY <1>6, <2>1, <2>2 DEF Enqueue, OperationInv, Books, RecordsExact, NoPhantomExecution
  <2>7. NoLostWaiter'
    <3>1. waiting \subseteq Ops /\ waiting' = waiting \cup {o}
      BY <1>3, <1>6 DEF Enqueue, OperationTypes
    <3>2. QED
      BY <2>2, <3>1 DEF OperationInv, Books, NoLostWaiter
  <2>8. QED
    BY <2>3, <2>4, <2>5, <2>6, <2>7 DEF Books
<1>7. ASSUME NEW p, Refuse(o, p)
      PROVE  Books'
  <2>1. UNCHANGED <<state, completion, waiting, ran, recent, queue>> /\ ForgetIntent(o)
    BY <1>7 DEF Refuse, opVars, laneVars
  <2>2. IntentsExact'
    BY <1>3, <2>1, ForgetIntents DEF OperationInv, Books
  <2>3. QueuesExact'
    BY <2>1, SameQueues DEF OperationInv, Books, Queued
  <2>4. RecentExact' /\ RecordsExact' /\ NoLostWaiter' /\ NoPhantomExecution'
    BY <2>1 DEF OperationInv, Books, RecentExact, RecordsExact, NoLostWaiter,
       NoPhantomExecution, Distinct, Entries
  <2>5. QED
    BY <2>2, <2>3, <2>4 DEF Books
<1>8. QED
  BY <1>2, <1>4, <1>5, <1>6, <1>7 DEF Submit

LEMMA CancelQueuedBooks ==
  ASSUME TypeOK, Books, NEW o \in Queued, CancelQueued(o)
  PROVE  Books' /\ Queued' = Queued \ {o}
<1>1. Finish(o, "cancelled") /\ Answer(o) /\ UNCHANGED intentVars
  BY DEF CancelQueued
<1>2. Queued' = Queued \ {o} /\ (QueuesExact' => Books')
  BY <1>1, DropBooks
<1>3. queue' = [queue EXCEPT ![On(o)] = Without(@, o)] /\ o \in Ops
  BY DEF CancelQueued, Queued
<1>4. QueuesExact'
  BY <1>2, <1>3, LeaveQueue DEF TypeOK, Books
<1>5. QED
  BY <1>2, <1>4

LEMMA CancelBooks ==
  ASSUME OperationInv, NEW o \in Ops, NEW client \in Clients, Cancel(o, client)
  PROVE  VictimsQueued' /\ Books'
<1>1. VictimsQueued'
  BY DEF Cancel, Command, Dispatching, OperationInv, VictimsQueued
<1>2. CASE state[o] = "new" /\ RememberIntent(o, client)
  <2>1. UNCHANGED <<state, completion, waiting, ran, recent, queue>>
    BY <1>2 DEF RememberIntent, opVars, laneVars
  <2>2. IntentsExact'
    BY <1>2, RememberIntents DEF OperationInv, TypeOK, Books
  <2>3. QueuesExact'
    BY <2>1, SameQueues DEF OperationInv, Books, Queued
  <2>4. RecentExact' /\ RecordsExact' /\ NoLostWaiter' /\ NoPhantomExecution'
    BY <2>1 DEF OperationInv, Books, RecentExact, RecordsExact, NoLostWaiter,
       NoPhantomExecution, Distinct, Entries
  <2>5. QED
    BY <1>1, <2>2, <2>3, <2>4 DEF Books
<1>3. CASE state[o] = "queued" /\ CancelQueued(o)
  BY <1>1, <1>3, CancelQueuedBooks DEF OperationInv, Queued
<1>4. CASE state[o] = "dispatched" /\ Detach({o}) /\ UNCHANGED groupVars
  BY <1>1, <1>4, QuietBooks DEF OperationInv, Detach, laneVars
<1>5. QED
  BY <1>2, <1>3, <1>4 DEF Cancel

LEMMA ExecutedBooks ==
  ASSUME OperationInv, NEW o \in Ops, NEW outcome \in Outcomes, Executed(o, outcome)
  PROVE  VictimsQueued' /\ Books'
<1>1. /\ victims' = {} /\ state[o] = "dispatched"
      /\ waiting' = waiting \ {o} /\ UNCHANGED <<queue, intentVars>>
  BY DEF Executed, Dispatching, Answer, OperationInv, VictimsQueued
<1>2. VictimsQueued'
  BY <1>1 DEF VictimsQueued
<1>3. outcome \notin {"none", "cancelled", "rejected"}
  BY SchedulerAssumption
<1>4. CASE CompleteTerminal(o, outcome)
  BY <1>1, <1>2, <1>3, <1>4, EndBooks DEF CompleteTerminal, OperationInv
<1>5. CASE CompleteSettled(o)
  BY <1>1, <1>2, <1>5, EndBooks DEF CompleteSettled, OperationInv
<1>6. CASE CompleteAmbiguous(o)
  <2>1. /\ \A q \in Ops : state'[q] = IF q = o THEN "pending" ELSE state[q]
        /\ \A q \in Ops : completion'[q] = IF q = o THEN "detached" ELSE completion[q]
        /\ UNCHANGED <<ran, recent>>
    BY <1>6 DEF CompleteAmbiguous, OperationInv, TypeOK, OperationTypes
  <2>2. QueuesExact'
    BY <1>1, <2>1, SameQueues DEF OperationInv, Books, Queued
  <2>3. IntentsExact'
    BY <1>1, <2>1, SameIntents DEF OperationInv, Books
  <2>4. RecentExact'
    BY <1>1, <2>1 DEF OperationInv, Books, RecentExact, Distinct, Entries
  <2>5. RecordsExact' /\ NoPhantomExecution'
    BY <1>1, <2>1 DEF OperationInv, Books, RecordsExact, NoPhantomExecution
  <2>6. NoLostWaiter'
    BY <1>1, <2>1 DEF OperationInv, TypeOK, OperationTypes, Books, NoLostWaiter
  <2>7. QED
    BY <1>2, <2>2, <2>3, <2>4, <2>5, <2>6 DEF Books
<1>7. QED
  BY <1>4, <1>5, <1>6 DEF Executed

LEMMA SettleBooks ==
  ASSUME OperationInv, NEW o \in Ops, NEW outcome \in Settlements, Settle(o, outcome)
  PROVE  VictimsQueued' /\ Books'
<1>1. VictimsQueued' /\ UNCHANGED <<queue, intentVars>>
  BY DEF Settle, Command, Dispatching, OperationInv, VictimsQueued, laneVars
<1>2. CASE SettleEarly(o, outcome)
  BY <1>1, <1>2, QuietBooks DEF SettleEarly, OperationInv, opVars
<1>3. CASE SettleNow(o, outcome)
  <2>1. waiting' = waiting \ {o}
    BY <1>3 DEF SettleNow, OperationInv, Books, NoLostWaiter
  <2>2. QED
    BY <1>1, <1>3, <2>1, EndBooks DEF SettleNow, OperationInv, Settlements
<1>4. QED
  BY <1>2, <1>3 DEF Settle

LEMMA VictimBooks ==
  ASSUME OperationInv, NEW o \in Ops, CancelVictim(o) \/ RejectVictim(o)
  PROVE  VictimsQueued' /\ Books'
<1>1. /\ o \in victims /\ victims' = victims \ {o} /\ victims \subseteq Queued
      /\ phase' \notin {"cancelling", "rejecting"} => victims' = {}
  BY DEF CancelVictim, RejectVictim, Swept, OperationInv, VictimsQueued
<1>2. Books' /\ Queued' = Queued \ {o}
  <2>1. CASE CancelVictim(o)
    BY <1>1, <2>1, CancelQueuedBooks DEF CancelVictim, OperationInv
  <2>2. CASE RejectVictim(o)
    <3>1. Finish(o, "rejected") /\ Answer(o) /\ UNCHANGED intentVars
      BY <2>2 DEF RejectVictim, RejectBeforeDispatch
    <3>2. Queued' = Queued \ {o} /\ (QueuesExact' => Books')
      BY <1>1, <3>1, DropBooks DEF OperationInv
    <3>3. queue' = [queue EXCEPT ![On(o)] = Without(@, o)]
      BY <2>2 DEF RejectVictim
    <3>4. QueuesExact'
      BY <3>2, <3>3, LeaveQueue DEF OperationInv, TypeOK, Books
    <3>5. QED
      BY <3>2, <3>4
  <2>3. QED
    BY <2>1, <2>2
<1>3. QED
  BY <1>1, <1>2 DEF VictimsQueued

\* A command that ends queued operations picks its victims among the queued ones.
LEMMA SweepVictims ==
  ASSUME NEW which \in {"cancelling", "rejecting"}, NEW ops \in SUBSET Queued,
         Sweep(which, ops), Queued' = Queued
  PROVE  VictimsQueued'
BY DEF Sweep, VictimsQueued

LEMMA GroupCommandBooks ==
  ASSUME OperationInv, NEW g \in GroupIds, GroupCommand(g)
  PROVE  VictimsQueued' /\ Books'
<1>1. OnlyGroups => Books' /\ Queued' = Queued
  BY QuietBooks DEF OnlyGroups, opVars, laneVars, OperationInv
<1>2. phase = "idle" /\ Dispatching => VictimsQueued'
  BY DEF Dispatching, OperationInv, VictimsQueued
<1>3. ASSUME NEW principal, NEW target, NEW revision,
             OfferHandoff(g, principal, target, revision)
      PROVE  VictimsQueued' /\ Books'
  BY <1>1, <1>3, SweepVictims DEF OfferHandoff
<1>4. ASSUME NEW principal, EndGroup(g, principal)
      PROVE  VictimsQueued' /\ Books'
  BY <1>1, <1>4, SweepVictims DEF EndGroup
<1>5. CASE CreateGroup(g)
  BY <1>1, <1>2, <1>5 DEF CreateGroup
<1>6. ASSUME NEW principal, NEW t, AddMember(g, principal, t)
      PROVE  VictimsQueued' /\ Books'
  BY <1>1, <1>2, <1>6 DEF AddMember
<1>7. ASSUME NEW p, NEW principal, Renew(g, p, principal)
      PROVE  VictimsQueued' /\ Books'
  BY <1>1, <1>2, <1>7 DEF Renew
<1>8. ASSUME NEW principal, NEW members, NEW revision,
             ResumeRecovered(g, principal, members, revision)
      PROVE  VictimsQueued' /\ Books'
  BY <1>1, <1>2, <1>8 DEF ResumeRecovered, Command
<1>9. ASSUME NEW principal, NEW target, NEW revision,
             ForceHandoff(g, principal, target, revision)
      PROVE  VictimsQueued' /\ Books'
  BY <1>1, <1>2, <1>9 DEF ForceHandoff, Command
<1>10. ASSUME NEW principal, NEW revision, AcceptHandoff(g, principal, revision)
       PROVE  VictimsQueued' /\ Books'
  BY <1>1, <1>2, <1>10 DEF AcceptHandoff, Command
<1>11. QED
  BY <1>3, <1>4, <1>5, <1>6, <1>7, <1>8, <1>9, <1>10 DEF GroupCommand

\* The commands that touch all groups, the timers, and Query.
LEMMA OtherCommandBooks ==
  ASSUME OperationInv,
         \/ \E principal \in Principals : Disconnect(principal)
         \/ \E b \in Browsers : BrowserLost(b)
         \/ PruneReleased \/ Query \/ Elapse \/ Tick
  PROVE  VictimsQueued' /\ Books'
<1>1. ASSUME NEW principal \in Principals, Disconnect(principal)
      PROVE  VictimsQueued' /\ Books'
  <2>1. Books' /\ Queued' = Queued
    BY <1>1, QuietBooks DEF Disconnect, Detach, laneVars, OperationInv
  <2>2. QED
    BY <1>1, <2>1, SweepVictims DEF Disconnect
<1>2. ASSUME NEW b \in Browsers, BrowserLost(b)
      PROVE  VictimsQueued' /\ Books'
  <2>1. Books' /\ Queued' = Queued
    BY <1>2, QuietBooks DEF BrowserLost, OnlyGroups, opVars, laneVars, OperationInv
  <2>2. QED
    BY <1>2, <2>1, SweepVictims DEF BrowserLost
<1>3. CASE PruneReleased \/ Query
  <2>1. Books' /\ Queued' = Queued
    BY <1>3, QuietBooks DEF PruneReleased, Query, OnlyGroups, opVars, laneVars, OperationInv
  <2>2. QED
    BY <1>3, <2>1 DEF PruneReleased, Query, Command, Dispatching, OperationInv,
       VictimsQueued
<1>4. CASE Elapse
  <2>1. Books' /\ Queued' = Queued
    BY <1>4, QuietBooks DEF Elapse, laneVars, OperationInv
  <2>2. QED
    BY <1>4, <2>1 DEF Elapse, OperationInv, VictimsQueued
<1>5. CASE Tick
  <2>1. /\ \A q \in Ops : \/ state'[q] = state[q]
                          \/ state[q] = "pending" /\ state'[q] = "unknown"
        /\ UNCHANGED <<completion, waiting, ran, recent, queue, intentVars>>
    BY <1>5 DEF Tick, Overdue, laneVars
  <2>2. Queued' = Queued
    BY <2>1 DEF Queued
  <2>3. QueuesExact' /\ IntentsExact'
    BY <2>1, <2>2, SameQueues, SameIntents DEF OperationInv, Books
  <2>4. RecentExact'
    BY <2>1 DEF OperationInv, Books, RecentExact, Distinct, Entries
  <2>5. RecordsExact' /\ NoPhantomExecution'
    BY <2>1 DEF OperationInv, Books, RecordsExact, NoPhantomExecution
  <2>6. NoLostWaiter'
    BY <2>1 DEF OperationInv, TypeOK, OperationTypes, Books, NoLostWaiter
  <2>7. VictimsQueued'
    BY <1>5, <2>2 DEF Tick, Dispatching, OperationInv, VictimsQueued
  <2>8. QED
    BY <2>3, <2>4, <2>5, <2>6, <2>7 DEF Books
<1>6. QED
  BY <1>1, <1>2, <1>3, <1>4, <1>5

LEMMA DequeueBooks ==
  ASSUME OperationInv, phase = "dispatching", NEW lane \in Lanes, queue[lane] # <<>>,
         Dequeue(lane)
  PROVE  VictimsQueued' /\ Books'
<1> DEFINE o == Head(queue[lane])
<1>1. o \in Queued /\ On(o) = lane /\ o \in Ops /\ state[o] = "queued"
  BY HeadQueued DEF OperationInv, TypeOK, Books, Queued
<1>2. /\ queue' = [queue EXCEPT ![lane] = Tail(@)]
      /\ MarkDispatched(o) \/ RejectBeforeDispatch(o)
      /\ UNCHANGED <<phase, victims>>
  BY DEF Dequeue
<1>3. VictimsQueued'
  BY <1>2 DEF OperationInv, VictimsQueued
<1> HIDE DEF o
<1>4. CASE RejectBeforeDispatch(o)
  <2>1. Queued' = Queued \ {o} /\ (QueuesExact' => Books')
    BY <1>1, <1>4, DropBooks DEF RejectBeforeDispatch, OperationInv
  <2>2. QueuesExact'
    BY <1>2, <2>1, TakeHead DEF o, OperationInv, TypeOK, Books
  <2>3. QED
    BY <1>3, <2>1, <2>2
<1>5. CASE MarkDispatched(o)
  <2>1. /\ \A q \in Ops : state'[q] = IF q = o THEN "dispatched" ELSE state[q]
        /\ ran' = ran \cup {o}
        /\ UNCHANGED <<completion, waiting, recent, intentVars>>
    BY <1>5 DEF MarkDispatched, OperationInv, TypeOK, OperationTypes
  <2>2. Queued' = Queued \ {o}
    BY <2>1 DEF Queued
  <2>3. QueuesExact'
    BY <1>2, <2>2, TakeHead DEF o, OperationInv, TypeOK, Books
  <2>4. IntentsExact'
    BY <1>1, <2>1, SameIntents DEF OperationInv, Books
  <2>5. RecentExact'
    <3>1. {q \in Ops : state'[q] = "terminal"} = {q \in Ops : state[q] = "terminal"}
      BY <1>1, <2>1
    <3>2. QED
      BY <2>1, <3>1 DEF OperationInv, Books, RecentExact, Distinct, Entries
  <2>6. RecordsExact' /\ NoPhantomExecution'
    BY <1>1, <2>1 DEF OperationInv, Books, RecordsExact, NoPhantomExecution
  <2>7. NoLostWaiter'
    BY <2>1 DEF OperationInv, TypeOK, OperationTypes, Books, NoLostWaiter
  <2>8. QED
    BY <1>3, <2>3, <2>4, <2>5, <2>6, <2>7 DEF Books
<1>6. QED
  BY <1>2, <1>4, <1>5

LEMMA DispatchBooks ==
  ASSUME OperationInv, Dispatch
  PROVE  VictimsQueued' /\ Books'
<1>1. CASE DispatchDaemonGlobal
  BY <1>1, DequeueBooks DEF DispatchDaemonGlobal, DaemonFirst, Lanes
<1>2. ASSUME NEW t \in Tabs, DispatchTab(t)
      PROVE  VictimsQueued' /\ Books'
  BY <1>2, DequeueBooks DEF DispatchTab, EligibleTab, Looking, Lanes
<1>3. ASSUME NEW b \in Browsers, DispatchBridgeGlobal(b)
      PROVE  VictimsQueued' /\ Books'
  BY <1>3, DequeueBooks DEF DispatchBridgeGlobal, EligibleBrowser, Looking, Lanes
<1>4. CASE DispatchDone
  <2>1. Books' /\ Queued' = Queued
    BY <1>4, QuietBooks DEF DispatchDone, opVars, OperationInv
  <2>2. QED
    BY <1>4, <2>1 DEF DispatchDone, OperationInv, VictimsQueued
<1>5. QED
  BY <1>1, <1>2, <1>3, <1>4 DEF Dispatch
-----------------------------------------------------------------------------
LEMMA OperationInit == Init => OperationInv
<1> SUFFICES ASSUME Init PROVE OperationInv
  OBVIOUS
<1>1. TypeOK
  BY InitType
<1>2. VictimsQueued /\ RecordsExact /\ NoLostWaiter /\ NoPhantomExecution
  BY DEF Init, VictimsQueued, RecordsExact, NoLostWaiter, NoPhantomExecution
<1>3. QueuesExact
  BY EmptyLists DEF Init, QueuesExact, Queued
<1>4. RecentExact /\ IntentsExact
  BY EmptyLists, SchedulerAssumption DEF Init, RecentExact, IntentsExact
<1>5. QED
  BY <1>1, <1>2, <1>3, <1>4 DEF OperationInv, Books

LEMMA OperationStep == OperationInv /\ [Next]_vars => OperationInv'
<1> SUFFICES ASSUME OperationInv, [Next]_vars PROVE OperationInv'
  OBVIOUS
<1>1. TypeOK'
  BY NextType DEF OperationInv
<1>2. CASE UNCHANGED vars
  <2>1. Books' /\ Queued' = Queued
    BY <1>2, QuietBooks DEF vars, opVars, laneVars, OperationInv
  <2>2. QED
    BY <1>1, <1>2, <2>1 DEF vars, OperationInv, VictimsQueued
<1>3. ASSUME NEW o \in Ops, OperationCommand(o) \/ CancelVictim(o) \/ RejectVictim(o)
      PROVE  OperationInv'
  BY <1>1, <1>3, SubmitBooks, CancelBooks, ExecutedBooks, SettleBooks, VictimBooks
     DEF OperationCommand, OperationInv
<1>4. QED
  BY <1>1, <1>2, <1>3, GroupCommandBooks, OtherCommandBooks, DispatchBooks
     DEF Next, OperationInv

LEMMA OperationsInvariant == Spec => []OperationInv
BY OperationInit, OperationStep, PTL DEF Spec

\* An operation is queued exactly when it is in the queue of its own lane, once:
\* admission, cancellation, rejection and dispatch agree about the queues.
THEOREM QueuesCorrect == Spec => []QueuesExact
<1>1. OperationInv => QueuesExact
  BY DEF OperationInv, Books
<1>2. QED
  BY <1>1, OperationsInvariant, PTL

\* The ring of finished operations lists each of them once, within its limit.
THEOREM RecentCorrect == Spec => []RecentExact
<1>1. OperationInv => RecentExact
  BY DEF OperationInv, Books
<1>2. QED
  BY <1>1, OperationsInvariant, PTL

\* A cancellation that overtook its submission is kept, once and within the
\* limit, for operations that are not known yet.
THEOREM IntentsCorrect == Spec => []IntentsExact
<1>1. OperationInv => IntentsExact
  BY DEF OperationInv, Books
<1>2. QED
  BY <1>1, OperationsInvariant, PTL

\* Whoever waits for an operation waits for one that can still answer.
THEOREM WaitersCorrect == Spec => []NoLostWaiter
<1>1. OperationInv => NoLostWaiter
  BY DEF OperationInv, Books
<1>2. QED
  BY <1>1, OperationsInvariant, PTL

\* What is reported as cancelled or rejected never reached the executor.
THEOREM NoPhantoms == Spec => []NoPhantomExecution
<1>1. OperationInv => NoPhantomExecution
  BY DEF OperationInv, Books
<1>2. QED
  BY <1>1, OperationsInvariant, PTL
===============================================================================
