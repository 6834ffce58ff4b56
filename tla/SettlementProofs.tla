--------------------------- MODULE SettlementProofs ---------------------------
(***************************************************************************)
(* A group whose mutation may or may not have happened is frozen until     *)
(* the last such outcome is settled.  The counters come first: that a      *)
(* group is not forgotten under an operation in flight rests on them.      *)
(***************************************************************************)
EXTENDS SchedulerProofs, FiniteSetTheorems

LEMMA CountUp ==
  ASSUME NEW A \in SUBSET Ops, NEW o \in Ops, o \notin A
  PROVE  Cardinality(A \cup {o}) = Cardinality(A) + 1
<1>1. IsFiniteSet(A)
  BY SchedulerAssumption, FS_Subset
<1>2. QED
  BY <1>1, FS_AddElement

LEMMA CountDown ==
  ASSUME NEW A \in SUBSET Ops, NEW o \in A
  PROVE  Cardinality(A \ {o}) = Dec(Cardinality(A))
<1>1. IsFiniteSet(A)
  BY SchedulerAssumption, FS_Subset
<1>2. Cardinality(A) \in Nat
  BY <1>1, FS_CardinalityType
<1>3. Cardinality(A) # 0
  BY <1>1, FS_EmptySet
<1>4. Cardinality(A \ {o}) = Cardinality(A) - 1
  BY <1>1, FS_RemoveElement
<1>5. QED
  BY <1>2, <1>3, <1>4 DEF Dec

\* The three counters, one by one.
ClientSlots ==
  \A c \in Clients :
    queued_by_client[c] = Cardinality({o \in Queued : ClientOf(o) = c})

GroupFlights ==
  \A g \in GroupIds :
    in_flight_by_group[g] = Cardinality({o \in Dispatched : GroupOf(o) = g})

BrowserFlights ==
  \A b \in Browsers :
    bridge_dispatch_in_flight[b] =
      Cardinality({o \in Dispatched : On(o) # Daemon /\ LaneBrowser(On(o)) = b})

LEMMA CountersSplit == CountersExact <=> ClientSlots /\ GroupFlights /\ BrowserFlights
BY DEF CountersExact, ClientSlots, GroupFlights, BrowserFlights

LEMMA SlotTaken ==
  ASSUME CountTypes, ClientSlots, NEW o \in Ops, o \notin Queued, Queued' = Queued \cup {o},
         queued_by_client' = [queued_by_client EXCEPT ![ClientOf(o)] = @ + 1]
  PROVE  ClientSlots'
<1> SUFFICES ASSUME NEW c \in Clients
             PROVE  queued_by_client'[c] = Cardinality({q \in Queued' : ClientOf(q) = c})
  BY DEF ClientSlots
<1> DEFINE A == {q \in Queued : ClientOf(q) = c}
<1>1. A \in SUBSET Ops /\ o \notin A /\ queued_by_client[c] = Cardinality(A)
  BY DEF ClientSlots, Queued
<1>2. CASE c = ClientOf(o)
  <2>1. {q \in Queued' : ClientOf(q) = c} = A \cup {o}
    BY <1>2
  <2>2. queued_by_client'[c] = queued_by_client[c] + 1
    BY <1>2 DEF CountTypes
  <2> HIDE DEF A
  <2>3. QED
    BY <1>1, <2>1, <2>2, CountUp
<1>3. CASE c # ClientOf(o)
  <2>1. {q \in Queued' : ClientOf(q) = c} = A
    BY <1>3
  <2>2. queued_by_client'[c] = queued_by_client[c]
    BY <1>3 DEF CountTypes
  <2>3. QED
    BY <1>1, <2>1, <2>2
<1>4. QED
  BY <1>2, <1>3

LEMMA SlotFreed ==
  ASSUME CountTypes, ClientSlots, NEW o \in Queued, Queued' = Queued \ {o}, FreeSlot(o)
  PROVE  ClientSlots'
<1> SUFFICES ASSUME NEW c \in Clients
             PROVE  queued_by_client'[c] = Cardinality({q \in Queued' : ClientOf(q) = c})
  BY DEF ClientSlots
<1> DEFINE A == {q \in Queued : ClientOf(q) = c}
<1>1. A \in SUBSET Ops /\ queued_by_client[c] = Cardinality(A)
  BY DEF ClientSlots, Queued
<1>2. CASE c = ClientOf(o)
  <2>1. {q \in Queued' : ClientOf(q) = c} = A \ {o} /\ o \in A
    BY <1>2
  <2>2. queued_by_client'[c] = Dec(queued_by_client[c])
    BY <1>2 DEF CountTypes, FreeSlot
  <2> HIDE DEF A
  <2>3. QED
    BY <1>1, <2>1, <2>2, CountDown
<1>3. CASE c # ClientOf(o)
  <2>1. {q \in Queued' : ClientOf(q) = c} = A
    BY <1>3
  <2>2. queued_by_client'[c] = queued_by_client[c]
    BY <1>3 DEF CountTypes, FreeSlot
  <2>3. QED
    BY <1>1, <2>1, <2>2
<1>4. QED
  BY <1>2, <1>3

\* An operation takes off: MarkDispatched raises both counters of flights.
LEMMA FlightStarted ==
  ASSUME CountTypes, GroupFlights, BrowserFlights, NEW o \in Ops, o \notin Dispatched,
         Dispatched' = Dispatched \cup {o}, MarkDispatched(o)
  PROVE  GroupFlights' /\ BrowserFlights'
<1>1. GroupFlights'
  <2> SUFFICES ASSUME NEW g \in GroupIds
               PROVE  in_flight_by_group'[g] =
                        Cardinality({q \in Dispatched' : GroupOf(q) = g})
    BY DEF GroupFlights
  <2> DEFINE A == {q \in Dispatched : GroupOf(q) = g}
  <2>1. A \in SUBSET Ops /\ o \notin A /\ in_flight_by_group[g] = Cardinality(A)
    BY DEF GroupFlights, Dispatched
  <2>2. CASE g = GroupOf(o)
    <3>1. {q \in Dispatched' : GroupOf(q) = g} = A \cup {o}
      BY <2>2
    <3>2. in_flight_by_group'[g] = in_flight_by_group[g] + 1
      BY <2>2, SchedulerAssumption DEF CountTypes, MarkDispatched
    <3> HIDE DEF A
    <3>3. QED
      BY <2>1, <3>1, <3>2, CountUp
  <2>3. CASE g # GroupOf(o)
    <3>1. {q \in Dispatched' : GroupOf(q) = g} = A
      BY <2>3
    <3>2. in_flight_by_group'[g] = in_flight_by_group[g]
      BY <2>3 DEF CountTypes, MarkDispatched
    <3>3. QED
      BY <2>1, <3>1, <3>2
  <2>4. QED
    BY <2>2, <2>3
<1>2. BrowserFlights'
  <2> SUFFICES ASSUME NEW b \in Browsers
               PROVE  bridge_dispatch_in_flight'[b] =
                        Cardinality({q \in Dispatched' :
                                       On(q) # Daemon /\ LaneBrowser(On(q)) = b})
    BY DEF BrowserFlights
  <2> DEFINE A == {q \in Dispatched : On(q) # Daemon /\ LaneBrowser(On(q)) = b}
  <2>1. A \in SUBSET Ops /\ o \notin A /\ bridge_dispatch_in_flight[b] = Cardinality(A)
    BY DEF BrowserFlights, Dispatched
  <2>2. CASE On(o) # Daemon /\ LaneBrowser(On(o)) = b
    <3>1. {q \in Dispatched' : On(q) # Daemon /\ LaneBrowser(On(q)) = b} = A \cup {o}
      BY <2>2
    <3>2. bridge_dispatch_in_flight'[b] = bridge_dispatch_in_flight[b] + 1
      BY <2>2 DEF CountTypes, MarkDispatched
    <3> HIDE DEF A
    <3>3. QED
      BY <2>1, <3>1, <3>2, CountUp
  <2>3. CASE ~ (On(o) # Daemon /\ LaneBrowser(On(o)) = b)
    <3>1. {q \in Dispatched' : On(q) # Daemon /\ LaneBrowser(On(q)) = b} = A
      BY <2>3
    <3>2. bridge_dispatch_in_flight'[b] = bridge_dispatch_in_flight[b]
      BY <2>3 DEF CountTypes, MarkDispatched
    <3>3. QED
      BY <2>1, <3>1, <3>2
  <2>4. QED
    BY <2>2, <2>3
<1>3. QED
  BY <1>1, <1>2

\* It lands: ReleaseExecutorCapacity lowers them.
LEMMA FlightEnded ==
  ASSUME CountTypes, GroupFlights, BrowserFlights, NEW o \in Dispatched,
         Dispatched' = Dispatched \ {o}, ReleaseExecutorCapacity(o)
  PROVE  GroupFlights' /\ BrowserFlights'
<1>1. GroupFlights'
  <2> SUFFICES ASSUME NEW g \in GroupIds
               PROVE  in_flight_by_group'[g] =
                        Cardinality({q \in Dispatched' : GroupOf(q) = g})
    BY DEF GroupFlights
  <2> DEFINE A == {q \in Dispatched : GroupOf(q) = g}
  <2>1. A \in SUBSET Ops /\ in_flight_by_group[g] = Cardinality(A)
    BY DEF GroupFlights, Dispatched
  <2>2. CASE g = GroupOf(o)
    <3>1. {q \in Dispatched' : GroupOf(q) = g} = A \ {o} /\ o \in A
      BY <2>2
    <3>2. in_flight_by_group'[g] = Dec(in_flight_by_group[g])
      BY <2>2, SchedulerAssumption DEF CountTypes, ReleaseExecutorCapacity
    <3> HIDE DEF A
    <3>3. QED
      BY <2>1, <3>1, <3>2, CountDown
  <2>3. CASE g # GroupOf(o)
    <3>1. {q \in Dispatched' : GroupOf(q) = g} = A
      BY <2>3
    <3>2. in_flight_by_group'[g] = in_flight_by_group[g]
      BY <2>3 DEF CountTypes, ReleaseExecutorCapacity
    <3>3. QED
      BY <2>1, <3>1, <3>2
  <2>4. QED
    BY <2>2, <2>3
<1>2. BrowserFlights'
  <2> SUFFICES ASSUME NEW b \in Browsers
               PROVE  bridge_dispatch_in_flight'[b] =
                        Cardinality({q \in Dispatched' :
                                       On(q) # Daemon /\ LaneBrowser(On(q)) = b})
    BY DEF BrowserFlights
  <2> DEFINE A == {q \in Dispatched : On(q) # Daemon /\ LaneBrowser(On(q)) = b}
  <2>1. A \in SUBSET Ops /\ bridge_dispatch_in_flight[b] = Cardinality(A)
    BY DEF BrowserFlights, Dispatched
  <2>2. CASE On(o) # Daemon /\ LaneBrowser(On(o)) = b
    <3>1. {q \in Dispatched' : On(q) # Daemon /\ LaneBrowser(On(q)) = b} = A \ {o}
      BY <2>2
    <3>2. bridge_dispatch_in_flight'[b] = Dec(bridge_dispatch_in_flight[b]) /\ o \in A
      BY <2>2 DEF CountTypes, ReleaseExecutorCapacity
    <3> HIDE DEF A
    <3>3. QED
      BY <2>1, <3>1, <3>2, CountDown
  <2>3. CASE ~ (On(o) # Daemon /\ LaneBrowser(On(o)) = b)
    <3>1. {q \in Dispatched' : On(q) # Daemon /\ LaneBrowser(On(q)) = b} = A
      BY <2>3
    <3>2. bridge_dispatch_in_flight'[b] = bridge_dispatch_in_flight[b]
      BY <2>3 DEF CountTypes, ReleaseExecutorCapacity
    <3>3. QED
      BY <2>1, <3>1, <3>2
  <2>4. QED
    BY <2>2, <2>3
<1>3. QED
  BY <1>1, <1>2
-----------------------------------------------------------------------------
LEMMA SameCounters ==
  ASSUME CountersExact, UNCHANGED countVars, Queued' = Queued, Dispatched' = Dispatched
  PROVE  CountersExact'
BY DEF CountersExact, countVars

LEMMA FinishDispatched ==
  ASSUME OperationTypes, RecentExact, NEW o \in Ops, NEW c, Finish(o, c),
         state[o] # "terminal"
  PROVE  Dispatched' = Dispatched \ {o}
BY FinishEffect DEF Dispatched

\* A group command changes groups, and may start a sweep, but touches no record.
LEMMA GroupCommandQuiet ==
  ASSUME NEW g \in GroupIds, GroupCommand(g)
  PROVE  OnlyGroups
BY DEF GroupCommand, CreateGroup, AddMember, Renew, ResumeRecovered, EndGroup, OfferHandoff,
       ForceHandoff, AcceptHandoff

LEMMA OtherCommandQuiet ==
  ASSUME \/ \E principal \in Principals : Disconnect(principal)
         \/ \E b \in Browsers : BrowserLost(b)
         \/ PruneReleased \/ Query \/ Elapse \/ Tick
  PROVE  UNCHANGED countVars /\ Queued' = Queued /\ Dispatched' = Dispatched
<1>1. CASE Tick
  BY <1>1 DEF Tick, Overdue, Queued, Dispatched
<1>2. CASE Elapse
  BY <1>2 DEF Elapse, Queued, Dispatched
<1>3. CASE PruneReleased \/ Query
  BY <1>3 DEF PruneReleased, Query, OnlyGroups, opVars, Queued, Dispatched
<1>4. CASE \E principal \in Principals : Disconnect(principal)
  BY <1>4 DEF Disconnect, Detach, Queued, Dispatched
<1>5. CASE \E b \in Browsers : BrowserLost(b)
  BY <1>5 DEF BrowserLost, OnlyGroups, opVars, Queued, Dispatched
<1>6. QED
  BY <1>1, <1>2, <1>3, <1>4, <1>5

\* An operation that is queued ends: its slot is free, no flight is touched.
LEMMA DropCounters ==
  ASSUME OperationInv, CountersExact, NEW o \in Queued, NEW c, Finish(o, c), FreeSlot(o),
         UNCHANGED <<bridge_dispatch_in_flight, in_flight_by_group>>
  PROVE  CountersExact' /\ Dispatched' = Dispatched
<1>1. OperationTypes /\ RecentExact /\ CountTypes /\ o \in Ops /\ state[o] = "queued"
  BY DEF OperationInv, TypeOK, Books, Queued
<1>2. Queued' = Queued \ {o} /\ Dispatched' = Dispatched
  BY <1>1, FinishQueued, FinishDispatched DEF Dispatched
<1>3. ClientSlots'
  BY <1>1, <1>2, CountersSplit, SlotFreed
<1>4. GroupFlights' /\ BrowserFlights'
  BY <1>2, CountersSplit DEF GroupFlights, BrowserFlights
<1>5. QED
  BY <1>2, <1>3, <1>4 DEF CountersExact, ClientSlots, GroupFlights, BrowserFlights

LEMMA SubmitCounters ==
  ASSUME OperationInv, CountersExact, NEW o \in Ops, Submit(o)
  PROVE  CountersExact' /\ Dispatched' = Dispatched
<1>1. OperationTypes /\ RecentExact /\ CountTypes
  BY DEF OperationInv, TypeOK, Books
<1>2. CASE Attach(o)
  BY <1>2, SameCounters DEF Attach, Queued, Dispatched
<1>3. CASE AdmitCancelled(o)
  <2>1. state[o] = "new" /\ Finish(o, "cancelled") /\ UNCHANGED countVars
    BY <1>3 DEF AdmitCancelled
  <2>2. Queued' = Queued /\ Dispatched' = Dispatched
    BY <1>1, <2>1, FinishQueued, FinishDispatched DEF Queued, Dispatched
  <2>3. QED
    BY <2>1, <2>2, SameCounters
<1>4. ASSUME NEW p, Enqueue(o, p)
      PROVE  CountersExact' /\ Dispatched' = Dispatched
  <2>1. state[o] = "new" /\ \A q \in Ops : state'[q] = IF q = o THEN "queued" ELSE state[q]
    BY <1>1, <1>4 DEF Enqueue, Fresh, OperationTypes
  <2>2. Queued' = Queued \cup {o} /\ o \notin Queued /\ Dispatched' = Dispatched
    BY <2>1 DEF Queued, Dispatched
  <2>3. ClientSlots'
    BY <1>1, <1>4, <2>2, CountersSplit, SlotTaken DEF Enqueue
  <2>4. GroupFlights' /\ BrowserFlights'
    BY <1>4, <2>2, CountersSplit DEF Enqueue, GroupFlights, BrowserFlights
  <2>5. QED
    BY <2>2, <2>3, <2>4 DEF CountersExact, ClientSlots, GroupFlights, BrowserFlights
<1>5. ASSUME NEW p, Refuse(o, p)
      PROVE  CountersExact' /\ Dispatched' = Dispatched
  BY <1>5, SameCounters DEF Refuse, opVars, Queued, Dispatched
<1>6. QED
  BY <1>2, <1>3, <1>4, <1>5 DEF Submit

LEMMA CancelCounters ==
  ASSUME OperationInv, CountersExact, NEW o \in Ops, NEW client, Cancel(o, client)
  PROVE  CountersExact' /\ Dispatched' = Dispatched
<1>1. CASE RememberIntent(o, client)
  BY <1>1, SameCounters DEF RememberIntent, opVars, Queued, Dispatched
<1>2. CASE state[o] = "queued" /\ CancelQueued(o)
  BY <1>2, DropCounters DEF CancelQueued, Queued
<1>3. CASE Detach({o})
  BY <1>3, SameCounters DEF Detach, Queued, Dispatched
<1>4. QED
  BY <1>1, <1>2, <1>3 DEF Cancel

LEMMA ExecutedCounters ==
  ASSUME OperationInv, CountersExact, NEW o \in Ops, NEW outcome, Executed(o, outcome)
  PROVE  CountersExact' /\ o \in Dispatched /\ Dispatched' = Dispatched \ {o}
<1>1. OperationTypes /\ RecentExact /\ CountTypes
  BY DEF OperationInv, TypeOK, Books
<1>2. o \in Dispatched /\ state[o] = "dispatched" /\ ReleaseExecutorCapacity(o)
  BY DEF Executed, Dispatched
<1>3. Dispatched' = Dispatched \ {o} /\ Queued' = Queued
  <2>1. ASSUME NEW c, Finish(o, c)
        PROVE  Dispatched' = Dispatched \ {o} /\ Queued' = Queued
    BY <1>1, <1>2, <2>1, FinishQueued, FinishDispatched DEF Queued
  <2>2. CASE CompleteAmbiguous(o)
    BY <1>1, <1>2, <2>2 DEF CompleteAmbiguous, OperationTypes, Queued, Dispatched
  <2>3. QED
    BY <2>1, <2>2 DEF Executed, CompleteTerminal, CompleteSettled
<1>4. ClientSlots'
  BY <1>3, CountersSplit DEF Executed, ClientSlots
<1>5. GroupFlights' /\ BrowserFlights'
  BY <1>1, <1>2, <1>3, CountersSplit, FlightEnded
<1>6. QED
  BY <1>2, <1>3, <1>4, <1>5 DEF CountersExact, ClientSlots, GroupFlights, BrowserFlights

LEMMA SettleCounters ==
  ASSUME OperationInv, CountersExact, NEW o \in Ops, NEW outcome, Settle(o, outcome)
  PROVE  CountersExact' /\ Dispatched' = Dispatched
<1>1. OperationTypes /\ RecentExact
  BY DEF OperationInv, TypeOK, Books
<1>2. CASE SettleEarly(o, outcome)
  BY <1>2, SameCounters DEF Settle, SettleEarly, opVars, Queued, Dispatched
<1>3. CASE SettleNow(o, outcome)
  <2>1. state[o] \in {"pending", "unknown"} /\ Finish(o, outcome)
    BY <1>3 DEF SettleNow
  <2>2. Queued' = Queued /\ Dispatched' = Dispatched
    BY <1>1, <2>1, FinishQueued, FinishDispatched DEF Queued, Dispatched
  <2>3. QED
    BY <2>2, SameCounters DEF Settle
<1>4. QED
  BY <1>2, <1>3 DEF Settle

LEMMA VictimCounters ==
  ASSUME OperationInv, CountersExact, NEW o \in Ops, CancelVictim(o) \/ RejectVictim(o)
  PROVE  CountersExact' /\ Dispatched' = Dispatched
<1>1. o \in Queued
  BY DEF CancelVictim, RejectVictim, Swept, OperationInv, VictimsQueued
<1>2. QED
  BY <1>1, DropCounters
     DEF CancelVictim, CancelQueued, RejectVictim, RejectBeforeDispatch

LEMMA DequeueCounters ==
  ASSUME OperationInv, CountersExact, NEW lane \in Lanes, queue[lane] # <<>>, Dequeue(lane)
  PROVE  /\ CountersExact'
         /\ Head(queue[lane]) \in Queued /\ On(Head(queue[lane])) = lane
         /\ Dispatched' = IF MayDispatch(Head(queue[lane]))
                          THEN Dispatched \cup {Head(queue[lane])} ELSE Dispatched
<1> DEFINE o == Head(queue[lane])
<1>1. o \in Queued /\ On(o) = lane /\ o \in Ops /\ state[o] = "queued"
  BY HeadQueued DEF OperationInv, TypeOK, Books, Queued
<1>2. IF MayDispatch(o) THEN MarkDispatched(o) ELSE RejectBeforeDispatch(o)
  BY DEF Dequeue
<1> HIDE DEF o
<1>3. CASE ~ MayDispatch(o)
  BY <1>1, <1>2, <1>3, DropCounters DEF RejectBeforeDispatch, o
<1>4. CASE MayDispatch(o)
  <2>1. MarkDispatched(o)
    BY <1>2, <1>4
  <2>2. OperationTypes /\ CountTypes
    BY DEF OperationInv, TypeOK
  <2>3. \A q \in Ops : state'[q] = IF q = o THEN "dispatched" ELSE state[q]
    BY <2>1, <2>2 DEF MarkDispatched, OperationTypes
  <2>4. Queued' = Queued \ {o} /\ Dispatched' = Dispatched \cup {o} /\ o \notin Dispatched
    BY <1>1, <2>3 DEF Queued, Dispatched
  <2>5. ClientSlots'
    BY <1>1, <2>1, <2>2, <2>4, CountersSplit, SlotFreed DEF MarkDispatched
  <2>6. GroupFlights' /\ BrowserFlights'
    BY <1>1, <2>1, <2>2, <2>4, CountersSplit, FlightStarted
  <2>7. QED
    BY <1>1, <1>4, <2>4, <2>5, <2>6
       DEF CountersExact, ClientSlots, GroupFlights, BrowserFlights, o
<1>5. QED
  BY <1>3, <1>4

LEMMA DispatchCounters ==
  ASSUME OperationInv, CountersExact, Dispatch
  PROVE  CountersExact'
<1>1. CASE DispatchDaemonGlobal
  BY <1>1, DequeueCounters DEF DispatchDaemonGlobal, DaemonFirst, Lanes
<1>2. ASSUME NEW t \in Tabs, DispatchTab(t)
      PROVE  CountersExact'
  BY <1>2, DequeueCounters DEF DispatchTab, EligibleTab, Lanes
<1>3. ASSUME NEW b \in Browsers, DispatchBridgeGlobal(b)
      PROVE  CountersExact'
  BY <1>3, DequeueCounters DEF DispatchBridgeGlobal, EligibleBrowser, Lanes
<1>4. CASE DispatchDone
  BY <1>4, SameCounters DEF DispatchDone, opVars, Queued, Dispatched
<1>5. QED
  BY <1>1, <1>2, <1>3, <1>4 DEF Dispatch

LEMMA CountersInit == Init => CountersExact
<1> SUFFICES ASSUME Init PROVE CountersExact
  OBVIOUS
<1>1. Queued = {} /\ Dispatched = {}
  BY DEF Init, Queued, Dispatched
<1>2. QED
  BY <1>1, FS_EmptySet DEF Init, CountersExact

LEMMA CountersStep == OperationInv /\ CountersExact /\ [Next]_vars => CountersExact'
<1> SUFFICES ASSUME OperationInv, CountersExact, [Next]_vars PROVE CountersExact'
  OBVIOUS
<1>1. CASE UNCHANGED vars
  BY <1>1, SameCounters DEF vars, opVars, Queued, Dispatched
<1>2. ASSUME NEW o \in Ops, OperationCommand(o) \/ CancelVictim(o) \/ RejectVictim(o)
      PROVE  CountersExact'
  BY <1>2, SubmitCounters, CancelCounters, ExecutedCounters, SettleCounters, VictimCounters
     DEF OperationCommand
<1>3. ASSUME NEW g \in GroupIds, GroupCommand(g)
      PROVE  CountersExact'
  BY <1>3, GroupCommandQuiet, SameCounters DEF OnlyGroups, opVars, Queued, Dispatched
<1>4. CASE \/ \E principal \in Principals : Disconnect(principal)
           \/ \E b \in Browsers : BrowserLost(b)
           \/ PruneReleased \/ Query \/ Elapse \/ Tick
  BY <1>4, OtherCommandQuiet, SameCounters
<1>5. QED
  BY <1>1, <1>2, <1>3, <1>4, DispatchCounters DEF Next

\* The counters of the limits say what the records say, so that none of the
\* saturating subtractions hides a slot lost or given back twice.
THEOREM CountersCorrect == Spec => []CountersExact
<1>1. Init => OperationInv /\ CountersExact
  BY OperationInit, CountersInit
<1>2. (OperationInv /\ CountersExact) /\ [Next]_vars => (OperationInv /\ CountersExact)'
  BY OperationStep, CountersStep
<1>3. QED
  BY <1>1, <1>2, PTL DEF Spec
-----------------------------------------------------------------------------
(* What the operators of Groups do to the settlements of a group and to the *)
(* authority over it.                                                       *)

\* The settlements of a group agree with its admission.
FrozenGroup(s) ==
  /\ s.unknown \subseteq s.pending
  /\ HasUnresolved(s) =>
       /\ s.present
       /\ s.admission \in {"SettlementPending", "RecoveryRequired", "ExpiryPending"}
  /\ HasUnresolved(s) <=> s.deferred # "None"

\* A step that leaves the settlements alone and, while there are some, the owner
\* too; and that changes the owner only with the fence.
Steady(s, t) ==
  /\ t.pending = s.pending /\ t.unknown = s.unknown
  /\ s.present => t.present
  /\ t.lease_id = s.lease_id /\ t.fence \in {s.fence, s.fence + 1}
  /\ t.principal # s.principal => t.fence = s.fence + 1
  /\ HasUnresolved(s) =>
       /\ t.principal = s.principal
       /\ t.lease_state = "Released" => s.lease_state = "Released"

LEMMA UnexpiredSteady ==
  ASSUME NEW s \in GroupState, FrozenGroup(s)
  PROVE  Steady(s, Unexpired(s)) /\ FrozenGroup(Unexpired(s))
BY Zenon DEF Unexpired, LeaseIn, GroupState, Steady, FrozenGroup, HasUnresolved

LEMMA OlderSteady ==
  ASSUME NEW s \in GroupState, FrozenGroup(s)
  PROVE  Steady(s, Older(s)) /\ FrozenGroup(Older(s))
BY Zenon DEF Older, GroupState, Steady, FrozenGroup, HasUnresolved

LEMMA DisconnectedSteady ==
  ASSUME NEW s \in GroupState, FrozenGroup(s), NEW p
  PROVE  Steady(s, MarkDisconnected(s, p)) /\ FrozenGroup(MarkDisconnected(s, p))
BY Zenon DEF MarkDisconnected, Orphaned, GroupState, Steady, FrozenGroup, HasUnresolved

LEMMA WithMemberSteady ==
  ASSUME NEW s \in GroupState, FrozenGroup(s), NEW t
  PROVE  Steady(s, WithMember(s, t)) /\ FrozenGroup(WithMember(s, t))
BY Zenon DEF WithMember, GroupState, Steady, FrozenGroup, HasUnresolved

LEMMA WithoutTargetsSteady ==
  ASSUME NEW s \in GroupState, FrozenGroup(s), NEW b
  PROVE  LET t == WithoutBrowserTargets(s, b) IN
         /\ Steady(s, t) /\ FrozenGroup(t)
         /\ t.present = s.present /\ t.fence = s.fence
         /\ t.principal = s.principal /\ t.lease_state = s.lease_state
BY Zenon DEF WithoutBrowserTargets, GroupState, Steady, FrozenGroup, HasUnresolved

LEMMA BrowserLostSteady ==
  ASSUME NEW s \in GroupState, FrozenGroup(s), NEW b
  PROVE  Steady(s, AfterBrowserLost(s, b)) /\ FrozenGroup(AfterBrowserLost(s, b))
BY Zenon DEF AfterBrowserLost, LeaseIn, GroupState, Steady, FrozenGroup, HasUnresolved

LEMMA OfferedSteady ==
  ASSUME NEW s \in GroupState, FrozenGroup(s), ~ HasUnresolved(s), NEW p, NEW r
  PROVE  Steady(s, Offered(s, p, r)) /\ FrozenGroup(Offered(s, p, r))
BY Zenon DEF Offered, GroupState, Steady, FrozenGroup, HasUnresolved

LEMMA MovedSteady ==
  ASSUME NEW s \in GroupState, FrozenGroup(s), ~ HasUnresolved(s), NEW p
  PROVE  Steady(s, Moved(s, p)) /\ FrozenGroup(Moved(s, p))
BY Zenon DEF Moved, Unexpired, LeaseIn, GroupState, Steady, FrozenGroup, HasUnresolved

LEMMA ReleasedSteady ==
  ASSUME NEW s \in GroupState, FrozenGroup(s), ~ HasUnresolved(s)
  PROVE  Steady(s, ReleaseExpired(s)) /\ FrozenGroup(ReleaseExpired(s))
BY Zenon DEF ReleaseExpired, LeaseIn, GroupState, Steady, FrozenGroup, HasUnresolved

LEMMA FinishedSteady ==
  ASSUME NEW s \in GroupState, FrozenGroup(s)
  PROVE  Steady(s, FinishExecution(s)) /\ FrozenGroup(FinishExecution(s))
<1>1. CASE ~ HasUnresolved(s)
  BY <1>1, ReleasedSteady, Zenon DEF FinishExecution, Steady
<1>2. CASE HasUnresolved(s)
  BY <1>2, Zenon DEF FinishExecution, Steady
<1>3. QED
  BY <1>1, <1>2

LEMMA EndedSteady ==
  ASSUME NEW s \in GroupState, FrozenGroup(s), s.present, NEW n
  PROVE  Steady(s, Ended(s, n)) /\ FrozenGroup(Ended(s, n))
BY Zenon DEF Ended, ReleaseExpired, LeaseIn, GroupState, Steady, FrozenGroup, HasUnresolved

LEMMA ExpireSteady ==
  ASSUME NEW s \in GroupState, FrozenGroup(s), NEW n
  PROVE  Steady(s, Expire(s, n)) /\ FrozenGroup(Expire(s, n))
<1>1. CASE HasUnresolved(s)
  BY <1>1, Zenon DEF Expire, LeaseIn, GroupState, Steady, FrozenGroup, HasUnresolved
<1>2. CASE ~ HasUnresolved(s)
  BY <1>2, ReleasedSteady, Zenon
     DEF Expire, LeaseIn, GroupState, Steady, FrozenGroup, HasUnresolved
<1>3. QED
  BY <1>1, <1>2

LEMMA MarkUnknownEffect ==
  ASSUME NEW s \in GroupState, FrozenGroup(s), NEW ops
  PROVE  /\ FrozenGroup(MarkUnknown(s, ops))
         /\ MarkUnknown(s, ops).pending = s.pending
         /\ MarkUnknown(s, ops).unknown = s.unknown \cup (ops \cap s.pending)
         /\ MarkUnknown(s, ops).present = s.present
         /\ MarkUnknown(s, ops).lease_id = s.lease_id
         /\ MarkUnknown(s, ops).fence = s.fence
         /\ MarkUnknown(s, ops).principal = s.principal
         /\ MarkUnknown(s, ops).lease_state = s.lease_state
BY Zenon DEF MarkUnknown, GroupState, FrozenGroup, HasUnresolved

LEMMA BeginEffect ==
  ASSUME NEW s \in GroupState, FrozenGroup(s), s.present, NEW o \in Ops
  PROVE  /\ FrozenGroup(BeginSettlement(s, o))
         /\ BeginSettlement(s, o).pending = s.pending \cup {o}
         /\ BeginSettlement(s, o).unknown = s.unknown
         /\ BeginSettlement(s, o).present
         /\ BeginSettlement(s, o).lease_id = s.lease_id
         /\ BeginSettlement(s, o).fence = s.fence
         /\ BeginSettlement(s, o).principal = s.principal
         /\ BeginSettlement(s, o).lease_state = s.lease_state
BY Zenon DEF BeginSettlement, GroupState, Admissions, FrozenGroup, HasUnresolved

\* The settlement of o ends: the owner stays, the fence moves at most by one, and
\* while another settlement is outstanding the lease is not touched.
SettledTo(s, o, t) ==
  /\ FrozenGroup(t)
  /\ t.pending = s.pending \ {o} /\ t.unknown = s.unknown \ {o}
  /\ t.present = s.present
  /\ t.lease_id = s.lease_id /\ t.fence \in {s.fence, s.fence + 1}
  /\ t.principal = s.principal
  /\ HasUnresolved(t) => t.lease_state = s.lease_state

LEMMA FinishSettlementEffect ==
  ASSUME NEW s \in GroupState, FrozenGroup(s), NEW o \in Ops
  PROVE  SettledTo(s, o, FinishSettlement(s, o))
<1> DEFINE r == [s EXCEPT !.pending = @ \ {o}, !.unknown = @ \ {o}]
           t == FinishSettlement(s, o)
<1>1. /\ r.pending = s.pending \ {o} /\ r.unknown = s.unknown \ {o}
      /\ r.present = s.present /\ r.lease_id = s.lease_id /\ r.fence = s.fence
      /\ r.principal = s.principal /\ r.lease_state = s.lease_state
      /\ r.deferred = s.deferred /\ r.admission = s.admission
      /\ r \in GroupState
  BY Zenon DEF GroupState
<1>2. CASE ~ HasUnresolved(r)
  <2> DEFINE open == [r EXCEPT !.deferred = "None"]
  <2> HIDE DEF r
  <2>1. t = Unfrozen(r)
    BY <1>2, Zenon DEF FinishSettlement, r
  <2>2. /\ open.pending = r.pending /\ open.unknown = r.unknown
        /\ open.present = r.present /\ open.lease_id = r.lease_id /\ open.fence = r.fence
        /\ open.principal = r.principal /\ open.deferred = "None"
        /\ open \in GroupState
    BY <1>1, Zenon DEF GroupState
  <2>3. t \in {open, ReleaseExpired(open), [open EXCEPT !.admission = "HandoffPending"],
               [open EXCEPT !.admission = "Open"]}
    BY <2>1 DEF Unfrozen
  <2> HIDE DEF open
  <2>4. ~ HasUnresolved(open) /\ open.unknown = {} /\ FrozenGroup(open)
    BY <1>1, <1>2, <2>2 DEF HasUnresolved, FrozenGroup
  <2>5. /\ FrozenGroup(t)
        /\ t.pending = open.pending /\ t.unknown = open.unknown
        /\ t.present = open.present /\ t.lease_id = open.lease_id
        /\ t.fence \in {open.fence, open.fence + 1} /\ t.principal = open.principal
    <3> HIDE DEF t
    <3>1. CASE t = open
      BY <2>4, <3>1
    <3>2. CASE t = ReleaseExpired(open)
      BY <2>2, <2>4, <3>2, Zenon
         DEF ReleaseExpired, LeaseIn, GroupState, FrozenGroup, HasUnresolved
    <3>3. CASE t = [open EXCEPT !.admission = "HandoffPending"]
      BY <2>2, <2>4, <3>3, Zenon DEF GroupState, FrozenGroup, HasUnresolved
    <3>4. CASE t = [open EXCEPT !.admission = "Open"]
      BY <2>2, <2>4, <3>4, Zenon DEF GroupState, FrozenGroup, HasUnresolved
    <3>5. QED
      BY <2>3, <3>1, <3>2, <3>3, <3>4
  <2> HIDE DEF t
  <2>6. ~ HasUnresolved(t)
    BY <2>4, <2>5 DEF HasUnresolved
  <2>7. QED
    BY <1>1, <2>2, <2>5, <2>6 DEF t, SettledTo
<1>3. CASE HasUnresolved(r)
  <2>1. s.present /\ HasUnresolved(s)
    BY <1>1, <1>3 DEF FrozenGroup, HasUnresolved
  <2> HIDE DEF r
  <2>2. t = [r EXCEPT !.admission = IF r.unknown # {} THEN "RecoveryRequired"
                                    ELSE "SettlementPending"]
    BY <1>3, <2>1, Zenon DEF FinishSettlement, r
  <2> HIDE DEF t
  <2>3. /\ t.pending = r.pending /\ t.unknown = r.unknown /\ t.present = r.present
        /\ t.lease_id = r.lease_id /\ t.fence = r.fence /\ t.principal = r.principal
        /\ t.lease_state = r.lease_state /\ t.deferred = r.deferred
        /\ t.admission \in {"RecoveryRequired", "SettlementPending"}
    BY <1>1, <2>2, Zenon DEF GroupState
  <2>4. FrozenGroup(t)
    BY <1>1, <1>3, <2>1, <2>3 DEF FrozenGroup, HasUnresolved
  <2>5. QED
    BY <1>1, <2>3, <2>4 DEF t, SettledTo
<1>4. QED
  BY <1>2, <1>3

LEMMA SettledEffect ==
  ASSUME NEW s \in GroupState, FrozenGroup(s), NEW o \in Ops, NEW outcome
  PROVE  SettledTo(s, o, Settled(o, s, outcome))
<1> DEFINE r == IF outcome = "lost" THEN WithoutBrowserTargets(s, LaneBrowser(On(o))) ELSE s
<1>1. /\ FrozenGroup(r) /\ r \in GroupState
      /\ r.pending = s.pending /\ r.unknown = s.unknown /\ r.present = s.present
      /\ r.lease_id = s.lease_id /\ r.fence = s.fence /\ r.principal = s.principal
      /\ r.lease_state = s.lease_state
  BY WithoutTargetsSteady, BrowserLossType DEF Steady
<1>2. Settled(o, s, outcome) = FinishSettlement(r, o)
  BY DEF Settled
<1> HIDE DEF r
<1>3. QED
  BY <1>1, <1>2, FinishSettlementEffect DEF SettledTo

LEMMA CreatedEffect ==
  ASSUME NEW s \in GroupState, FrozenGroup(s), Creatable(s), NEW b, NEW p, NEW l
  PROVE  LET t == Created(s, b, p, l) IN
         /\ FrozenGroup(t) /\ t.pending = s.pending /\ t.unknown = s.unknown
         /\ t.present /\ t.lease_id = l /\ ~ HasUnresolved(s)
<1>1. ~ HasUnresolved(s)
  BY DEF Creatable, FrozenGroup
<1>2. QED
  BY <1>1, Zenon DEF Created, GroupState, FrozenGroup, HasUnresolved

LEMMA ResumedEffect ==
  ASSUME NEW s \in GroupState, FrozenGroup(s), s.present, s.admission = "Suspended", NEW l
  PROVE  LET t == Resumed(s, l) IN
         /\ FrozenGroup(t) /\ t.pending = s.pending /\ t.unknown = s.unknown
         /\ t.present /\ t.lease_id = l /\ ~ HasUnresolved(s)
<1>1. ~ HasUnresolved(s)
  BY DEF FrozenGroup
<1>2. QED
  BY <1>1, Zenon DEF Resumed, Unexpired, LeaseIn, GroupState, FrozenGroup, HasUnresolved

LEMMA PrunedEffect ==
  ASSUME NEW s \in GroupState, FrozenGroup(s), NEW n, Prunable(s, n)
  PROVE  LET t == Pruned(s) IN
         /\ FrozenGroup(t) /\ t.pending = s.pending /\ t.unknown = s.unknown
         /\ ~ t.present /\ t.lease_id = s.lease_id /\ ~ HasUnresolved(s)
<1>1. s.pending = {} /\ s.unknown = {} /\ ~ HasUnresolved(s)
  BY DEF Prunable, HasUnresolved, FrozenGroup
<1>2. QED
  BY <1>1, Zenon DEF Pruned, GroupState, FrozenGroup, HasUnresolved

LEMMA SteadySame ==
  ASSUME NEW s, FrozenGroup(s)
  PROVE  Steady(s, s)
BY DEF Steady
-----------------------------------------------------------------------------
(* The inductive invariant, and what a step keeps.                          *)

GroupsFrozen == \A g \in GroupIds : FrozenGroup(groups[g])

\* A group with an operation in flight is still there: Dispatch checks it, and only
\* a group without operations in flight is pruned.
PresentInFlight ==
  \A o \in Dispatched : GroupOf(o) \in GroupIds => groups[GroupOf(o)].present

LeasesIssued == \A g \in GroupIds : groups[g].lease_id <= next_lease

AuthorityInv ==
  /\ OperationInv
  /\ CountersExact
  /\ GroupsFrozen
  /\ SettlementsExact
  /\ PresentInFlight
  /\ LeasesIssued

\* The bodies of FrozenAuthority and ProofsGoStale.
AuthorityStep ==
  \A g \in GroupIds :
    HasUnresolved(groups[g]) /\ HasUnresolved(groups'[g]) =>
      /\ groups'[g].principal = groups[g].principal
      /\ groups'[g].lease_id = groups[g].lease_id
      /\ groups'[g].lease_state = "Released" => groups[g].lease_state = "Released"

StaleStep ==
  \A g \in GroupIds :
    LET s == groups[g]  t == groups'[g] IN
    s.present /\ t.present =>
      /\ t.lease_id > s.lease_id \/ (t.lease_id = s.lease_id /\ t.fence >= s.fence)
      /\ t.principal # s.principal => Proof(t) # Proof(s)

StepKeeps ==
  /\ GroupsFrozen' /\ SettlementsExact' /\ PresentInFlight' /\ LeasesIssued'
  /\ AuthorityStep /\ StaleStep

\* The states of a group between which a step may move it when it settles something
\* or nothing.
Settling(s, t) ==
  /\ FrozenGroup(t)
  /\ s.present => t.present
  /\ t.lease_id = s.lease_id /\ t.fence \in {s.fence, s.fence + 1}
  /\ t.principal # s.principal => t.fence = s.fence + 1
  /\ HasUnresolved(s) /\ HasUnresolved(t) =>
       /\ t.principal = s.principal
       /\ t.lease_state = "Released" => s.lease_state = "Released"

LEMMA GroupFields ==
  ASSUME TypeOK, NEW g \in GroupIds
  PROVE  /\ groups[g] \in GroupState
         /\ groups[g].lease_id \in Nat /\ groups[g].fence \in Nat /\ next_lease \in Nat
BY DEF TypeOK, GroupTypes, GroupState

\* A step that moves every group so, and whose records agree with the groups.
LEMMA SettlingStep ==
  ASSUME AuthorityInv, \A g \in GroupIds : Settling(groups[g], groups'[g]),
         SettlementsExact', next_lease' = next_lease,
         \A o \in Dispatched' : GroupOf(o) \in GroupIds => groups[GroupOf(o)].present
  PROVE  StepKeeps
<1>1. GroupsFrozen'
  BY DEF Settling, GroupsFrozen
<1>2. PresentInFlight'
  BY RequestType DEF Settling, PresentInFlight, Dispatched
<1>3. LeasesIssued'
  BY DEF Settling, LeasesIssued, AuthorityInv
<1>4. AuthorityStep
  BY DEF Settling, AuthorityStep
<1>5. StaleStep
  <2> SUFFICES ASSUME NEW g \in GroupIds
               PROVE  LET s == groups[g]  t == groups'[g] IN
                      s.present /\ t.present =>
                        /\ \/ t.lease_id > s.lease_id
                           \/ t.lease_id = s.lease_id /\ t.fence >= s.fence
                        /\ t.principal # s.principal => Proof(t) # Proof(s)
    BY DEF StaleStep
  <2>1. groups[g].fence \in Nat
    BY GroupFields DEF AuthorityInv, OperationInv
  <2>2. groups'[g].fence >= groups[g].fence /\ groups'[g].lease_id = groups[g].lease_id
    BY <2>1 DEF Settling
  <2>3. groups'[g].principal # groups[g].principal => groups'[g].fence # groups[g].fence
    BY <2>1 DEF Settling
  <2>4. groups'[g].fence # groups[g].fence => Proof(groups'[g]) # Proof(groups[g])
    BY DEF Proof
  <2>5. QED
    BY <2>2, <2>3, <2>4
<1>6. QED
  BY <1>1, <1>2, <1>3, <1>4, <1>5 DEF StepKeeps

\* A step that settles nothing.
LEMMA SteadyStep ==
  ASSUME AuthorityInv,
         \A g \in GroupIds : Steady(groups[g], groups'[g]) /\ FrozenGroup(groups'[g]),
         \A o \in Ops : /\ state'[o] = "pending" <=> state[o] = "pending"
                        /\ state'[o] = "unknown" <=> state[o] = "unknown",
         next_lease' = next_lease,
         \A o \in Dispatched' : GroupOf(o) \in GroupIds => groups[GroupOf(o)].present
  PROVE  StepKeeps
<1>1. \A g \in GroupIds : Settling(groups[g], groups'[g])
  BY DEF Steady, Settling
<1>2. SettlementsExact'
  BY DEF Steady, AuthorityInv, SettlementsExact, Unsettled
<1>3. QED
  BY <1>1, <1>2, SettlingStep

\* A step that leaves the groups alone and settles nothing.
LEMMA IdleStep ==
  ASSUME AuthorityInv, UNCHANGED groupVars,
         \A o \in Ops : /\ state'[o] = "pending" <=> state[o] = "pending"
                        /\ state'[o] = "unknown" <=> state[o] = "unknown",
         Dispatched' \subseteq Dispatched
  PROVE  StepKeeps
<1>1. \A g \in GroupIds : Steady(groups[g], groups'[g]) /\ FrozenGroup(groups'[g])
  BY SteadySame DEF AuthorityInv, GroupsFrozen, groupVars
<1>2. QED
  BY <1>1, SteadyStep DEF groupVars, AuthorityInv, PresentInFlight

\* A step that changes one group, and no record.
LEMMA OneGroupStep ==
  ASSUME AuthorityInv, NEW g \in GroupIds, NEW t, Steady(groups[g], t), FrozenGroup(t),
         groups' = [groups EXCEPT ![g] = t], next_lease' = next_lease,
         \A o \in Ops : /\ state'[o] = "pending" <=> state[o] = "pending"
                        /\ state'[o] = "unknown" <=> state[o] = "unknown",
         \A o \in Dispatched' : GroupOf(o) \in GroupIds => groups[GroupOf(o)].present
  PROVE  StepKeeps
<1>1. \A h \in GroupIds : groups'[h] = IF h = g THEN t ELSE groups[h]
  BY DEF AuthorityInv, OperationInv, TypeOK, GroupTypes
<1>2. \A h \in GroupIds : Steady(groups[h], groups'[h]) /\ FrozenGroup(groups'[h])
  BY <1>1, SteadySame DEF AuthorityInv, GroupsFrozen
<1>3. QED
  BY <1>2, SteadyStep

\* A step that issues a new lease to one group.
LEMMA NewLeaseStep ==
  ASSUME AuthorityInv, NEW g \in GroupIds, NEW t,
         FrozenGroup(t), t.pending = groups[g].pending, t.unknown = groups[g].unknown,
         t.present, t.lease_id = next_lease + 1, ~ HasUnresolved(groups[g]),
         groups' = [groups EXCEPT ![g] = t], next_lease' = next_lease + 1,
         UNCHANGED state
  PROVE  StepKeeps
<1>1. \A h \in GroupIds : groups'[h] = IF h = g THEN t ELSE groups[h]
  BY DEF AuthorityInv, OperationInv, TypeOK, GroupTypes
<1>2. \A h \in GroupIds : /\ groups[h].lease_id \in Nat /\ groups[h].fence \in Nat
                          /\ next_lease \in Nat /\ groups[h].lease_id <= next_lease
  BY GroupFields DEF AuthorityInv, OperationInv, LeasesIssued
<1>3. GroupsFrozen' /\ PresentInFlight' /\ AuthorityStep
  BY <1>1 DEF AuthorityInv, GroupsFrozen, PresentInFlight, AuthorityStep, Dispatched
<1>4. SettlementsExact'
  BY <1>1 DEF AuthorityInv, SettlementsExact, Unsettled
<1>5. LeasesIssued'
  BY <1>1, <1>2 DEF LeasesIssued
<1>6. StaleStep
  <2>1. groups'[g].lease_id > groups[g].lease_id /\ Proof(groups'[g]) # Proof(groups[g])
    BY <1>1, <1>2 DEF Proof
  <2>2. QED
    BY <1>1, <1>2, <2>1 DEF StaleStep
<1>7. QED
  BY <1>3, <1>4, <1>5, <1>6 DEF StepKeeps
-----------------------------------------------------------------------------
(* One lemma per command: it keeps the invariant.                           *)

\* Finish settles its own operation and no other.
LEMMA FinishUnsettled ==
  ASSUME OperationTypes, RecentExact, NEW o \in Ops, NEW c, Finish(o, c),
         state[o] # "terminal"
  PROVE  \A q \in Ops : /\ state'[q] = "pending" <=> state[q] = "pending" /\ q # o
                        /\ state'[q] = "unknown" <=> state[q] = "unknown" /\ q # o
<1>1. /\ state'[o] = "terminal"
      /\ \A q \in Ops \ {o} : \/ state'[q] = state[q]
                              \/ state[q] = "terminal" /\ state'[q] = "new"
  BY FinishEffect
<1>2. QED
  BY <1>1

LEMMA SubmitKeeps ==
  ASSUME AuthorityInv, NEW o \in Ops, Submit(o)
  PROVE  StepKeeps
<1>1. OperationTypes /\ RecentExact /\ Dispatched' = Dispatched
  BY SubmitCounters DEF AuthorityInv, OperationInv, TypeOK, Books
<1>2. CASE Attach(o)
  BY <1>1, <1>2, IdleStep DEF Attach
<1>3. CASE AdmitCancelled(o)
  <2>1. state[o] = "new" /\ Finish(o, "cancelled") /\ UNCHANGED groupVars
    BY <1>3 DEF AdmitCancelled
  <2>2. QED
    BY <1>1, <2>1, FinishUnsettled, IdleStep
<1>4. ASSUME NEW p, Enqueue(o, p)
      PROVE  StepKeeps
  <2>1. state[o] = "new" /\ \A q \in Ops : state'[q] = IF q = o THEN "queued" ELSE state[q]
    BY <1>1, <1>4 DEF Enqueue, Fresh, OperationTypes
  <2>2. QED
    BY <1>1, <1>4, <2>1, IdleStep DEF Enqueue
<1>5. ASSUME NEW p, Refuse(o, p)
      PROVE  StepKeeps
  BY <1>1, <1>5, IdleStep DEF Refuse, opVars
<1>6. QED
  BY <1>2, <1>3, <1>4, <1>5 DEF Submit

\* An operation that is queued ends.
LEMMA DropKeeps ==
  ASSUME AuthorityInv, NEW o \in Queued, NEW c, Finish(o, c), UNCHANGED groupVars
  PROVE  StepKeeps
<1>1. OperationTypes /\ RecentExact /\ o \in Ops /\ state[o] = "queued"
  BY DEF AuthorityInv, OperationInv, TypeOK, Books, Queued
<1>2. Dispatched' = Dispatched
  BY <1>1, FinishDispatched DEF Dispatched
<1>3. QED
  BY <1>1, <1>2, FinishUnsettled, IdleStep

LEMMA CancelKeeps ==
  ASSUME AuthorityInv, NEW o \in Ops, NEW client, Cancel(o, client)
  PROVE  StepKeeps
<1>1. Dispatched' = Dispatched
  BY CancelCounters DEF AuthorityInv
<1>2. CASE RememberIntent(o, client)
  BY <1>1, <1>2, IdleStep DEF RememberIntent, opVars
<1>3. CASE state[o] = "queued" /\ CancelQueued(o)
  BY <1>3, DropKeeps DEF CancelQueued, Queued
<1>4. CASE Detach({o}) /\ UNCHANGED groupVars
  BY <1>1, <1>4, IdleStep DEF Detach
<1>5. QED
  BY <1>2, <1>3, <1>4 DEF Cancel

LEMMA VictimKeeps ==
  ASSUME AuthorityInv, NEW o \in Ops, CancelVictim(o) \/ RejectVictim(o)
  PROVE  StepKeeps
<1>1. o \in Queued
  BY DEF CancelVictim, RejectVictim, Swept, AuthorityInv, OperationInv, VictimsQueued
<1>2. QED
  BY <1>1, DropKeeps DEF CancelVictim, CancelQueued, RejectVictim, RejectBeforeDispatch

\* The group of one operation changes and is the only one to gain or lose its
\* settlement.
LEMMA OwnGroupStep ==
  ASSUME AuthorityInv, NEW o \in Ops, NEW t,
         GroupOf(o) \in GroupIds =>
           /\ Settling(groups[GroupOf(o)], t)
           /\ t.pending = {q \in Unsettled' : GroupOf(q) = GroupOf(o)}
           /\ t.unknown = {q \in Unsettled' : GroupOf(q) = GroupOf(o)
                                              /\ state'[q] = "unknown"},
         groups' = WithGroup(o, t), next_lease' = next_lease,
         \A q \in Ops \ {o} : /\ state'[q] = "pending" <=> state[q] = "pending"
                              /\ state'[q] = "unknown" <=> state[q] = "unknown",
         Dispatched' \subseteq Dispatched
  PROVE  StepKeeps
<1>1. \A g \in GroupIds : groups'[g] = IF g = GroupOf(o) THEN t ELSE groups[g]
  BY RequestType, SchedulerAssumption
     DEF WithGroup, AuthorityInv, OperationInv, TypeOK, GroupTypes
<1>2. \A g \in GroupIds : Settling(groups[g], groups'[g])
  <2>1. \A g \in GroupIds : Steady(groups[g], groups[g]) /\ FrozenGroup(groups[g])
    BY SteadySame DEF AuthorityInv, GroupsFrozen
  <2>2. \A g \in GroupIds : Settling(groups[g], groups[g])
    BY <2>1 DEF Steady, Settling
  <2>3. QED
    BY <1>1, <2>2
<1>3. SettlementsExact'
  <2> SUFFICES ASSUME NEW g \in GroupIds
               PROVE  /\ groups'[g].pending = {q \in Unsettled' : GroupOf(q) = g}
                      /\ groups'[g].unknown =
                           {q \in Unsettled' : GroupOf(q) = g /\ state'[q] = "unknown"}
    BY DEF SettlementsExact
  <2>1. CASE g = GroupOf(o)
    BY <1>1, <2>1
  <2>2. CASE g # GroupOf(o)
    <3>1. /\ groups[g].pending = {q \in Unsettled : GroupOf(q) = g}
          /\ groups[g].unknown = {q \in Unsettled : GroupOf(q) = g /\ state[q] = "unknown"}
      BY DEF AuthorityInv, SettlementsExact
    <3>2. QED
      BY <1>1, <2>2, <3>1 DEF Unsettled
  <2>3. QED
    BY <2>1, <2>2
<1>4. \A q \in Dispatched' : GroupOf(q) \in GroupIds => groups[GroupOf(q)].present
  BY DEF AuthorityInv, PresentInFlight
<1>5. QED
  BY <1>2, <1>3, <1>4, SettlingStep

\* The settlements of the group of an operation, before a step.
LEMMA OwnSettlements ==
  ASSUME AuthorityInv, NEW o \in Ops, GroupOf(o) \in GroupIds
  PROVE  LET s == groups[GroupOf(o)] IN
         /\ s \in GroupState /\ FrozenGroup(s)
         /\ s.pending = {q \in Unsettled : GroupOf(q) = GroupOf(o)}
         /\ s.unknown = {q \in Unsettled : GroupOf(q) = GroupOf(o) /\ state[q] = "unknown"}
         /\ s.fence \in Nat
         /\ o \in Dispatched => s.present
BY GroupFields DEF AuthorityInv, OperationInv, GroupsFrozen, SettlementsExact, PresentInFlight

LEMMA ExecutedKeeps ==
  ASSUME AuthorityInv, NEW o \in Ops, NEW outcome, Executed(o, outcome)
  PROVE  StepKeeps
<1> DEFINE g == GroupOf(o)  s == groups[g]
<1>1. /\ OperationTypes /\ RecentExact /\ o \in Dispatched /\ state[o] = "dispatched"
      /\ Dispatched' \subseteq Dispatched /\ next_lease' = next_lease
  BY ExecutedCounters DEF AuthorityInv, OperationInv, TypeOK, Books, Executed
<1>2. CASE CompleteTerminal(o, outcome)
  <2>1. Finish(o, outcome) /\ groups' = WithGroup(o, FinishExecution(s))
    BY <1>2 DEF CompleteTerminal
  <2>2. \A q \in Ops : /\ state'[q] = "pending" <=> state[q] = "pending"
                       /\ state'[q] = "unknown" <=> state[q] = "unknown"
    BY <1>1, <2>1, FinishUnsettled
  <2>3. Unsettled' = Unsettled
    BY <2>2 DEF Unsettled
  <2> DEFINE t == FinishExecution(s)
  <2>4. ASSUME g \in GroupIds
        PROVE  /\ Settling(s, t)
               /\ t.pending = {q \in Unsettled' : GroupOf(q) = g}
               /\ t.unknown = {q \in Unsettled' : GroupOf(q) = g /\ state'[q] = "unknown"}
    <3>1. Steady(s, t) /\ FrozenGroup(t)
      BY <2>4, OwnSettlements, FinishedSteady
    <3>2. t.pending = s.pending /\ t.unknown = s.unknown /\ Settling(s, t)
      BY <3>1 DEF Steady, Settling
    <3>3. QED
      BY <2>2, <2>3, <2>4, <3>2, OwnSettlements DEF Unsettled
  <2> HIDE DEF t
  <2>5. groups' = WithGroup(o, t)
    BY <2>1 DEF t
  <2>6. QED
    BY <1>1, <2>2, <2>4, <2>5, OwnGroupStep
<1>3. CASE CompleteAmbiguous(o)
  <2> DEFINE t == BeginSettlement(s, o)
  <2>1. groups' = WithGroup(o, t)
    BY <1>3 DEF CompleteAmbiguous
  <2>2. \A q \in Ops : state'[q] = IF q = o THEN "pending" ELSE state[q]
    BY <1>1, <1>3 DEF CompleteAmbiguous, OperationTypes
  <2>3. Unsettled' = Unsettled \cup {o}
    BY <2>2 DEF Unsettled
  <2>4. ASSUME g \in GroupIds
        PROVE  /\ Settling(s, t)
               /\ t.pending = {q \in Unsettled' : GroupOf(q) = g}
               /\ t.unknown = {q \in Unsettled' : GroupOf(q) = g /\ state'[q] = "unknown"}
    <3>1. s \in GroupState /\ FrozenGroup(s) /\ s.present /\ s.fence \in Nat
      BY <1>1, <2>4, OwnSettlements
    <3>2. /\ FrozenGroup(t) /\ t.pending = s.pending \cup {o} /\ t.unknown = s.unknown
          /\ t.present /\ t.lease_id = s.lease_id /\ t.fence = s.fence
          /\ t.principal = s.principal /\ t.lease_state = s.lease_state
      BY <3>1, BeginEffect
    <3> HIDE DEF t
    <3>3. Settling(s, t)
      BY <3>2 DEF Settling
    <3>4. t.pending = {q \in Unsettled' : GroupOf(q) = g}
      BY <2>3, <2>4, <3>2, OwnSettlements
    <3>5. t.unknown = {q \in Unsettled' : GroupOf(q) = g /\ state'[q] = "unknown"}
      BY <1>1, <2>2, <2>3, <2>4, <3>2, OwnSettlements DEF Unsettled
    <3>6. QED
      BY <3>3, <3>4, <3>5
  <2> HIDE DEF t
  <2>5. QED
    BY <1>1, <2>1, <2>2, <2>4, OwnGroupStep
<1>4. CASE CompleteSettled(o)
  <2> DEFINE early == early_settlements[o]
             b == BeginSettlement(s, o)
             t == Settled(o, b, early)
  <2>1. Finish(o, early) /\ groups' = WithGroup(o, t)
    BY <1>4 DEF CompleteSettled
  <2>2. \A q \in Ops : /\ state'[q] = "pending" <=> state[q] = "pending"
                       /\ state'[q] = "unknown" <=> state[q] = "unknown"
    BY <1>1, <2>1, FinishUnsettled
  <2>3. Unsettled' = Unsettled /\ o \notin Unsettled
    BY <1>1, <2>2 DEF Unsettled
  <2>4. ASSUME g \in GroupIds
        PROVE  /\ Settling(s, t)
               /\ t.pending = {q \in Unsettled' : GroupOf(q) = g}
               /\ t.unknown = {q \in Unsettled' : GroupOf(q) = g /\ state'[q] = "unknown"}
    <3>1. s \in GroupState /\ FrozenGroup(s) /\ s.present /\ s.fence \in Nat
      BY <1>1, <2>4, OwnSettlements
    <3>2. /\ b \in GroupState
          /\ FrozenGroup(b) /\ b.pending = s.pending \cup {o} /\ b.unknown = s.unknown
          /\ b.present /\ b.lease_id = s.lease_id /\ b.fence = s.fence
          /\ b.principal = s.principal /\ b.lease_state = s.lease_state
      BY <3>1, BeginEffect, SettlementType
    <3> HIDE DEF b, early
    <3>3. SettledTo(b, o, t)
      BY <3>2, SettledEffect
    <3> HIDE DEF t
    <3>4. /\ FrozenGroup(t) /\ t.pending = b.pending \ {o} /\ t.unknown = b.unknown \ {o}
          /\ t.present = b.present /\ t.lease_id = b.lease_id
          /\ t.fence \in {b.fence, b.fence + 1} /\ t.principal = b.principal
          /\ HasUnresolved(t) => t.lease_state = b.lease_state
      BY <3>3 DEF SettledTo
    <3>5. o \notin s.pending /\ o \notin s.unknown
      BY <2>3, <2>4, OwnSettlements
    <3>6. t.pending = s.pending /\ t.unknown = s.unknown
      BY <3>2, <3>4, <3>5
    <3>7. Settling(s, t)
      BY <3>2, <3>4 DEF Settling
    <3>8. QED
      BY <2>2, <2>3, <2>4, <3>6, <3>7, OwnSettlements DEF Unsettled
  <2> HIDE DEF t
  <2>5. QED
    BY <1>1, <2>1, <2>2, <2>4, OwnGroupStep
<1>5. QED
  BY <1>2, <1>3, <1>4 DEF Executed

LEMMA SettleKeeps ==
  ASSUME AuthorityInv, NEW o \in Ops, NEW outcome, Settle(o, outcome)
  PROVE  StepKeeps
<1> DEFINE g == GroupOf(o)  s == groups[g]
<1>1. /\ OperationTypes /\ RecentExact /\ Dispatched' = Dispatched
      /\ next_lease' = next_lease
  BY SettleCounters DEF AuthorityInv, OperationInv, TypeOK, Books, Settle
<1>2. CASE SettleEarly(o, outcome)
  BY <1>1, <1>2, IdleStep DEF SettleEarly, opVars, groupVars
<1>3. CASE SettleNow(o, outcome)
  <2> DEFINE t == Settled(o, s, outcome)
  <2>1. /\ state[o] \in {"pending", "unknown"} /\ Finish(o, outcome)
        /\ groups' = WithGroup(o, t)
    BY <1>3 DEF SettleNow
  <2>2. \A q \in Ops : /\ state'[q] = "pending" <=> state[q] = "pending" /\ q # o
                       /\ state'[q] = "unknown" <=> state[q] = "unknown" /\ q # o
    BY <1>1, <2>1, FinishUnsettled
  <2>3. Unsettled' = Unsettled \ {o}
    BY <2>2 DEF Unsettled
  <2>4. ASSUME g \in GroupIds
        PROVE  /\ Settling(s, t)
               /\ t.pending = {q \in Unsettled' : GroupOf(q) = g}
               /\ t.unknown = {q \in Unsettled' : GroupOf(q) = g /\ state'[q] = "unknown"}
    <3>1. s \in GroupState /\ FrozenGroup(s)
      BY <2>4, OwnSettlements
    <3>2. SettledTo(s, o, t)
      BY <3>1, SettledEffect
    <3> HIDE DEF t
    <3>3. Settling(s, t) /\ t.pending = s.pending \ {o} /\ t.unknown = s.unknown \ {o}
      BY <3>2 DEF SettledTo, Settling
    <3>4. t.pending = {q \in Unsettled' : GroupOf(q) = g}
      BY <2>3, <2>4, <3>3, OwnSettlements
    <3>5. t.unknown = {q \in Unsettled' : GroupOf(q) = g /\ state'[q] = "unknown"}
      BY <2>2, <2>3, <2>4, <3>3, OwnSettlements DEF Unsettled
    <3>6. QED
      BY <3>3, <3>4, <3>5
  <2> HIDE DEF t
  <2>5. QED
    BY <1>1, <2>1, <2>2, <2>4, OwnGroupStep
<1>4. QED
  BY <1>2, <1>3 DEF Settle

LEMMA GroupCommandKeeps ==
  ASSUME AuthorityInv, NEW g \in GroupIds, GroupCommand(g)
  PROVE  StepKeeps
<1> DEFINE s == groups[g]
<1>1. /\ s \in GroupState /\ FrozenGroup(s)
      /\ groups \in [GroupIds -> GroupState]
      /\ UNCHANGED state
      /\ \A o \in Dispatched' : GroupOf(o) \in GroupIds => groups[GroupOf(o)].present
  BY GroupCommandQuiet DEF AuthorityInv, OperationInv, TypeOK, GroupTypes, GroupsFrozen,
     OnlyGroups, opVars, PresentInFlight, Dispatched
<1>2. CASE CreateGroup(g)
  <2> DEFINE t == Created(s, HomeOf[g], OwnerOf[g], next_lease + 1)
  <2>1. /\ Creatable(s) /\ next_lease' = next_lease + 1
        /\ groups' = [groups EXCEPT ![g] = t]
    BY <1>2 DEF CreateGroup
  <2>2. /\ FrozenGroup(t) /\ t.pending = s.pending /\ t.unknown = s.unknown
        /\ t.present /\ t.lease_id = next_lease + 1 /\ ~ HasUnresolved(s)
    BY <1>1, <2>1, CreatedEffect
  <2> HIDE DEF t
  <2>3. QED
    BY <1>1, <2>1, <2>2, NewLeaseStep
<1>3. ASSUME NEW principal \in Principals, NEW members, NEW revision,
             ResumeRecovered(g, principal, members, revision)
      PROVE  StepKeeps
  <2> DEFINE t == Resumed(s, next_lease + 1)
  <2>1. /\ s.present /\ s.admission = "Suspended" /\ next_lease' = next_lease + 1
        /\ groups' = [groups EXCEPT ![g] = t]
    BY <1>3 DEF ResumeRecovered, CanResume
  <2>2. /\ FrozenGroup(t) /\ t.pending = s.pending /\ t.unknown = s.unknown
        /\ t.present /\ t.lease_id = next_lease + 1 /\ ~ HasUnresolved(s)
    BY <1>1, <2>1, ResumedEffect
  <2> HIDE DEF t
  <2>3. QED
    BY <1>1, <2>1, <2>2, NewLeaseStep
<1>4. ASSUME NEW t, Steady(s, t), FrozenGroup(t), groups' = [groups EXCEPT ![g] = t],
             next_lease' = next_lease
      PROVE  StepKeeps
  BY <1>1, <1>4, OneGroupStep
<1>5. ASSUME NEW principal \in Principals, NEW tab \in Tabs, AddMember(g, principal, tab)
      PROVE  StepKeeps
  BY <1>1, <1>4, <1>5, WithMemberSteady DEF AddMember
<1>6. ASSUME NEW p, NEW principal, Renew(g, p, principal)
      PROVE  StepKeeps
  BY <1>1, <1>4, <1>6, UnexpiredSteady DEF Renew
<1>7. ASSUME NEW target \in Principals, NEW revision, AcceptHandoff(g, target, revision)
      PROVE  StepKeeps
  <2>1. ~ HasUnresolved(s)
    BY <1>1, <1>7 DEF AcceptHandoff, CanAccept, FrozenGroup
  <2>2. QED
    BY <1>1, <1>4, <1>7, <2>1, MovedSteady DEF AcceptHandoff
<1>8. ASSUME NEW requester, NEW target \in Principals, NEW revision,
             ForceHandoff(g, requester, target, revision)
      PROVE  StepKeeps
  BY <1>1, <1>4, <1>8, MovedSteady DEF ForceHandoff, CanForce
<1>9. ASSUME NEW principal, NEW target \in Principals, NEW revision,
             OfferHandoff(g, principal, target, revision)
      PROVE  StepKeeps
  <2>1. ~ HasUnresolved(s)
    BY <1>1, <1>9 DEF OfferHandoff, CanOffer, OpenOwner, FrozenGroup
  <2>2. QED
    BY <1>1, <1>4, <1>9, <2>1, OfferedSteady DEF OfferHandoff
<1>10. ASSUME NEW principal, EndGroup(g, principal)
       PROVE  StepKeeps
  <2>1. CASE CanEnd(s, principal)
    BY <1>1, <1>4, <1>10, <2>1, EndedSteady DEF EndGroup, CanEnd
  <2>2. CASE ~ CanEnd(s, principal)
    <3>1. UNCHANGED groupVars /\ Dispatched' = Dispatched
      BY <1>1, <1>10, <2>2 DEF EndGroup, groupVars, Dispatched
    <3>2. QED
      BY <1>1, <3>1, IdleStep
  <2>3. QED
    BY <2>1, <2>2
<1>11. QED
  BY <1>2, <1>3, <1>5, <1>6, <1>7, <1>8, <1>9, <1>10 DEF GroupCommand

LEMMA DisconnectKeeps ==
  ASSUME AuthorityInv, NEW principal \in Principals, Disconnect(principal)
  PROVE  StepKeeps
<1>1. \A g \in GroupIds : Steady(groups[g], groups'[g]) /\ FrozenGroup(groups'[g])
  BY GroupFields, DisconnectedSteady
     DEF Disconnect, AuthorityInv, OperationInv, GroupsFrozen
<1>2. UNCHANGED state /\ next_lease' = next_lease
  BY DEF Disconnect, Detach
<1>3. QED
  BY <1>1, <1>2, SteadyStep DEF AuthorityInv, PresentInFlight, Dispatched

LEMMA BrowserLostKeeps ==
  ASSUME AuthorityInv, NEW b \in Browsers, BrowserLost(b)
  PROVE  StepKeeps
<1>1. \A g \in GroupIds : Steady(groups[g], groups'[g]) /\ FrozenGroup(groups'[g])
  BY GroupFields, BrowserLostSteady
     DEF BrowserLost, AuthorityInv, OperationInv, GroupsFrozen
<1>2. UNCHANGED state /\ next_lease' = next_lease
  BY DEF BrowserLost, OnlyGroups, opVars
<1>3. QED
  BY <1>1, <1>2, SteadyStep DEF AuthorityInv, PresentInFlight, Dispatched

LEMMA ElapseKeeps ==
  ASSUME AuthorityInv, Elapse
  PROVE  StepKeeps
<1>1. \A g \in GroupIds : Steady(groups[g], groups'[g]) /\ FrozenGroup(groups'[g])
  BY GroupFields, OlderSteady DEF Elapse, AuthorityInv, OperationInv, GroupsFrozen
<1>2. UNCHANGED state /\ next_lease' = next_lease
  BY DEF Elapse
<1>3. QED
  BY <1>1, <1>2, SteadyStep DEF AuthorityInv, PresentInFlight, Dispatched

\* A group that counts no operation in flight has none.
LEMMA NoneInFlight ==
  ASSUME CountersExact, NEW g \in GroupIds, in_flight_by_group[g] = 0,
         NEW o \in Dispatched
  PROVE  GroupOf(o) # g
<1> DEFINE flights == {q \in Dispatched : GroupOf(q) = g}
<1>1. IsFiniteSet(flights)
  BY SchedulerAssumption, FS_Subset DEF Dispatched
<1>2. Cardinality(flights) = 0
  BY DEF CountersExact
<1>3. flights = {}
  BY <1>1, <1>2, FS_EmptySet
<1>4. QED
  BY <1>3

LEMMA PruneKeeps ==
  ASSUME AuthorityInv, PruneReleased
  PROVE  StepKeeps
<1>1. /\ UNCHANGED <<state, next_lease>> /\ Dispatched' = Dispatched
      /\ Unsettled' = Unsettled
  BY DEF PruneReleased, OnlyGroups, opVars, Dispatched, Unsettled
<1> DEFINE Gone(g) == Prunable(groups[g], in_flight_by_group[g])
<1>2. \A g \in GroupIds : ~ Gone(g) => groups'[g] = groups[g]
  BY DEF PruneReleased
<1>3. ASSUME NEW g \in GroupIds, Gone(g)
      PROVE  LET s == groups[g]  t == groups'[g] IN
             /\ FrozenGroup(t) /\ t.pending = s.pending /\ t.unknown = s.unknown
             /\ ~ t.present /\ t.lease_id = s.lease_id /\ ~ HasUnresolved(s)
  <2>1. groups'[g] = Pruned(groups[g])
    BY <1>3 DEF PruneReleased
  <2>2. groups[g] \in GroupState /\ FrozenGroup(groups[g])
    BY GroupFields DEF AuthorityInv, OperationInv, GroupsFrozen
  <2>3. QED
    BY <1>3, <2>1, <2>2, PrunedEffect
<1>4. \A g \in GroupIds : Gone(g) => in_flight_by_group[g] = 0
  BY DEF Prunable
<1> HIDE DEF Gone
<1>5. GroupsFrozen'
  BY <1>2, <1>3 DEF AuthorityInv, GroupsFrozen
<1>6. SettlementsExact'
  <2>1. \A g \in GroupIds : /\ groups'[g].pending = groups[g].pending
                            /\ groups'[g].unknown = groups[g].unknown
    BY <1>2, <1>3
  <2>2. QED
    BY <1>1, <2>1 DEF AuthorityInv, SettlementsExact
<1>7. PresentInFlight'
  <2>1. \A o \in Dispatched : GroupOf(o) \in GroupIds => ~ Gone(GroupOf(o))
    BY <1>4, NoneInFlight DEF AuthorityInv
  <2>2. QED
    BY <1>1, <1>2, <2>1 DEF AuthorityInv, PresentInFlight
<1>8. LeasesIssued'
  BY <1>1, <1>2, <1>3 DEF AuthorityInv, LeasesIssued
<1>9. AuthorityStep
  BY <1>2, <1>3 DEF AuthorityStep
<1>10. StaleStep
  <2>1. \A g \in GroupIds : groups[g].fence \in Nat /\ groups[g].lease_id \in Nat
    BY GroupFields DEF AuthorityInv, OperationInv
  <2>2. QED
    BY <1>2, <1>3, <2>1 DEF StaleStep
<1>11. QED
  BY <1>5, <1>6, <1>7, <1>8, <1>9, <1>10 DEF StepKeeps

\* The tick turns overdue settlements unknown, in the records and in the groups,
\* and only then lets leases expire.
LEMMA TickKeeps ==
  ASSUME AuthorityInv, Tick
  PROVE  StepKeeps
<1>1. /\ \A o \in Ops : state'[o] = IF o \in Overdue THEN "unknown" ELSE state[o]
      /\ \A g \in GroupIds : groups'[g] = Ticked(g)
      /\ next_lease' = next_lease
  BY DEF Tick
<1>2. Overdue \subseteq Ops /\ \A o \in Overdue : state[o] = "pending"
  BY DEF Overdue
<1>3. Unsettled' = Unsettled /\ Dispatched' = Dispatched
  BY <1>1, <1>2 DEF Unsettled, Dispatched
<1>4. ASSUME NEW g \in GroupIds
      PROVE  /\ Settling(groups[g], groups'[g])
             /\ groups'[g].pending = groups[g].pending
             /\ groups'[g].unknown =
                  groups[g].unknown \cup {o \in Overdue : GroupOf(o) = g}
  <2> DEFINE s == groups[g]
             late == {o \in Overdue : GroupOf(o) = g}
             m == MarkUnknown(s, late)
             t == Expire(m, in_flight_by_group[g])
  <2>1. s \in GroupState /\ FrozenGroup(s) /\ late \in SUBSET Ops
    BY <1>2, GroupFields DEF AuthorityInv, OperationInv, GroupsFrozen
  <2>2. late \subseteq s.pending
    BY <1>2 DEF AuthorityInv, SettlementsExact, Unsettled
  <2>3. groups'[g] = t
    BY <1>1 DEF Ticked
  <2> HIDE DEF late
  <2>4. /\ m \in GroupState /\ FrozenGroup(m)
        /\ m.pending = s.pending /\ m.unknown = s.unknown \cup (late \cap s.pending)
        /\ m.present = s.present /\ m.lease_id = s.lease_id /\ m.fence = s.fence
        /\ m.principal = s.principal /\ m.lease_state = s.lease_state
    BY <2>1, MarkUnknownEffect, MarkUnknownType
  <2> HIDE DEF m
  <2>5. Steady(m, t) /\ FrozenGroup(t)
    BY <2>4, ExpireSteady
  <2> HIDE DEF t
  <2>6. Settling(s, t) /\ t.pending = s.pending /\ t.unknown = s.unknown \cup late
    BY <2>2, <2>4, <2>5 DEF Steady, Settling, HasUnresolved
  <2>7. QED
    BY <2>3, <2>6 DEF late
<1>5. SettlementsExact'
  <2> SUFFICES ASSUME NEW g \in GroupIds
               PROVE  /\ groups'[g].pending = {q \in Unsettled' : GroupOf(q) = g}
                      /\ groups'[g].unknown =
                           {q \in Unsettled' : GroupOf(q) = g /\ state'[q] = "unknown"}
    BY DEF SettlementsExact
  <2>1. /\ groups[g].pending = {q \in Unsettled : GroupOf(q) = g}
        /\ groups[g].unknown = {q \in Unsettled : GroupOf(q) = g /\ state[q] = "unknown"}
    BY DEF AuthorityInv, SettlementsExact
  <2>2. Overdue \subseteq Unsettled
    BY <1>2 DEF Unsettled
  <2>3. groups'[g].pending = {q \in Unsettled' : GroupOf(q) = g}
    BY <1>3, <1>4, <2>1
  <2>4. groups'[g].unknown =
          {q \in Unsettled' : GroupOf(q) = g /\ state'[q] = "unknown"}
    BY <1>1, <1>3, <1>4, <2>1, <2>2 DEF Unsettled
  <2>5. QED
    BY <2>3, <2>4
<1>6. \A o \in Dispatched' : GroupOf(o) \in GroupIds => groups[GroupOf(o)].present
  BY <1>3 DEF AuthorityInv, PresentInFlight
<1>7. QED
  BY <1>1, <1>4, <1>5, <1>6, SettlingStep

LEMMA DequeueKeeps ==
  ASSUME AuthorityInv, NEW lane \in Lanes, queue[lane] # <<>>, Dequeue(lane)
  PROVE  StepKeeps
<1> DEFINE o == Head(queue[lane])
<1>1. /\ o \in Queued /\ o \in Ops /\ On(o) = lane /\ state[o] = "queued"
      /\ OperationTypes
      /\ Dispatched' = IF MayDispatch(o) THEN Dispatched \cup {o} ELSE Dispatched
  BY DequeueCounters DEF AuthorityInv, OperationInv, TypeOK, Queued
<1>2. IF MayDispatch(o) THEN MarkDispatched(o) ELSE RejectBeforeDispatch(o)
  BY DEF Dequeue
<1> HIDE DEF o
<1>3. CASE ~ MayDispatch(o)
  BY <1>1, <1>2, <1>3, DropKeeps DEF RejectBeforeDispatch
<1>4. CASE MayDispatch(o)
  <2>1. MarkDispatched(o) /\ Dispatched' = Dispatched \cup {o}
    BY <1>1, <1>2, <1>4
  <2>2. \A q \in Ops : /\ state'[q] = "pending" <=> state[q] = "pending"
                       /\ state'[q] = "unknown" <=> state[q] = "unknown"
    BY <1>1, <2>1 DEF MarkDispatched, OperationTypes
  <2>3. GroupOf(o) \in GroupIds => groups[GroupOf(o)].present
    <3>1. On(o) \in Tabs \/ On(o) \in Browsers \/ GroupOf(o) = NoGroup
      BY <1>1, SchedulerAssumption DEF Lanes, On, GroupOf
    <3>2. QED
      BY <1>4, <3>1, SchedulerAssumption
         DEF MayDispatch, Validates, ValidProof, ValidatesBridgeGlobal
  <2>4. \A q \in Dispatched' : GroupOf(q) \in GroupIds => groups[GroupOf(q)].present
    BY <2>1, <2>3 DEF AuthorityInv, PresentInFlight
  <2>5. CASE UNCHANGED groups
    <3>1. \A g \in GroupIds : Steady(groups[g], groups'[g]) /\ FrozenGroup(groups'[g])
      BY <2>5, SteadySame DEF AuthorityInv, GroupsFrozen
    <3>2. QED
      BY <2>1, <2>2, <2>4, <3>1, SteadyStep DEF MarkDispatched
  <2>6. CASE /\ lane \in Tabs
             /\ groups' = [groups EXCEPT ![GroupOf(o)] = Unexpired(@)]
    <3> DEFINE g == GroupOf(o)
    <3>1. g \in GroupIds
      BY <1>1, <2>6, RequestType
    <3>2. Steady(groups[g], Unexpired(groups[g])) /\ FrozenGroup(Unexpired(groups[g]))
      BY <3>1, GroupFields, UnexpiredSteady DEF AuthorityInv, OperationInv, GroupsFrozen
    <3>3. QED
      BY <2>1, <2>2, <2>4, <2>6, <3>1, <3>2, OneGroupStep DEF MarkDispatched
  <2>7. QED
    BY <1>1, <2>1, <2>5, <2>6 DEF MarkDispatched
<1>5. QED
  BY <1>3, <1>4

LEMMA DispatchKeeps ==
  ASSUME AuthorityInv, Dispatch
  PROVE  StepKeeps
<1>1. CASE DispatchDaemonGlobal
  BY <1>1, DequeueKeeps DEF DispatchDaemonGlobal, DaemonFirst, Lanes
<1>2. ASSUME NEW t \in Tabs, DispatchTab(t)
      PROVE  StepKeeps
  BY <1>2, DequeueKeeps DEF DispatchTab, EligibleTab, Lanes
<1>3. ASSUME NEW b \in Browsers, DispatchBridgeGlobal(b)
      PROVE  StepKeeps
  BY <1>3, DequeueKeeps DEF DispatchBridgeGlobal, EligibleBrowser, Lanes
<1>4. CASE DispatchDone
  BY <1>4, IdleStep DEF DispatchDone, opVars, Dispatched
<1>5. QED
  BY <1>1, <1>2, <1>3, <1>4 DEF Dispatch
-----------------------------------------------------------------------------
LEMMA AuthorityInit == Init => AuthorityInv
<1> SUFFICES ASSUME Init PROVE AuthorityInv
  OBVIOUS
<1>1. OperationInv /\ CountersExact
  BY OperationInit, CountersInit
<1>2. \A g \in GroupIds : groups[g] \in InitialGroups(g)
  BY DEF Init, InitialRegistries
<1>3. ASSUME NEW g \in GroupIds
      PROVE  /\ FrozenGroup(groups[g]) /\ groups[g].lease_id = 0
             /\ groups[g].pending = {} /\ groups[g].unknown = {}
  <2>1. CASE groups[g] = AbsentGroup(g)
    <3>1. /\ groups[g].pending = {} /\ groups[g].unknown = {}
          /\ groups[g].deferred = "None" /\ groups[g].lease_id = 0
      BY <2>1 DEF AbsentGroup
    <3>2. QED
      BY <3>1 DEF FrozenGroup, HasUnresolved
  <2>2. ASSUME NEW tabs, NEW admission, groups[g] = RecoveredGroup(g, tabs, admission)
        PROVE  /\ FrozenGroup(groups[g]) /\ groups[g].lease_id = 0
               /\ groups[g].pending = {} /\ groups[g].unknown = {}
    BY <2>2, Zenon DEF RecoveredGroup, AbsentGroup, FrozenGroup, HasUnresolved
  <2>3. CASE groups[g] \in RecoveredGroups(g)
    <3>1. PICK tabs \in SUBSET Tabs, admission \in {"Suspended", "RecoveryRequired"} :
            groups[g] = RecoveredGroup(g, tabs, admission)
      BY <2>3 DEF RecoveredGroups
    <3>2. QED
      BY <2>2, <3>1
  <2>4. QED
    BY <1>2, <2>1, <2>3 DEF InitialGroups
<1>4. GroupsFrozen /\ LeasesIssued
  BY <1>3 DEF Init, GroupsFrozen, LeasesIssued
<1>5. SettlementsExact /\ PresentInFlight
  BY <1>3 DEF Init, SettlementsExact, PresentInFlight, Unsettled, Dispatched
<1>6. QED
  BY <1>1, <1>4, <1>5 DEF AuthorityInv

LEMMA AuthorityNext == AuthorityInv /\ [Next]_vars => AuthorityInv' /\ StepKeeps
<1> SUFFICES ASSUME AuthorityInv, [Next]_vars PROVE AuthorityInv' /\ StepKeeps
  OBVIOUS
<1>1. OperationInv' /\ CountersExact'
  BY OperationStep, CountersStep DEF AuthorityInv
<1>2. StepKeeps
  <2>1. CASE UNCHANGED vars
    BY <2>1, IdleStep DEF vars, opVars, Dispatched
  <2>2. ASSUME NEW o \in Ops, OperationCommand(o) \/ CancelVictim(o) \/ RejectVictim(o)
        PROVE  StepKeeps
    BY <2>2, SubmitKeeps, CancelKeeps, ExecutedKeeps, SettleKeeps, VictimKeeps
       DEF OperationCommand
  <2>3. CASE Query
    BY <2>3, IdleStep DEF Query, opVars, Dispatched
  <2>4. QED
    BY <2>1, <2>2, <2>3, GroupCommandKeeps, DisconnectKeeps, BrowserLostKeeps, PruneKeeps,
       ElapseKeeps, TickKeeps, DispatchKeeps DEF Next
<1>3. QED
  BY <1>1, <1>2 DEF AuthorityInv, StepKeeps

LEMMA AuthorityInvariant == Spec => []AuthorityInv
<1>1. AuthorityInv /\ [Next]_vars => AuthorityInv'
  BY AuthorityNext
<1>2. QED
  BY <1>1, AuthorityInit, PTL DEF Spec

\* What a group holds against itself and what the records of its operations say
\* about their outcome never diverge, early settlements and deadlines included.
THEOREM SettlementsCorrect == Spec => []SettlementsExact
<1>1. AuthorityInv => SettlementsExact
  BY DEF AuthorityInv
<1>2. QED
  BY <1>1, AuthorityInvariant, PTL

\* While an outcome is unknown its group stays in the registry, closed, with what
\* it has to do afterwards remembered.
THEOREM FreezeCorrect == Spec => []FrozenWhileUnsettled
<1>1. AuthorityInv => FrozenWhileUnsettled
  BY DEF AuthorityInv, GroupsFrozen, FrozenGroup, FrozenWhileUnsettled
<1>2. QED
  BY <1>1, AuthorityInvariant, PTL

\* Between two unsettled states a group keeps its owner and its lease: expiry, the
\* end of the group, handoffs, the loss of the browser and settlements all wait.
THEOREM AuthorityFrozen == Spec => FrozenAuthority
<1>1. AuthorityInv /\ [Next]_vars => [AuthorityStep]_vars
  BY AuthorityNext DEF StepKeeps
<1>2. Spec => [][AuthorityStep]_vars
  BY <1>1, AuthorityInvariant, PTL DEF Spec
<1>3. QED
  BY <1>2 DEF AuthorityStep, FrozenAuthority

\* Leases and fences only grow and a change of owner shows in them, so a proof that
\* became stale is refused for ever.
THEOREM StaleProofs == Spec => ProofsGoStale
<1>1. AuthorityInv /\ [Next]_vars => [StaleStep]_vars
  BY AuthorityNext DEF StepKeeps
<1>2. Spec => [][StaleStep]_vars
  BY <1>1, AuthorityInvariant, PTL DEF Spec
<1>3. QED
  BY <1>2 DEF StaleStep, ProofsGoStale
-----------------------------------------------------------------------------
(* What reaches the executor.                                               *)

LEMMA TakenFromQueues ==
  ASSUME OperationInv, CountersExact, [Next]_vars
  PROVE  Dispatched' \subseteq Dispatched \cup Queued
<1>1. CASE UNCHANGED vars
  BY <1>1 DEF vars, opVars, Dispatched
<1>2. ASSUME NEW o \in Ops, OperationCommand(o) \/ CancelVictim(o) \/ RejectVictim(o)
      PROVE  Dispatched' \subseteq Dispatched
  BY <1>2, SubmitCounters, CancelCounters, ExecutedCounters, SettleCounters, VictimCounters
     DEF OperationCommand
<1>3. ASSUME NEW g \in GroupIds, GroupCommand(g)
      PROVE  Dispatched' = Dispatched
  BY <1>3, GroupCommandQuiet DEF OnlyGroups, opVars, Dispatched
<1>4. CASE \/ \E principal \in Principals : Disconnect(principal)
           \/ \E b \in Browsers : BrowserLost(b)
           \/ PruneReleased \/ Query \/ Elapse \/ Tick
  BY <1>4, OtherCommandQuiet
<1>5. ASSUME NEW lane \in Lanes, queue[lane] # <<>>, Dequeue(lane)
      PROVE  Dispatched' \subseteq Dispatched \cup Queued
  BY <1>5, DequeueCounters
<1>6. CASE Dispatch
  <2>1. CASE DispatchDaemonGlobal
    BY <1>5, <2>1 DEF DispatchDaemonGlobal, DaemonFirst, Lanes
  <2>2. ASSUME NEW t \in Tabs, DispatchTab(t)
        PROVE  Dispatched' \subseteq Dispatched \cup Queued
    BY <1>5, <2>2 DEF DispatchTab, EligibleTab, Lanes
  <2>3. ASSUME NEW b \in Browsers, DispatchBridgeGlobal(b)
        PROVE  Dispatched' \subseteq Dispatched \cup Queued
    BY <1>5, <2>3 DEF DispatchBridgeGlobal, EligibleBrowser, Lanes
  <2>4. CASE DispatchDone
    BY <2>4 DEF DispatchDone, opVars, Dispatched
  <2>5. QED
    BY <1>6, <2>1, <2>2, <2>3, <2>4 DEF Dispatch
<1>7. QED
  BY <1>1, <1>2, <1>3, <1>4, <1>6 DEF Next

\* The body of NoReplay.
ReplayStep == \A o \in ran : state'[o] = "dispatched" => state[o] = "dispatched"

\* While its record is kept, an operation that was handed to the executor is not
\* handed to it again.
THEOREM RunsOnce == Spec => NoReplay
<1>1. OperationInv /\ CountersExact /\ [Next]_vars => [ReplayStep]_vars
  <2> SUFFICES ASSUME OperationInv, CountersExact, [Next]_vars, NEW o \in ran,
                      state'[o] = "dispatched"
               PROVE  state[o] = "dispatched"
    BY DEF ReplayStep
  <2>1. o \in Ops /\ o \notin Queued
    BY DEF OperationInv, TypeOK, OperationTypes, Books, RecordsExact, Queued
  <2>2. QED
    BY <2>1, TakenFromQueues DEF Dispatched
<1>2. Spec => [][ReplayStep]_vars
  BY <1>1, CountersCorrect, OperationsInvariant, PTL DEF Spec
<1>3. QED
  BY <1>2 DEF ReplayStep, NoReplay

\* A settlement that overtook its answer is dropped with the answer.
THEOREM EarlyCorrect == Spec => []EarlyOnlyInFlight
<1>1. Init => EarlyOnlyInFlight
  BY DEF Init, EarlyOnlyInFlight
<1>2. OperationInv /\ CountersExact /\ EarlyOnlyInFlight /\ [Next]_vars
        => EarlyOnlyInFlight'
  <2> SUFFICES ASSUME OperationInv, CountersExact, EarlyOnlyInFlight, [Next]_vars
               PROVE  EarlyOnlyInFlight'
    OBVIOUS
  <2>1. ASSUME UNCHANGED early_settlements, Dispatched \subseteq Dispatched'
        PROVE  EarlyOnlyInFlight'
    BY <2>1 DEF EarlyOnlyInFlight, Dispatched
  <2>2. CASE UNCHANGED vars
    BY <2>1, <2>2 DEF vars, opVars, Dispatched
  <2>3. ASSUME NEW o \in Ops, Submit(o)
        PROVE  EarlyOnlyInFlight'
    BY <2>1, <2>3, SubmitCounters DEF Submit, Attach, AdmitCancelled, Enqueue, Refuse
  <2>4. ASSUME NEW o \in Ops, NEW client, Cancel(o, client)
        PROVE  EarlyOnlyInFlight'
    BY <2>1, <2>4, CancelCounters DEF Cancel, RememberIntent, CancelQueued, Detach
  <2>5. ASSUME NEW o \in Ops, CancelVictim(o) \/ RejectVictim(o)
        PROVE  EarlyOnlyInFlight'
    BY <2>1, <2>5, VictimCounters
       DEF CancelVictim, CancelQueued, RejectVictim, RejectBeforeDispatch
  <2>6. ASSUME NEW o \in Ops, NEW outcome, Executed(o, outcome)
        PROVE  EarlyOnlyInFlight'
    <3>1. early_settlements' = [early_settlements EXCEPT ![o] = "none"]
      BY <2>6 DEF Executed, DropEarly
    <3>2. Dispatched' = Dispatched \ {o}
      BY <2>6, ExecutedCounters
    <3>3. QED
      BY <3>1, <3>2 DEF EarlyOnlyInFlight, Dispatched, OperationInv, TypeOK, SettlementTypes
  <2>7. ASSUME NEW o \in Ops, NEW outcome, Settle(o, outcome)
        PROVE  EarlyOnlyInFlight'
    <3>1. Dispatched' = Dispatched
      BY <2>7, SettleCounters
    <3>2. CASE SettleEarly(o, outcome)
      BY <3>1, <3>2 DEF SettleEarly, EarlyOnlyInFlight, Dispatched, OperationInv, TypeOK,
         SettlementTypes
    <3>3. CASE SettleNow(o, outcome)
      BY <2>1, <3>1, <3>3 DEF SettleNow
    <3>4. QED
      BY <2>7, <3>2, <3>3 DEF Settle
  <2>8. ASSUME NEW g \in GroupIds, GroupCommand(g)
        PROVE  EarlyOnlyInFlight'
    BY <2>1, <2>8, GroupCommandQuiet DEF OnlyGroups, opVars, Dispatched
  <2>9. CASE \/ \E principal \in Principals : Disconnect(principal)
             \/ \E b \in Browsers : BrowserLost(b)
             \/ PruneReleased \/ Query \/ Elapse \/ Tick
    <3>1. UNCHANGED early_settlements
      BY <2>9 DEF Disconnect, Detach, BrowserLost, PruneReleased, OnlyGroups, Query, Elapse,
         Tick
    <3>2. QED
      BY <2>1, <2>9, <3>1, OtherCommandQuiet
  <2>10. ASSUME NEW lane \in Lanes, queue[lane] # <<>>, Dequeue(lane)
         PROVE  EarlyOnlyInFlight'
    <3>1. UNCHANGED early_settlements
      BY <2>10 DEF Dequeue, MarkDispatched, RejectBeforeDispatch
    <3>2. Dispatched \subseteq Dispatched'
      BY <2>10, DequeueCounters
    <3>3. QED
      BY <2>1, <3>1, <3>2
  <2>11. CASE Dispatch
    <3>1. CASE DispatchDaemonGlobal
      BY <2>10, <3>1 DEF DispatchDaemonGlobal, DaemonFirst, Lanes
    <3>2. ASSUME NEW t \in Tabs, DispatchTab(t)
          PROVE  EarlyOnlyInFlight'
      BY <2>10, <3>2 DEF DispatchTab, EligibleTab, Lanes
    <3>3. ASSUME NEW b \in Browsers, DispatchBridgeGlobal(b)
          PROVE  EarlyOnlyInFlight'
      BY <2>10, <3>3 DEF DispatchBridgeGlobal, EligibleBrowser, Lanes
    <3>4. CASE DispatchDone
      BY <2>1, <3>4 DEF DispatchDone, opVars, Dispatched
    <3>5. QED
      BY <2>11, <3>1, <3>2, <3>3, <3>4 DEF Dispatch
  <2>12. QED
    BY <2>2, <2>3, <2>4, <2>5, <2>6, <2>7, <2>8, <2>9, <2>11 DEF Next, OperationCommand
<1>3. QED
  BY <1>1, <1>2, CountersCorrect, OperationsInvariant, PTL DEF Spec
===============================================================================
