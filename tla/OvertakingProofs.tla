--------------------------- MODULE OvertakingProofs ---------------------------
(***************************************************************************)
(* Global work does not starve tabs.  The invariant says whose turn it is: *)
(* a tab whose head was overtaken by a global operation waits for its end, *)
(* or is in the round of tabs that follows and keeps the next one back.    *)
(* Or its browser is lost, and the sweep will end all that it has queued.  *)
(***************************************************************************)
EXTENDS SettlementProofs, Overtaking

\* The sweep after the loss of a browser ends all that is queued for it.
SweepInv ==
  phase = "rejecting" =>
    \A o \in victims :
      /\ On(o) # Daemon
      /\ \A q \in Queued :
           On(q) # Daemon /\ LaneBrowser(On(q)) = LaneBrowser(On(o)) => q \in victims

Doomed(t) == phase = "rejecting" /\ Entries(queue[t]) \subseteq victims

\* No operation of its browser, or of the daemon, starts before the tab's.
BrowserTurn(t) == BrowserOf[t] \in busy \/ t \in round[BrowserOf[t]].tabs \/ Doomed(t)
DaemonTurn(t) == Daemon \in busy \/ (round[Daemon].open /\ t \in round[Daemon].tabs)

BrowserWaits(t) ==
  \/ overtaken[t]["browser"] = 0
  \/ overtaken[t]["browser"] = 1 /\ queue[t] # <<>> /\ BrowserTurn(t)
DaemonWaits(t) ==
  \/ overtaken[t]["backlog"] = 0
  \/ overtaken[t]["backlog"] = 1 /\ queue[t] # <<>> /\ ~ DaemonIdle /\ DaemonTurn(t)
Waits(t) == BrowserWaits(t) /\ DaemonWaits(t)

OvertakingInv == SweepInv /\ \A t \in Tabs : Waits(t)
-----------------------------------------------------------------------------
(* What a step does to the counts.                                          *)

LEMMA TabLanes ==
  ASSUME NEW t \in Tabs
  PROVE  /\ t \in Lanes /\ BrowserOf[t] \in Browsers /\ BrowserOf[t] \in Lanes
         /\ Daemon \in Lanes /\ Daemon \notin Tabs /\ Daemon \notin Browsers
         /\ BrowserOf[t] \notin Tabs /\ BrowserOf[t] # Daemon /\ BrowserOf[t] # t
         /\ LaneBrowser(t) = BrowserOf[t] /\ LaneBrowser(BrowserOf[t]) = BrowserOf[t]
BY SchedulerAssumption DEF Lanes, LaneBrowser

LEMMA Counts ==
  ASSUME Count, NEW t \in Tabs
  PROVE  /\ overtaken'[t]["browser"] =
              IF ~ SameHead(t) THEN 0
              ELSE IF Starts(BrowserOf[t]) THEN overtaken[t]["browser"] + 1
              ELSE overtaken[t]["browser"]
         /\ overtaken'[t]["backlog"] =
              IF ~ SameHead(t) \/ DaemonIdle' THEN 0
              ELSE IF Starts(Daemon) THEN overtaken[t]["backlog"] + 1
              ELSE overtaken[t]["backlog"]
<1>1. /\ "browser" \in Counted /\ "backlog" \in Counted
      /\ LaneOf(t, "browser") = BrowserOf[t] /\ LaneOf(t, "backlog") = Daemon
  BY DEF Counted, LaneOf
<1>2. \A by \in Counted :
        overtaken'[t][by] =
          IF ~ SameHead(t) \/ (by = "backlog" /\ DaemonIdle') THEN 0
          ELSE IF Starts(LaneOf(t, by)) THEN overtaken[t][by] + 1 ELSE overtaken[t][by]
  BY DEF Count
<1>3. QED
  BY <1>1, <1>2

\* A count grows only where it was 0 and the turn is the tab's from then on; and
\* where it was not, the turn stays the tab's.
LEMMA BrowserKept ==
  ASSUME Count, NEW t \in Tabs, BrowserWaits(t),
         SameHead(t) /\ BrowserTurn(t) => BrowserTurn(t)' /\ ~ Starts(BrowserOf[t]),
         SameHead(t) /\ Starts(BrowserOf[t]) => BrowserTurn(t)'
  PROVE  BrowserWaits(t)'
<1>1. SameHead(t) => queue'[t] # <<>>
  BY DEF SameHead
<1>2. QED
  BY <1>1, Counts DEF BrowserWaits

LEMMA DaemonKept ==
  ASSUME Count, NEW t \in Tabs, DaemonWaits(t),
         SameHead(t) /\ ~ DaemonIdle /\ DaemonTurn(t) /\ ~ DaemonIdle' =>
           DaemonTurn(t)' /\ ~ Starts(Daemon),
         SameHead(t) /\ Starts(Daemon) => DaemonTurn(t)'
  PROVE  DaemonWaits(t)'
<1>1. SameHead(t) => queue'[t] # <<>>
  BY DEF SameHead
<1>2. QED
  BY <1>1, Counts DEF DaemonWaits

LEMMA NoStart ==
  ASSUME Dispatched' \subseteq Dispatched
  PROVE  \A l : ~ Starts(l)
BY DEF Starts, Dispatched

\* Steps that leave the lanes alone but for what is queued in them.
LEMMA QuietTurns ==
  ASSUME Count, NEW t \in Tabs, Waits(t), Dispatched' \subseteq Dispatched,
         UNCHANGED <<busy, round>>, phase # "rejecting"
  PROVE  Waits(t)'
<1>1. ~ Starts(BrowserOf[t]) /\ ~ Starts(Daemon)
  BY NoStart
<1>2. BrowserWaits(t)'
  BY <1>1, BrowserKept DEF Waits, BrowserTurn, Doomed
<1>3. DaemonWaits(t)'
  BY <1>1, DaemonKept DEF Waits, DaemonTurn
<1>4. QED
  BY <1>2, <1>3 DEF Waits
-----------------------------------------------------------------------------
(* The steps that touch the lanes.                                          *)

LEMMA ExecutedTurns ==
  ASSUME OperationInv, CountersExact, OvertakingInv, Count,
         NEW o \in Ops, NEW outcome, Executed(o, outcome)
  PROVE  OvertakingInv'
<1>1. /\ phase # "rejecting" /\ phase' # "rejecting" /\ queue' = queue
      /\ busy' = busy \ {On(o)}
      /\ round' = IF On(o) \in Tabs THEN round
                  ELSE [round EXCEPT ![On(o)] = RoundAfter(On(o))]
  BY DEF Executed, Dispatching, ReleaseExecutorCapacity, BusyWithout
<1>2. \A l : ~ Starts(l)
  BY ExecutedCounters, NoStart
<1>3. round \in [Browsers \cup {Daemon} -> Round] /\ On(o) \in Lanes
  BY RequestType DEF OperationInv, TypeOK, LaneTypes
<1>4. ASSUME NEW t \in Tabs PROVE Waits(t)'
  <2>1. BrowserOf[t] \in Browsers /\ BrowserOf[t] \notin Tabs /\ Daemon \notin Tabs
    BY TabLanes
  <2>2. ASSUME SameHead(t), NEW l \in {BrowserOf[t], Daemon}, On(o) = l
        PROVE  round'[l].open /\ t \in round'[l].tabs
    <3>1. t \in WaitingTabs(l)
      BY <2>2 DEF SameHead, WaitingTabs
    <3>2. round'[l] = RoundAfter(l)
      BY <1>1, <1>3, <2>1, <2>2
    <3>3. QED
      BY <3>1, <3>2 DEF RoundAfter, RoundOf
  <2>3. ASSUME NEW l \in {BrowserOf[t], Daemon}, On(o) # l
        PROVE  round'[l] = round[l] /\ (l \in busy' <=> l \in busy)
    BY <1>1, <1>3, <2>1, <2>3
  <2>4. BrowserWaits(t)'
    <3>1. SameHead(t) /\ BrowserTurn(t) => BrowserTurn(t)'
      BY <1>1, <2>2, <2>3 DEF BrowserTurn, Doomed
    <3>2. QED
      BY <1>2, <3>1, BrowserKept DEF OvertakingInv, Waits
  <2>5. DaemonWaits(t)'
    <3>1. SameHead(t) /\ DaemonTurn(t) => DaemonTurn(t)'
      BY <2>2, <2>3 DEF DaemonTurn
    <3>2. QED
      BY <1>2, <3>1, DaemonKept DEF OvertakingInv, Waits
  <2>6. QED
    BY <2>4, <2>5 DEF Waits
<1>5. QED
  BY <1>1, <1>4 DEF OvertakingInv, SweepInv

LEMMA RejectTurns ==
  ASSUME OperationInv, CountersExact, OvertakingInv, Count, NEW o \in Ops, RejectVictim(o)
  PROVE  OvertakingInv'
<1>1. /\ phase = "rejecting" /\ o \in victims /\ victims' = victims \ {o}
      /\ phase' = IF victims = {o} THEN "dispatching" ELSE phase
      /\ busy' = busy \ {On(o)} /\ round' = round
  BY DEF RejectVictim, Swept, RejectBeforeDispatch
<1>2. victims \subseteq Queued /\ o \in Queued /\ On(o) # Daemon
  BY <1>1 DEF OperationInv, VictimsQueued, OvertakingInv, SweepInv
<1>3. Queued' = Queued \ {o} /\ QueuesExact'
  <2>1. Finish(o, "rejected")
    BY DEF RejectVictim, RejectBeforeDispatch
  <2>2. state[o] = "queued"
    BY <1>2 DEF Queued
  <2>3. Queued' = Queued \ {o}
    BY <2>1, <2>2, FinishQueued DEF OperationInv, TypeOK, Books
  <2>4. QED
    BY <2>3, VictimBooks DEF Books
<1>4. \A l : ~ Starts(l)
  BY VictimCounters, NoStart
<1>5. SweepInv'
  BY <1>1, <1>3 DEF OvertakingInv, SweepInv
<1>6. ASSUME NEW t \in Tabs PROVE Waits(t)'
  <2>1. /\ t \in Lanes /\ BrowserOf[t] # Daemon /\ t # Daemon
        /\ LaneBrowser(t) = BrowserOf[t] /\ LaneBrowser(BrowserOf[t]) = BrowserOf[t]
    BY TabLanes
  <2>2. /\ Entries(queue[t]) = {q \in Queued : On(q) = t}
        /\ Entries(queue'[t]) = {q \in Queued' : On(q) = t}
    BY <1>3, <2>1 DEF OperationInv, Books, QueuesExact, Entries
  <2>3. On(o) = BrowserOf[t] => Doomed(t)
    BY <1>1, <2>1, <2>2 DEF OvertakingInv, SweepInv, Doomed
  <2>4. ASSUME SameHead(t), Doomed(t) PROVE Doomed(t)'
    <3>1. Entries(queue'[t]) \subseteq victims'
      BY <1>1, <1>3, <2>2, <2>4 DEF Doomed
    <3>2. Entries(queue'[t]) # {}
      <4>1. queue'[t] \in Seq(Ops) /\ queue'[t] # <<>>
        BY <2>1, <2>4, NextType DEF OperationInv, TypeOK, LaneTypes, SameHead, Next
      <4>2. 1 \in 1 .. Len(queue'[t])
        BY <4>1
      <4>3. QED
        BY <4>2 DEF Entries
    <3>3. phase' = "rejecting"
      BY <1>1, <3>1, <3>2
    <3>4. QED
      BY <3>1, <3>3 DEF Doomed, Entries
  <2>5. BrowserWaits(t)'
    <3>1. SameHead(t) /\ BrowserTurn(t) => BrowserTurn(t)'
      BY <1>1, <2>3, <2>4 DEF BrowserTurn
    <3>2. QED
      BY <1>4, <3>1, BrowserKept DEF OvertakingInv, Waits
  <2>6. DaemonWaits(t)'
    <3>1. DaemonTurn(t) => DaemonTurn(t)'
      BY <1>1, <1>2 DEF DaemonTurn
    <3>2. QED
      BY <1>4, <3>1, DaemonKept DEF OvertakingInv, Waits
  <2>7. QED
    BY <2>5, <2>6 DEF Waits
<1>7. QED
  BY <1>5, <1>6 DEF OvertakingInv

\* Only the head of the lane can start, the flag of its lane says so, and the head
\* of a tab that was taken is not its head any more.
LEMMA DequeueTurns ==
  ASSUME OperationInv, CountersExact, NEW lane \in Lanes, queue[lane] # <<>>, Dequeue(lane)
  PROVE  /\ phase' = phase /\ ~ SameHead(lane)
         /\ \A l : Starts(l) => l = lane /\ lane \in busy'
         /\ \A l : l # lane => (l \in busy' <=> l \in busy)
         /\ \A l \in Lanes : l # lane => queue'[l] = queue[l]
<1> DEFINE o == Head(queue[lane])
<1>1. /\ queue \in [Lanes -> Seq(Ops)] /\ queue[lane] \in Seq(Ops) /\ Distinct(queue[lane])
      /\ queue' = [queue EXCEPT ![lane] = Tail(@)] /\ phase' = phase
      /\ IF MayDispatch(o) THEN MarkDispatched(o) ELSE RejectBeforeDispatch(o)
  BY DEF OperationInv, TypeOK, LaneTypes, Books, QueuesExact, Dequeue
<1>2. o \in Queued /\ On(o) = lane
      /\ Dispatched' = IF MayDispatch(o) THEN Dispatched \cup {o} ELSE Dispatched
  BY DequeueCounters
<1>3. ~ SameHead(lane)
  <2>1. SUFFICES ASSUME Tail(queue[lane]) # <<>>
                 PROVE  Head(Tail(queue[lane])) # Head(queue[lane])
    BY <1>1 DEF SameHead
  <2>2. PICK rest \in Seq(Ops) : /\ rest = Tail(queue[lane]) /\ Distinct(rest)
                                 /\ Entries(rest) = Entries(queue[lane]) \ {o}
    BY <1>1, TailLists
  <2>3. Head(rest) \in Entries(rest)
    BY <2>1, <2>2, TailLists
  <2>4. QED
    BY <2>2, <2>3
<1> HIDE DEF o
<1>4. ASSUME NEW l, Starts(l) PROVE l = lane /\ lane \in busy'
  <2>1. PICK q \in Ops : On(q) = l /\ q \notin Dispatched /\ q \in Dispatched'
    BY <1>4 DEF Starts, Dispatched
  <2>2. q = o /\ MarkDispatched(o)
    BY <1>1, <1>2, <2>1
  <2>3. QED
    BY <1>2, <2>1, <2>2 DEF MarkDispatched
<1>5. \A l : l # lane => (l \in busy' <=> l \in busy)
  BY <1>1, <1>2 DEF MarkDispatched, RejectBeforeDispatch
<1>6. QED
  BY <1>1, <1>3, <1>4, <1>5

LEMMA DaemonGlobalTurns ==
  ASSUME OperationInv, CountersExact, OvertakingInv, Count, DispatchDaemonGlobal
  PROVE  OvertakingInv'
<1>1. /\ phase = "dispatching" /\ busy = {} /\ ~ round[Daemon].open /\ round' = round
      /\ queue[Daemon] # <<>> /\ Daemon \in Lanes /\ Dequeue(Daemon)
  BY DEF DispatchDaemonGlobal, DaemonFirst, Lanes
<1>2. phase' = phase /\ \A l : Starts(l) => l = Daemon /\ Daemon \in busy'
  BY <1>1, DequeueTurns
<1>3. ASSUME NEW t \in Tabs PROVE Waits(t)'
  <2>1. ~ Starts(BrowserOf[t])
    BY <1>2, TabLanes
  <2>2. BrowserWaits(t)'
    BY <1>1, <2>1, BrowserKept DEF OvertakingInv, Waits, BrowserTurn, Doomed
  <2>3. DaemonWaits(t)'
    BY <1>1, <1>2, DaemonKept DEF OvertakingInv, Waits, DaemonTurn
  <2>4. QED
    BY <2>2, <2>3 DEF Waits
<1>4. QED
  BY <1>1, <1>2, <1>3 DEF OvertakingInv, SweepInv

LEMMA TabTurns ==
  ASSUME OperationInv, CountersExact, OvertakingInv, Count, NEW u \in Tabs, DispatchTab(u)
  PROVE  OvertakingInv'
<1>1. /\ phase = "dispatching" /\ Daemon \notin busy /\ queue[u] # <<>> /\ Dequeue(u)
      /\ round' = [l \in Browsers \cup {Daemon} |->
                     IF l \in {BrowserOf[u], Daemon}
                     THEN [round[l] EXCEPT !.tabs = @ \ {u}] ELSE round[l]]
  BY DEF DispatchTab, Looking, EligibleTab
<1>2. /\ phase' = phase /\ ~ SameHead(u)
      /\ \A l : Starts(l) => l = u
      /\ \A l : l # u => (l \in busy' <=> l \in busy)
  BY <1>1, TabLanes, DequeueTurns
<1>3. ASSUME NEW l \in Browsers \cup {Daemon}
      PROVE  /\ round[l].tabs \ {u} \subseteq round'[l].tabs
             /\ round'[l].open = round[l].open
  <2>1. round[l] \in Round
    BY DEF OperationInv, TypeOK, LaneTypes
  <2>2. PICK r : r = [round[l] EXCEPT !.tabs = @ \ {u}]
    OBVIOUS
  <2>3. r.tabs = round[l].tabs \ {u} /\ r.open = round[l].open
    BY <2>1, <2>2 DEF Round
  <2>4. round'[l] = r \/ round'[l] = round[l]
    BY <1>1, <2>2
  <2>5. QED
    BY <2>3, <2>4
<1>4. ASSUME NEW t \in Tabs PROVE Waits(t)'
  <2>1. /\ BrowserOf[t] \in Browsers /\ BrowserOf[t] # u /\ Daemon # u
        /\ ~ Starts(BrowserOf[t]) /\ ~ Starts(Daemon)
    BY <1>2, TabLanes
  <2>2. SameHead(t) => t # u
    BY <1>2
  <2>3. SameHead(t) /\ BrowserTurn(t) => BrowserTurn(t)'
    BY <1>1, <1>2, <1>3, <2>1, <2>2 DEF BrowserTurn, Doomed
  <2>4. SameHead(t) /\ DaemonTurn(t) => DaemonTurn(t)'
    BY <1>1, <1>3, <2>2 DEF DaemonTurn
  <2>5. QED
    BY <2>1, <2>3, <2>4, BrowserKept, DaemonKept DEF OvertakingInv, Waits
<1>5. QED
  BY <1>1, <1>2, <1>4 DEF OvertakingInv, SweepInv

\* The daemon's round does not end while it has operations queued and tabs left.
LEMMA RoundStays ==
  ASSUME NEW t \in Tabs, Daemon \notin busy, ~ DaemonIdle, DaemonTurn(t)
  PROVE  DaemonRoundAfter = round[Daemon]
BY DEF DaemonIdle, DaemonTurn, DaemonRoundAfter

LEMMA BridgeGlobalTurns ==
  ASSUME OperationInv, CountersExact, OvertakingInv, Count,
         NEW c \in Browsers, DispatchBridgeGlobal(c)
  PROVE  OvertakingInv'
<1>1. /\ phase = "dispatching" /\ Daemon \notin busy /\ c \notin busy /\ round[c].tabs = {}
      /\ queue[c] # <<>> /\ Dequeue(c) /\ c \in Lanes /\ c # Daemon
      /\ round' = [round EXCEPT ![Daemon] = DaemonRoundAfter, ![c] = NoRound]
  BY SchedulerAssumption DEF DispatchBridgeGlobal, Looking, EligibleBrowser, Lanes
<1>2. /\ phase' = phase
      /\ \A l : Starts(l) => l = c /\ c \in busy'
      /\ \A l : l # c => (l \in busy' <=> l \in busy)
  BY <1>1, DequeueTurns
<1>3. /\ round'[Daemon] = DaemonRoundAfter
      /\ \A b \in Browsers : b # c => round'[b] = round[b]
  <2>1. round \in [Browsers \cup {Daemon} -> Round] /\ Daemon \notin Browsers
    BY SchedulerAssumption DEF OperationInv, TypeOK, LaneTypes
  <2> HIDE DEF DaemonRoundAfter
  <2>2. QED
    BY <1>1, <2>1
<1>4. ASSUME NEW t \in Tabs PROVE Waits(t)'
  <2>1. BrowserOf[t] \in Browsers /\ ~ Starts(Daemon)
    BY <1>1, <1>2, TabLanes
  <2>2. BrowserTurn(t) => BrowserTurn(t)' /\ ~ Starts(BrowserOf[t])
    <3> SUFFICES ASSUME BrowserTurn(t) PROVE BrowserTurn(t)' /\ ~ Starts(BrowserOf[t])
      OBVIOUS
    <3>1. BrowserOf[t] \in busy \/ t \in round[BrowserOf[t]].tabs
      BY <1>1 DEF BrowserTurn, Doomed
    <3>2. BrowserOf[t] # c
      BY <1>1, <3>1
    <3>3. round'[BrowserOf[t]] = round[BrowserOf[t]]
      BY <1>3, <2>1, <3>2
    <3>4. BrowserOf[t] \in busy <=> BrowserOf[t] \in busy'
      BY <1>2, <3>2
    <3>5. ~ Starts(BrowserOf[t])
      BY <1>2, <3>2
    <3>6. QED
      BY <3>1, <3>3, <3>4, <3>5 DEF BrowserTurn
  <2>3. Starts(BrowserOf[t]) => BrowserTurn(t)'
    BY <1>2 DEF BrowserTurn
  <2>4. ~ DaemonIdle /\ DaemonTurn(t) => DaemonTurn(t)'
    BY <1>1, <1>3, RoundStays DEF DaemonTurn
  <2>5. QED
    BY <2>1, <2>2, <2>3, <2>4, BrowserKept, DaemonKept DEF OvertakingInv, Waits
<1>5. QED
  BY <1>1, <1>2, <1>4 DEF OvertakingInv, SweepInv

LEMMA DoneTurns ==
  ASSUME OperationInv, OvertakingInv, Count, DispatchDone
  PROVE  OvertakingInv'
<1>1. /\ phase = "dispatching" /\ phase' = "idle" /\ busy' = busy
      /\ \A l : ~ Starts(l)
  BY DEF DispatchDone, opVars, Starts
<1>2. \/ round' = round
      \/ Daemon \notin busy /\ round' = [round EXCEPT ![Daemon] = DaemonRoundAfter]
  BY DEF DispatchDone, Looking
<1>3. /\ round' # round => Daemon \notin busy
      /\ round'[Daemon] \in {round[Daemon], DaemonRoundAfter}
      /\ \A b \in Browsers : round'[b] = round[b]
  <2>1. round \in [Browsers \cup {Daemon} -> Round] /\ Daemon \notin Browsers
    BY SchedulerAssumption DEF OperationInv, TypeOK, LaneTypes
  <2> HIDE DEF DaemonRoundAfter
  <2>2. QED
    BY <1>2, <2>1
<1>4. ASSUME NEW t \in Tabs PROVE Waits(t)'
  <2>1. BrowserTurn(t) => BrowserTurn(t)'
    BY <1>1, <1>3, TabLanes DEF BrowserTurn, Doomed
  <2>2. ~ DaemonIdle /\ DaemonTurn(t) => DaemonTurn(t)'
    BY <1>1, <1>3, RoundStays DEF DaemonTurn
  <2>3. QED
    BY <1>1, <2>1, <2>2, BrowserKept, DaemonKept DEF OvertakingInv, Waits
<1>5. QED
  BY <1>1, <1>4 DEF OvertakingInv, SweepInv
-----------------------------------------------------------------------------
(* The other steps: they leave the flags and the rounds alone.              *)

LEMMA QuietStep ==
  ASSUME OvertakingInv, Count, Dispatched' \subseteq Dispatched, UNCHANGED <<busy, round>>,
         phase # "rejecting", phase' # "rejecting"
  PROVE  OvertakingInv'
BY QuietTurns DEF OvertakingInv, SweepInv

LEMMA BrowserLostTurns ==
  ASSUME OvertakingInv, Count, NEW b \in Browsers, BrowserLost(b)
  PROVE  OvertakingInv'
<1>1. /\ phase # "rejecting" /\ UNCHANGED <<busy, round>>
      /\ \/ phase' # "rejecting"
         \/ victims' = {o \in Queued : On(o) # Daemon /\ LaneBrowser(On(o)) = b}
  BY DEF BrowserLost, Command, Sweep, OnlyGroups, laneVars
<1>2. Queued' = Queued /\ Dispatched' = Dispatched
  BY OtherCommandQuiet
<1>3. SweepInv'
  BY <1>1, <1>2 DEF SweepInv
<1>4. QED
  BY <1>1, <1>2, <1>3, QuietTurns DEF OvertakingInv

LEMMA CommandTurns ==
  ASSUME OperationInv, CountersExact, OvertakingInv, Count,
         \/ \E o \in Ops : OperationCommand(o) \/ CancelVictim(o) \/ RejectVictim(o)
         \/ \E g \in GroupIds : GroupCommand(g)
         \/ \E principal \in Principals : Disconnect(principal)
         \/ \E b \in Browsers : BrowserLost(b)
         \/ PruneReleased \/ Query \/ Elapse \/ Tick
  PROVE  OvertakingInv'
<1>1. ASSUME NEW o \in Ops, Submit(o) PROVE OvertakingInv'
  <2>1. UNCHANGED <<busy, round>> /\ phase # "rejecting" /\ phase' # "rejecting"
    BY <1>1 DEF Submit, Accepting, Attach, AdmitCancelled, Enqueue, Refuse, laneVars
  <2>2. QED
    BY <1>1, <2>1, SubmitCounters, QuietStep
<1>2. ASSUME NEW o \in Ops, NEW client, Cancel(o, client) PROVE OvertakingInv'
  <2>1. UNCHANGED <<busy, round>> /\ phase # "rejecting" /\ phase' # "rejecting"
    BY <1>2 DEF Cancel, Command, Dispatching, RememberIntent, CancelQueued, Detach, laneVars
  <2>2. QED
    BY <1>2, <2>1, CancelCounters, QuietStep
<1>3. ASSUME NEW o \in Ops, NEW outcome, Settle(o, outcome) PROVE OvertakingInv'
  <2>1. UNCHANGED <<busy, round>> /\ phase # "rejecting" /\ phase' # "rejecting"
    BY <1>3 DEF Settle, Command, Dispatching, laneVars
  <2>2. QED
    BY <1>3, <2>1, SettleCounters, QuietStep
<1>4. ASSUME NEW o \in Ops, CancelVictim(o) PROVE OvertakingInv'
  <2>1. UNCHANGED <<busy, round>> /\ phase # "rejecting" /\ phase' # "rejecting"
    BY <1>4 DEF CancelVictim, Swept, CancelQueued
  <2>2. QED
    BY <1>4, <2>1, VictimCounters, QuietStep
<1>5. ASSUME NEW g \in GroupIds, GroupCommand(g) PROVE OvertakingInv'
  <2>1. UNCHANGED <<busy, round>> /\ Dispatched' = Dispatched
    BY <1>5, GroupCommandQuiet DEF OnlyGroups, opVars, laneVars, Dispatched
  <2>2. phase # "rejecting" /\ phase' # "rejecting"
    BY <1>5 DEF GroupCommand, CreateGroup, AddMember, Renew, ResumeRecovered, EndGroup,
       OfferHandoff, ForceHandoff, AcceptHandoff, Command, Dispatching, Sweep
  <2>3. QED
    BY <2>1, <2>2, QuietStep
<1>6. ASSUME \/ \E principal \in Principals : Disconnect(principal)
             \/ PruneReleased \/ Query \/ Elapse \/ Tick
      PROVE  OvertakingInv'
  <2>1. UNCHANGED <<busy, round>> /\ phase # "rejecting" /\ phase' # "rejecting"
    BY <1>6 DEF Disconnect, Command, Detach, Sweep, PruneReleased, OnlyGroups, Query, Elapse,
       Tick, Dispatching, laneVars
  <2>2. QED
    BY <1>6, <2>1, OtherCommandQuiet, QuietStep
<1>7. QED
  BY <1>1, <1>2, <1>3, <1>4, <1>5, <1>6, ExecutedTurns, RejectTurns, BrowserLostTurns
     DEF OperationCommand

LEMMA OvertakingStep ==
  ASSUME OperationInv, CountersExact, OvertakingInv, [Next /\ Count]_observed
  PROVE  OvertakingInv'
<1>1. CASE UNCHANGED observed
  BY <1>1 DEF observed, vars, opVars, laneVars, OvertakingInv, SweepInv, Waits, BrowserWaits,
     DaemonWaits, BrowserTurn, DaemonTurn, Doomed, DaemonIdle, Queued, Entries
<1>2. CASE Count /\ Dispatch
  BY <1>2, DaemonGlobalTurns, TabTurns, BridgeGlobalTurns, DoneTurns DEF Dispatch
<1>3. QED
  BY <1>1, <1>2, CommandTurns DEF Next

\* Whatever is sent, cancelled, lost or left unsettled, and for any number of tabs
\* and browsers: the head of a tab's queue is overtaken by one global operation of
\* its browser at most, and by one of the daemon until that has none (next_ready
\* and release_executor_capacity).
THEOREM OvertakingBounded == ObservedSpec => []OvertakenSeldom
<1>1. ObservedInit => OvertakingInv
  <2> SUFFICES ASSUME ObservedInit PROVE OvertakingInv
    OBVIOUS
  <2>1. \A t \in Tabs : overtaken[t]["browser"] = 0 /\ overtaken[t]["backlog"] = 0
    BY DEF ObservedInit, Counted
  <2>2. QED
    BY <2>1 DEF ObservedInit, Init, OvertakingInv, SweepInv, Waits, BrowserWaits, DaemonWaits
<1>2. OvertakingInv => OvertakenSeldom
  BY DEF OvertakingInv, Waits, BrowserWaits, DaemonWaits, OvertakenSeldom
<1>3. ObservedSpec => Spec
  <2>1. ObservedInit => Init
    BY DEF ObservedInit
  <2>2. [Next /\ Count]_observed => [Next]_vars
    BY DEF observed
  <2>3. QED
    BY <2>1, <2>2, PTL DEF ObservedSpec, Spec
<1>4. QED
  BY <1>1, <1>2, <1>3, OvertakingStep, OperationsInvariant, CountersCorrect, PTL DEF ObservedSpec
===============================================================================
