------------------------------ MODULE Scheduler ------------------------------
(***************************************************************************)
(* The actor of the browser control plane (control_plane/scheduler): one   *)
(* task that owns all scheduling state.  It takes a command (a submission, *)
(* a cancellation, the outcome of an executed operation, a settlement, a   *)
(* group operation, the one-second tick), applies it, and then dispatches  *)
(* every operation that may run before it takes the next command.          *)
(*                                                                         *)
(* The task never awaits anything inside an iteration, so an iteration is  *)
(* not interleaved with anything.  It is written here as a few steps in a  *)
(* row, sequenced by `phase`: the command, the operations it cancels or    *)
(* rejects one by one in the arbitrary order of a HashMap, and the passes  *)
(* of the loop in dispatch_ready.  No step of an iteration may be skipped. *)
(*                                                                         *)
(* A lane is what an operation runs on: a tab, a browser (a bridge-global  *)
(* operation) or the daemon.  queue[l] is tab_queues[l], bridges[l].globals*)
(* or daemon_globals; l \in busy is l \in tab_in_flight,                   *)
(* bridges[l].global_in_flight or daemon_global_in_flight; round[l] is     *)
(* bridges[l].tab_round or daemon_tab_round.                               *)
(***************************************************************************)
EXTENDS Groups, Sequences, FiniteSets

CONSTANTS
  GroupIds,           \* browser-control group ids
  Clients,            \* MCP connections
  Daemon,             \* the lane of daemon-global operations
  NoGroup,            \* the group of an operation that names none
  NoClient,           \* no cancellation intent
  AnyClient,          \* a cancellation that names no client
  BrowserOf,          \* the browser of a tab
  HomeOf,             \* the browser a group id belongs to
  OwnerOf,            \* the principal a group id is created for
  Request,            \* what the operation id stands for (see Requests)
  SettlementWindow,   \* SETTLEMENT_DEADLINE_MS, in clock units
  PerClient,          \* QueueLimits::per_client
  PerTab,             \* QueueLimits::per_tab
  PerBridgeDispatch,  \* QueueLimits::per_bridge_dispatch
  RecentLimit,        \* QueueLimits::recent_operations
  Recovered,          \* groups restored from the recovery journal
  Commands,           \* the commands the environment issues
  Outcomes,           \* the outcomes the executor reports (ExecutorOutcome)
  MaxLease, MaxFence, MaxRevision   \* bounds of the counters of a group

Lanes == Tabs \cup Browsers \cup {Daemon}

Classes == {"ReadOnly", "AbsoluteSet", "Mutation", "BrowserGlobal"}

\* An operation id always comes with the same request: a second request under
\* a known id is refused as a collision and changes nothing.
Requests == [ on : Lanes, group : GroupIds \cup {NoGroup}, client : Clients,
              principal : Principals, class : Classes ]

ASSUME SchedulerAssumption ==
  /\ Tabs \cap Browsers = {} /\ Daemon \notin Tabs \cup Browsers
  /\ NoGroup \notin GroupIds
  /\ NoClient \notin Clients \cup {AnyClient} /\ AnyClient \notin Clients
  /\ BrowserOf \in [Tabs -> Browsers]
  /\ HomeOf \in [GroupIds -> Browsers]
  /\ OwnerOf \in [GroupIds -> Principals]
  /\ Request \in [Ops -> Requests]
  /\ \A o \in Ops : Request[o].on \in Tabs => Request[o].group # NoGroup
  /\ \A o \in Ops : Request[o].on = Daemon => Request[o].group = NoGroup
  /\ IsFiniteSet(Ops)
  /\ SettlementWindow \in Nat \ {0}
  /\ {PerClient, PerTab, PerBridgeDispatch, RecentLimit} \subseteq Nat \ {0}
  /\ {MaxLease, MaxFence, MaxRevision} \subseteq Nat
  /\ Recovered \subseteq GroupIds
  /\ Outcomes \subseteq {"success", "failure", "ambiguous"}

On(o) == Request[o].on
GroupOf(o) == Request[o].group
ClientOf(o) == Request[o].client
PrincipalOf(o) == Request[o].principal
LaneBrowser(l) == IF l \in Tabs THEN BrowserOf[l] ELSE l

\* Operations whose ambiguous outcome has to be settled.
NeedsSettlement(o) == Request[o].class \in {"Mutation", "BrowserGlobal"}

OperationStates == {"new", "queued", "dispatched", "pending", "unknown", "terminal"}

\* Completion: certainty and disposition in one word.
Completions == {"none", "cancelled", "rejected", "detached", "success", "failure",
                "ambiguous", "lost"}

Settlements == {"success", "error", "lost"}                 \* SettlementOutcome

\* Option<HashSet<TabKey>>: the tabs still to be served before the next global
\* operation, or no round at all.
Round == [open : BOOLEAN, tabs : SUBSET Tabs]
NoRound == [open |-> FALSE, tabs |-> {}]
RoundOf(tabs) == [open |-> TRUE, tabs |-> tabs]

NoProof == [lease_id |-> 0, fence |-> 0]
-----------------------------------------------------------------------------
VARIABLES
  phase,        \* where the actor is in its iteration
  victims,      \* operations this iteration still has to cancel or reject
  state,        \* operations[o].state; "new" when there is no record
  proof,        \* operations[o].lease
  deadline,     \* what is left of the settlement deadline
  completion,   \* operations[o].completion
  waiting,      \* operations with a caller still waiting for the answer
  ran,          \* history: operations handed to the executor
  recent,
  queue, busy, round,
  bridge_dispatch_in_flight,
  queued_by_client,
  in_flight_by_group,
  groups,
  next_lease,
  early_settlements,
  cancellation_intents,
  cancellation_intent_order

opVars    == <<state, proof, deadline, completion, waiting, ran, recent>>
laneVars  == <<queue, busy, round>>
countVars == <<bridge_dispatch_in_flight, queued_by_client, in_flight_by_group>>
groupVars == <<groups, next_lease>>
intentVars == <<cancellation_intents, cancellation_intent_order>>
vars == <<phase, victims, opVars, laneVars, countVars, groupVars,
          early_settlements, intentVars>>

Phases == {"idle", "draining", "cancelling", "rejecting", "dispatching"}

ActorTypes == phase \in Phases /\ victims \in SUBSET Ops

OperationTypes ==
  /\ state \in [Ops -> OperationStates]
  /\ proof \in [Ops -> LeaseProof]
  /\ deadline \in [Ops -> 0 .. SettlementWindow]
  /\ completion \in [Ops -> Completions]
  /\ waiting \in SUBSET Ops
  /\ ran \in SUBSET Ops
  /\ recent \in Seq(Ops)

LaneTypes ==
  /\ queue \in [Lanes -> Seq(Ops)]
  /\ busy \in SUBSET Lanes
  /\ round \in [Browsers \cup {Daemon} -> Round]

CountTypes ==
  /\ bridge_dispatch_in_flight \in [Browsers -> Nat]
  /\ queued_by_client \in [Clients -> Nat]
  /\ in_flight_by_group \in [GroupIds -> Nat]

GroupTypes == groups \in [GroupIds -> GroupState] /\ next_lease \in Nat

SettlementTypes == early_settlements \in [Ops -> Settlements \cup {"none"}]

IntentTypes ==
  /\ cancellation_intents \in [Ops -> Clients \cup {NoClient, AnyClient}]
  /\ cancellation_intent_order \in Seq(Ops)

TypeOK ==
  /\ ActorTypes
  /\ OperationTypes
  /\ LaneTypes
  /\ CountTypes
  /\ GroupTypes
  /\ SettlementTypes
  /\ IntentTypes

-----------------------------------------------------------------------------
(* A group no command has created, and one restored by a restart: suspended,*)
(* or barred until its lost mutation is accounted for.                      *)

AbsentGroup(g) ==
  [ present |-> FALSE, browser_instance_id |-> HomeOf[g], members |-> {},
    membership_revision |-> 0, admission |-> "Released",
    offer |-> [target |-> OwnerOf[g], membership_revision |-> 0],
    lease_id |-> 0, principal |-> OwnerOf[g], fence |-> 0,
    lease_state |-> "Released", expires |-> 0, grace |-> 0,
    pending |-> {}, unknown |-> {}, deferred |-> "None" ]

RecoveredGroup(g, tabs, admission) ==
  [AbsentGroup(g) EXCEPT !.present = TRUE, !.members = tabs, !.fence = 2,
                         !.membership_revision = 1, !.admission = admission,
                         !.lease_state = "Suspended"]

RecoveredGroups(g) ==
  { RecoveredGroup(g, tabs, admission) :
      tabs \in SUBSET {t \in Tabs : BrowserOf[t] = HomeOf[g]},
      admission \in {"Suspended", "RecoveryRequired"} }

InitialGroups(g) == IF g \in Recovered THEN RecoveredGroups(g) ELSE {AbsentGroup(g)}

\* The journal is refused when it assigns one tab to two groups.
InitialRegistries ==
  { r \in [GroupIds -> UNION {InitialGroups(g) : g \in GroupIds}] :
      \A g \in GroupIds :
        /\ r[g] \in InitialGroups(g)
        /\ \A h \in GroupIds \ {g} : r[g].members \cap r[h].members = {} }

Init ==
  /\ phase = "idle" /\ victims = {}
  /\ state = [o \in Ops |-> "new"]
  /\ proof = [o \in Ops |-> NoProof]
  /\ deadline = [o \in Ops |-> 0]
  /\ completion = [o \in Ops |-> "none"]
  /\ waiting = {} /\ ran = {} /\ recent = <<>>
  /\ queue = [l \in Lanes |-> <<>>] /\ busy = {}
  /\ round = [l \in Browsers \cup {Daemon} |-> NoRound]
  /\ bridge_dispatch_in_flight = [b \in Browsers |-> 0]
  /\ queued_by_client = [c \in Clients |-> 0]
  /\ in_flight_by_group = [g \in GroupIds |-> 0]
  /\ groups \in InitialRegistries
  /\ next_lease = 0
  /\ early_settlements = [o \in Ops |-> "none"]
  /\ cancellation_intents = [o \in Ops |-> NoClient]
  /\ cancellation_intent_order = <<>>

-----------------------------------------------------------------------------
(* Helpers of the handlers.                                                 *)

\* usize::saturating_sub(1).
Dec(n) == IF n = 0 THEN 0 ELSE n - 1

\* Mutant: the operation stays in its queue.
BugWithout(q, o) == q

\* VecDeque::retain(|queued| queued != o), for a queue that holds o at most once.
Without(q, o) ==
  IF \A i \in 1 .. Len(q) : q[i] # o THEN q
  ELSE LET k == CHOOSE i \in 1 .. Len(q) : q[i] = o
       IN [i \in 1 .. Len(q) - 1 |-> IF i < k THEN q[i] ELSE q[i + 1]]

\* `groups` with the group of operation o, if it has one, replaced.
WithGroup(o, group) ==
  IF GroupOf(o) = NoGroup THEN groups ELSE [groups EXCEPT ![GroupOf(o)] = group]

\* remember() forgets the oldest record of the ring to make room for the new one.
Evicted == { o \in Ops : /\ Len(recent) >= RecentLimit /\ o = Head(recent)
                         /\ state[o] = "terminal" }

\* Mutant: the ring grows one past its limit.
BugRemember(o) ==
  recent' = Append(IF Len(recent) > RecentLimit THEN Tail(recent) ELSE recent, o)

Remember(o) ==
  recent' = Append(IF Len(recent) >= RecentLimit THEN Tail(recent) ELSE recent, o)

\* Operation o ends with completion c, and remember(o) runs.
Finish(o, c) ==
  /\ state' = [q \in Ops |-> IF q = o THEN "terminal"
                             ELSE IF q \in Evicted THEN "new" ELSE state[q]]
  /\ completion' = [q \in Ops |-> IF q = o THEN c
                                  ELSE IF q \in Evicted THEN "none" ELSE completion[q]]
  /\ proof' = [q \in Ops |-> IF q \in {o} \cup Evicted THEN NoProof ELSE proof[q]]
  /\ deadline' = [deadline EXCEPT ![o] = 0]
  /\ ran' = ran \ (Evicted \ {o})
  /\ Remember(o)

\* Mutant: the callers are not answered.
BugAnswer(o) == UNCHANGED waiting

\* Every caller that waits for the operation is sent its completion.
Answer(o) == waiting' = waiting \ {o}

\* Mutant: the slot is not given back.
BugFreeSlot(o) == UNCHANGED queued_by_client

\* The operation leaves the queue limit of its client.
FreeSlot(o) == queued_by_client' = [queued_by_client EXCEPT ![ClientOf(o)] = Dec(@)]

\* Mutant: tabs without work are put in the round too.
BugWaitingTabs(lane) == {t \in Tabs : lane = Daemon \/ BrowserOf[t] = lane}

\* The tabs with work in their queue, of one browser or of all of them.
WaitingTabs(lane) ==
  {t \in Tabs : queue[t] # <<>> /\ (lane = Daemon \/ BrowserOf[t] = lane)}

\* Mutant: no round of tabs follows.
BugRoundAfter(lane) == NoRound

\* The round of tabs that follows a global operation.
RoundAfter(lane) ==
  IF WaitingTabs(lane) = {} THEN NoRound ELSE RoundOf(WaitingTabs(lane))

\* Mutant: the flag stays set.
BugBusyWithout(lane) == busy

\* The in-flight flag of the lane is cleared.
BusyWithout(lane) == busy \ {lane}

ReleaseExecutorCapacity(o) ==
  LET lane == On(o) IN
  /\ busy' = BusyWithout(lane)
  /\ round' = IF lane \in Tabs THEN round ELSE [round EXCEPT ![lane] = RoundAfter(lane)]
  /\ bridge_dispatch_in_flight' =
       IF lane = Daemon THEN bridge_dispatch_in_flight
       ELSE [bridge_dispatch_in_flight EXCEPT ![LaneBrowser(lane)] = Dec(@)]
  /\ in_flight_by_group' =
       IF GroupOf(o) = NoGroup THEN in_flight_by_group
       ELSE [in_flight_by_group EXCEPT ![GroupOf(o)] = Dec(@)]

\* A command the environment may issue now: in the mailbox order, so between
\* two iterations of the actor.
Command(name) == phase = "idle" /\ name \in Commands

Dispatching == phase' = "dispatching" /\ UNCHANGED victims
-----------------------------------------------------------------------------
(* Submissions.  A submission that is already in the ingress when an        *)
(* operation completes is admitted before the completion is applied.        *)

Accepting ==
  /\ phase \in {"idle", "draining"}
  /\ \/ phase = "idle" /\ phase' = "dispatching"
     \/ phase' = "draining" /\ \E o \in Ops : state[o] = "dispatched"
  /\ UNCHANGED victims

\* A known operation: the caller gets its completion, or waits with the others.
Attach(o) ==
  /\ state[o] # "new"
  /\ waiting' = IF completion[o] = "none" THEN waiting \cup {o} ELSE waiting
  /\ UNCHANGED <<state, proof, deadline, completion, ran, recent, laneVars, countVars,
                 groupVars, early_settlements, intentVars>>

\* Mutant: the ring keeps the used intent.
BugForgetIntent(o) ==
  /\ cancellation_intents' = [cancellation_intents EXCEPT ![o] = NoClient]
  /\ UNCHANGED cancellation_intent_order

\* A registration uses the intent up, whether it was meant for its client or not.
ForgetIntent(o) ==
  /\ cancellation_intents' = [cancellation_intents EXCEPT ![o] = NoClient]
  /\ cancellation_intent_order' = Without(cancellation_intent_order, o)

Intended(o) == cancellation_intents[o] \in {AnyClient, ClientOf(o)}

\* It was cancelled before it arrived.
AdmitCancelled(o) ==
  /\ state[o] = "new" /\ Intended(o)
  /\ ForgetIntent(o)
  /\ Finish(o, "cancelled")
  /\ UNCHANGED <<waiting, laneVars, countVars, groupVars, early_settlements>>

\* Mutant: a finished operation is taken for a new one.
BugFresh(o) == state[o] \in {"new", "terminal"} /\ ~ Intended(o)

Fresh(o) == state[o] = "new" /\ ~ Intended(o)

Admissible(o, p) ==
  /\ queued_by_client[ClientOf(o)] < PerClient
  /\ On(o) \in Tabs =>
       /\ Len(queue[On(o)]) < PerTab
       /\ Validates(groups[GroupOf(o)], p, PrincipalOf(o), On(o))
  /\ (On(o) \in Browsers /\ GroupOf(o) # NoGroup) =>
       ValidatesBridgeGlobal(groups[GroupOf(o)], PrincipalOf(o), On(o))

Enqueue(o, p) ==
  /\ Fresh(o)
  /\ Admissible(o, p)
  /\ ForgetIntent(o)
  /\ state' = [state EXCEPT ![o] = "queued"]
  /\ proof' = [proof EXCEPT ![o] = IF On(o) \in Tabs THEN p ELSE NoProof]
  /\ waiting' = waiting \cup {o}
  /\ queued_by_client' = [queued_by_client EXCEPT ![ClientOf(o)] = @ + 1]
  /\ queue' = [queue EXCEPT ![On(o)] = Append(@, o)]
  /\ UNCHANGED <<deadline, completion, ran, recent, busy, round,
                 bridge_dispatch_in_flight, in_flight_by_group, groupVars,
                 early_settlements>>

Refuse(o, p) ==
  /\ Fresh(o)
  /\ ~ Admissible(o, p)
  /\ ForgetIntent(o)
  /\ UNCHANGED <<opVars, laneVars, countVars, groupVars, early_settlements>>

\* The proof of the group's present lease, and stale ones that callers may still
\* hold (a proof of an earlier lease is refused exactly like an earlier fence).
IssuedProofs(g) ==
  IF g = NoGroup THEN {NoProof}
  ELSE {[lease_id |-> groups[g].lease_id, fence |-> f] : f \in 0 .. groups[g].fence}

Submit(o) ==
  /\ Accepting
  /\ \/ Attach(o)
     \/ AdmitCancelled(o)
     \/ \E p \in IssuedProofs(GroupOf(o)) : Enqueue(o, p) \/ Refuse(o, p)
-----------------------------------------------------------------------------
(* Cancellation.                                                            *)

\* The record of a queued operation is dropped with completion "cancelled".
CancelQueued(o) ==
  /\ Finish(o, "cancelled")
  /\ Answer(o)
  /\ queue' = [queue EXCEPT ![On(o)] = Without(@, o)]
  /\ FreeSlot(o)
  /\ UNCHANGED <<busy, round, bridge_dispatch_in_flight, in_flight_by_group, groupVars,
                 early_settlements, intentVars>>

\* An operation nobody submitted yet: the intent is kept, in a bounded ring.
RememberIntent(o, client) ==
  LET known == cancellation_intents[o] # NoClient
      order == cancellation_intent_order
      full  == ~ known /\ Len(order) >= RecentLimit
  IN
  /\ cancellation_intents' =
       [q \in Ops |->
          IF q = o /\ (~ known \/ client = AnyClient) THEN client
          ELSE IF full /\ q = Head(order) THEN NoClient
          ELSE cancellation_intents[q]]
  /\ cancellation_intent_order' =
       IF known THEN order ELSE Append(IF full THEN Tail(order) ELSE order, o)
  /\ UNCHANGED <<opVars, laneVars, countVars, groupVars, early_settlements>>

\* The execution goes on, but nobody waits for it any more.
Detach(ops) ==
  /\ waiting' = waiting \ ops
  /\ UNCHANGED <<state, proof, deadline, completion, ran, recent, laneVars, countVars,
                 early_settlements, intentVars>>

\* Mutant: an operation in flight is reported as cancelled before dispatch.
BugCancel(o, client) ==
  /\ Command("cancel") /\ Dispatching
  /\ \/ state[o] = "new" /\ RememberIntent(o, client)
     \/ /\ state[o] \in {"queued", "dispatched"} /\ client \in {AnyClient, ClientOf(o)}
        /\ CancelQueued(o)

Cancel(o, client) ==
  /\ Command("cancel") /\ Dispatching
  /\ \/ state[o] = "new" /\ RememberIntent(o, client)
     \/ /\ state[o] = "queued" /\ client \in {AnyClient, ClientOf(o)}
        /\ CancelQueued(o)
     \/ /\ state[o] = "dispatched" /\ client \in {AnyClient, ClientOf(o)}
        /\ Detach({o}) /\ UNCHANGED groupVars
-----------------------------------------------------------------------------
(* The executor is done with an operation.                                  *)

\* Mutant: a lost browser ends the operation but not its settlement.
BugSettled(o, s, outcome) ==
  IF outcome = "lost" THEN WithoutBrowserTargets(s, LaneBrowser(On(o)))
  ELSE FinishSettlement(s, o)

\* What a settlement does to the group of its operation before it thaws it.
Settled(o, s, outcome) ==
  FinishSettlement(
    IF outcome = "lost" THEN WithoutBrowserTargets(s, LaneBrowser(On(o))) ELSE s, o)

\* A definitive answer; an ambiguous answer of a harmless operation is final too.
CompleteTerminal(o, outcome) ==
  /\ ~ (outcome = "ambiguous" /\ NeedsSettlement(o))
  /\ Finish(o, outcome)
  /\ groups' = WithGroup(o, FinishExecution(groups[GroupOf(o)]))

\* The mutation may or may not have happened: the group is frozen.
CompleteAmbiguous(o) ==
  /\ NeedsSettlement(o)
  /\ early_settlements[o] \in {"none", "error"}
  /\ state' = [state EXCEPT ![o] = "pending"]
  /\ deadline' = [deadline EXCEPT ![o] = SettlementWindow]
  /\ completion' = [completion EXCEPT ![o] = "detached"]
  /\ groups' = WithGroup(o, BeginSettlement(groups[GroupOf(o)], o))
  /\ UNCHANGED <<proof, ran, recent>>

\* The settlement overtook the ambiguous answer and is applied at once.
CompleteSettled(o) ==
  /\ NeedsSettlement(o)
  /\ early_settlements[o] \in {"success", "lost"}
  /\ Finish(o, early_settlements[o])
  /\ groups' = WithGroup(o, Settled(o, BeginSettlement(groups[GroupOf(o)], o),
                                    early_settlements[o]))

\* Mutant: an early settlement outlives the answer.
BugDropEarly(o) == UNCHANGED early_settlements

DropEarly(o) == early_settlements' = [early_settlements EXCEPT ![o] = "none"]

Executed(o, outcome) ==
  /\ phase \in {"idle", "draining"}
  /\ state[o] = "dispatched"
  /\ ReleaseExecutorCapacity(o)
  /\ \/ CompleteTerminal(o, outcome)
     \/ outcome = "ambiguous" /\ (CompleteAmbiguous(o) \/ CompleteSettled(o))
  /\ Answer(o)
  /\ DropEarly(o)
  /\ Dispatching
  /\ UNCHANGED <<queue, queued_by_client, next_lease, intentVars>>

(***************************************************************************)
(* A settlement arrives: the late answer of the browser, or the loss of    *)
(* the browser the operation ran on.  Only operations that were sent to a  *)
(* browser are settled, so never one of the daemon lane.                   *)
(***************************************************************************)
SettleEarly(o, outcome) ==
  /\ state[o] = "dispatched" /\ NeedsSettlement(o)
  /\ early_settlements' = [early_settlements EXCEPT ![o] = outcome]
  /\ UNCHANGED <<opVars, groups>>

SettleNow(o, outcome) ==
  /\ state[o] \in {"pending", "unknown"}
  /\ outcome # "error"
  /\ Finish(o, outcome)
  /\ groups' = WithGroup(o, Settled(o, groups[GroupOf(o)], outcome))
  /\ UNCHANGED <<waiting, early_settlements>>

Settle(o, outcome) ==
  /\ Command("settle") /\ Dispatching
  /\ On(o) # Daemon
  /\ outcome = "lost" => "lose" \in Commands
  /\ SettleEarly(o, outcome) \/ SettleNow(o, outcome)
  /\ UNCHANGED <<laneVars, countVars, next_lease, intentVars>>
-----------------------------------------------------------------------------
(* Group commands.                                                          *)

OnlyGroups == UNCHANGED <<opVars, laneVars, countVars, early_settlements, intentVars>>

\* Mutant: the lease counter is not advanced, and a lease id is issued twice.
BugCreateGroup(g) ==
  /\ phase = "idle" /\ Dispatching
  /\ Creatable(groups[g]) /\ next_lease < MaxLease
  /\ groups' = [groups EXCEPT ![g] = Created(@, HomeOf[g], OwnerOf[g], next_lease + 1)]
  /\ OnlyGroups /\ UNCHANGED next_lease

CreateGroup(g) ==
  /\ phase = "idle" /\ Dispatching
  /\ Creatable(groups[g]) /\ next_lease < MaxLease
  /\ next_lease' = next_lease + 1
  /\ groups' = [groups EXCEPT ![g] = Created(@, HomeOf[g], OwnerOf[g], next_lease + 1)]
  /\ OnlyGroups

AddMember(g, principal, tab) ==
  /\ phase = "idle" /\ Dispatching
  /\ CanAddMember(groups[g], principal, BrowserOf[tab])
  /\ groups[g].membership_revision < MaxRevision
  /\ groups' = [groups EXCEPT ![g] = WithMember(@, tab)]
  /\ OnlyGroups /\ UNCHANGED next_lease

Renew(g, p, principal) ==
  /\ phase = "idle" /\ Dispatching
  /\ CanRenew(groups[g], p, principal)
  /\ groups' = [groups EXCEPT ![g] = Unexpired(@)]
  /\ OnlyGroups /\ UNCHANGED next_lease

ResumeRecovered(g, principal, members, revision) ==
  /\ Command("resume") /\ Dispatching
  /\ next_lease < MaxLease
  /\ CanResume(groups[g], HomeOf[g], principal, members, revision)
  /\ next_lease' = next_lease + 1
  /\ groups' = [groups EXCEPT ![g] = Resumed(@, next_lease + 1)]
  /\ OnlyGroups

AcceptHandoff(g, target, revision) ==
  /\ Command("handoff") /\ Dispatching
  /\ groups[g].fence < MaxFence
  /\ CanAccept(groups[g], target, revision, in_flight_by_group[g])
  /\ groups' = [groups EXCEPT ![g] = Moved(@, target)]
  /\ OnlyGroups /\ UNCHANGED next_lease

ForceHandoff(g, requester, target, revision) ==
  /\ Command("force") /\ Dispatching
  /\ groups[g].fence < MaxFence
  /\ CanForce(groups[g], requester, target, revision, in_flight_by_group[g])
  /\ groups' = [groups EXCEPT ![g] = Moved(@, target)]
  /\ OnlyGroups /\ UNCHANGED next_lease

PruneReleased ==
  /\ Command("prune") /\ Dispatching
  /\ groups' = [g \in GroupIds |->
                  IF Prunable(groups[g], in_flight_by_group[g])
                  THEN Pruned(groups[g]) ELSE groups[g]]
  /\ OnlyGroups /\ UNCHANGED next_lease

\* Any command that only reads, or that is refused without a change: it still
\* makes the actor look for work.
Query ==
  /\ Command("query") /\ Dispatching
  /\ UNCHANGED <<opVars, laneVars, countVars, groupVars, early_settlements, intentVars>>
-----------------------------------------------------------------------------
(* Commands that end queued operations too.  The group is changed here and  *)
(* the operations are ended by the sweep that follows; neither reads what   *)
(* the other writes.                                                        *)

Sweep(which, ops) ==
  /\ victims' = ops
  /\ phase' = IF ops = {} THEN "dispatching" ELSE which

Queued == {o \in Ops : state[o] = "queued"}

OfferHandoff(g, principal, target, revision) ==
  /\ Command("handoff")
  /\ CanOffer(groups[g], principal, revision)
  /\ groups' = [groups EXCEPT ![g] = Offered(@, target, revision)]
  /\ Sweep("cancelling", {o \in Queued : GroupOf(o) = g})
  /\ OnlyGroups /\ UNCHANGED next_lease

\* The queue is cancelled before the caller's right to end the group is checked.
EndGroup(g, principal) ==
  /\ Command("end") /\ groups[g].fence < MaxFence
  /\ groups' = IF CanEnd(groups[g], principal)
               THEN [groups EXCEPT ![g] = Ended(@, in_flight_by_group[g])] ELSE groups
  /\ Sweep("cancelling", {o \in Queued : GroupOf(o) = g})
  /\ OnlyGroups /\ UNCHANGED next_lease

Disconnect(principal) ==
  /\ Command("disconnect")
  /\ groups' = [g \in GroupIds |-> MarkDisconnected(groups[g], principal)]
  /\ Sweep("cancelling", {o \in Queued : PrincipalOf(o) = principal})
  /\ Detach({o \in Ops : state[o] = "dispatched" /\ PrincipalOf(o) = principal})
  /\ UNCHANGED next_lease

BrowserLost(b) ==
  /\ Command("lose")
  /\ \A g \in GroupIds : groups[g].fence < MaxFence
  /\ groups' = [g \in GroupIds |-> AfterBrowserLost(groups[g], b)]
  /\ Sweep("rejecting", {o \in Queued : On(o) # Daemon /\ LaneBrowser(On(o)) = b})
  /\ OnlyGroups /\ UNCHANGED next_lease

Swept(o) ==
  /\ o \in victims
  /\ victims' = victims \ {o}
  /\ phase' = IF victims = {o} THEN "dispatching" ELSE phase

CancelVictim(o) == phase = "cancelling" /\ Swept(o) /\ CancelQueued(o)

\* reject_before_dispatch ends an operation the actor will not run.  It also
\* clears the in-flight flag of the operation's lane.
RejectBeforeDispatch(o) ==
  /\ Finish(o, "rejected")
  /\ Answer(o)
  /\ busy' = busy \ {On(o)}
  /\ FreeSlot(o)
  /\ UNCHANGED <<bridge_dispatch_in_flight, in_flight_by_group, groupVars,
                 early_settlements, intentVars>>

RejectVictim(o) ==
  /\ phase = "rejecting" /\ Swept(o)
  /\ RejectBeforeDispatch(o)
  /\ queue' = [queue EXCEPT ![On(o)] = Without(@, o)]
  /\ UNCHANGED round
-----------------------------------------------------------------------------
(* The clock and the one-second tick.                                       *)

Elapse ==
  /\ phase = "idle" /\ "clock" \in Commands
  /\ groups' = [g \in GroupIds |-> Older(groups[g])]
  /\ deadline' = [o \in Ops |-> Dec(deadline[o])]
  /\ UNCHANGED <<phase, victims, state, proof, completion, waiting, ran, recent, laneVars,
                 countVars, next_lease, early_settlements, intentVars>>

\* Mutant: the deadline is looked for on the wrong operations.
BugOverdue == {o \in Ops : state[o] = "unknown" /\ deadline[o] = 0}

Overdue == {o \in Ops : state[o] = "pending" /\ deadline[o] = 0}

\* The settlements whose deadline passed are marked unknown, then leases expire.
Ticked(g) == Expire(MarkUnknown(groups[g], {o \in Overdue : GroupOf(o) = g}),
                    in_flight_by_group[g])

Tick ==
  /\ phase = "idle" /\ Dispatching
  /\ state' = [o \in Ops |-> IF o \in Overdue THEN "unknown" ELSE state[o]]
  /\ groups' = [g \in GroupIds |-> Ticked(g)]
  /\ UNCHANGED <<proof, deadline, completion, waiting, ran, recent, laneVars, countVars,
                 next_lease, early_settlements, intentVars>>
-----------------------------------------------------------------------------
(* dispatch_ready: one pass of its loop per step.                           *)

InRound(lane, tab) == tab \in round[lane].tabs

\* Daemon-global operations wait, and no round of tabs is under way.
DaemonFirst == queue[Daemon] # <<>> /\ ~ round[Daemon].open

EligibleTab(t) ==
  LET b == BrowserOf[t] IN
  /\ queue[t] # <<>> /\ t \notin busy
  /\ bridge_dispatch_in_flight[b] < PerBridgeDispatch
  /\ ~ HasUnresolved(groups[GroupOf(Head(queue[t]))])
  /\ queue[Daemon] # <<>> => InRound(Daemon, t)
  /\ b \notin busy
  /\ queue[b] # <<>> => InRound(b, t)

ActiveFor(b) == \E t \in busy \cap Tabs : BrowserOf[t] = b

\* Mutant: a global operation starts while tabs are running.
BugEligibleBrowser(b) ==
  /\ queue[b] # <<>> /\ b \notin busy
  /\ round[b].tabs = {}

EligibleBrowser(b) ==
  /\ queue[b] # <<>> /\ b \notin busy
  /\ ~ ActiveFor(b)
  /\ round[b].tabs = {}

MayDispatch(o) ==
  /\ On(o) \in Tabs =>
       Validates(groups[GroupOf(o)], proof[o], PrincipalOf(o), On(o))
  /\ (On(o) \in Browsers /\ GroupOf(o) # NoGroup) =>
       ValidatesBridgeGlobal(groups[GroupOf(o)], PrincipalOf(o), On(o))

\* The operation is handed to the executor.  An operation on a tab renews the
\* lease it was admitted under.
MarkDispatched(o) ==
  LET lane == On(o) IN
  /\ state' = [state EXCEPT ![o] = "dispatched"]
  /\ ran' = ran \cup {o}
  /\ busy' = busy \cup {lane}
  /\ FreeSlot(o)
  /\ in_flight_by_group' =
       IF GroupOf(o) = NoGroup THEN in_flight_by_group
       ELSE [in_flight_by_group EXCEPT ![GroupOf(o)] = @ + 1]
  /\ bridge_dispatch_in_flight' =
       IF lane = Daemon THEN bridge_dispatch_in_flight
       ELSE [bridge_dispatch_in_flight EXCEPT ![LaneBrowser(lane)] = @ + 1]
  /\ groups' = IF lane \in Tabs /\ CanRenew(groups[GroupOf(o)], proof[o], PrincipalOf(o))
               THEN [groups EXCEPT ![GroupOf(o)] = Unexpired(@)] ELSE groups
  /\ UNCHANGED <<proof, deadline, completion, waiting, recent, next_lease,
                 early_settlements, intentVars>>

\* The head of a lane is taken, and run or turned away.
Dequeue(lane) ==
  LET o == Head(queue[lane]) IN
  /\ queue' = [queue EXCEPT ![lane] = Tail(@)]
  /\ IF MayDispatch(o) THEN MarkDispatched(o) ELSE RejectBeforeDispatch(o)
  /\ UNCHANGED <<phase, victims>>

DispatchDaemonGlobal ==
  /\ phase = "dispatching"
  /\ DaemonFirst /\ busy = {}
  /\ Dequeue(Daemon)
  /\ UNCHANGED round

Looking == phase = "dispatching" /\ Daemon \notin busy /\ ~ DaemonFirst

DispatchTab(t) ==
  /\ Looking
  /\ EligibleTab(t)
  /\ round' = [l \in Browsers \cup {Daemon} |->
                 IF l \in {BrowserOf[t], Daemon}
                 THEN [round[l] EXCEPT !.tabs = @ \ {t}] ELSE round[l]]
  /\ Dequeue(t)

\* No tab can go: the daemon's round of tabs is over when it is empty and no tab
\* runs, or when no daemon-global operation waits any more.
DaemonRoundAfter ==
  IF queue[Daemon] = <<>> \/ (round[Daemon].tabs = {} /\ busy \cap Tabs = {})
  THEN NoRound ELSE round[Daemon]

DispatchBridgeGlobal(b) ==
  /\ Looking
  /\ \A t \in Tabs : ~ EligibleTab(t)
  /\ EligibleBrowser(b)
  /\ round' = [round EXCEPT ![Daemon] = DaemonRoundAfter, ![b] = NoRound]
  /\ Dequeue(b)

\* next_ready returns None, and the actor waits for its next command.
DispatchDone ==
  /\ phase = "dispatching" /\ phase' = "idle"
  /\ \/ Daemon \in busy /\ UNCHANGED round
     \/ Daemon \notin busy /\ DaemonFirst /\ busy # {} /\ UNCHANGED round
     \/ /\ Looking
        /\ \A t \in Tabs : ~ EligibleTab(t)
        /\ \A b \in Browsers : ~ EligibleBrowser(b)
        /\ round' = [round EXCEPT ![Daemon] = DaemonRoundAfter]
  /\ UNCHANGED <<victims, opVars, queue, busy, countVars, groupVars, early_settlements,
                 intentVars>>

Dispatch ==
  \/ DispatchDaemonGlobal
  \/ \E t \in Tabs : DispatchTab(t)
  \/ \E b \in Browsers : DispatchBridgeGlobal(b)
  \/ DispatchDone
-----------------------------------------------------------------------------
TabsOf(g) == {t \in Tabs : BrowserOf[t] = HomeOf[g]}

GroupCommand(g) ==
  \/ CreateGroup(g)
  \/ \E principal \in Principals :
       \/ \E t \in Tabs : AddMember(g, principal, t)
       \/ \E p \in IssuedProofs(g) : Renew(g, p, principal)
       \/ \E members \in SUBSET TabsOf(g), revision \in 0 .. MaxRevision :
            ResumeRecovered(g, principal, members, revision)
       \/ EndGroup(g, principal)
       \/ \E target \in Principals, revision \in 0 .. MaxRevision :
            \/ OfferHandoff(g, principal, target, revision)
            \/ ForceHandoff(g, principal, target, revision)
       \/ \E revision \in 0 .. MaxRevision : AcceptHandoff(g, principal, revision)

OperationCommand(o) ==
  \/ Submit(o)
  \/ \E client \in Clients : Cancel(o, client)
  \/ \E outcome \in Outcomes : Executed(o, outcome)
  \/ \E outcome \in Settlements : Settle(o, outcome)

Next ==
  \/ \E o \in Ops : OperationCommand(o) \/ CancelVictim(o) \/ RejectVictim(o)
  \/ \E g \in GroupIds : GroupCommand(g)
  \/ \E principal \in Principals : Disconnect(principal)
  \/ \E b \in Browsers : BrowserLost(b)
  \/ PruneReleased
  \/ Query
  \/ Elapse
  \/ Tick
  \/ Dispatch

Spec == Init /\ [][Next]_vars
-----------------------------------------------------------------------------
(* Safety.                                                                  *)

Dispatched == {o \in Ops : state[o] = "dispatched"}
Unsettled == {o \in Ops : state[o] \in {"pending", "unknown"}}
Entries(q) == {q[i] : i \in 1 .. Len(q)}
Distinct(q) == \A i, j \in 1 .. Len(q) : q[i] = q[j] => i = j

\* The counters that admission and dispatch trust (queued_by_client,
\* in_flight_by_group, bridge_dispatch_in_flight) are exactly what the records
\* say, so no saturating_sub ever hides a slot lost or given back twice.
CountersExact ==
  /\ \A c \in Clients :
       queued_by_client[c] = Cardinality({o \in Queued : ClientOf(o) = c})
  /\ \A g \in GroupIds :
       in_flight_by_group[g] = Cardinality({o \in Dispatched : GroupOf(o) = g})
  /\ \A b \in Browsers :
       bridge_dispatch_in_flight[b] =
         Cardinality({o \in Dispatched : On(o) # Daemon /\ LaneBrowser(On(o)) = b})

\* An operation is queued exactly when it is in the queue of its own lane, once.
QueuesExact ==
  \A l \in Lanes : /\ Distinct(queue[l])
                   /\ Entries(queue[l]) = {o \in Queued : On(o) = l}

\* The ring of remembered operations holds every finished one exactly once, and
\* never more of them than its limit.
RecentExact ==
  /\ Distinct(recent) /\ Len(recent) <= RecentLimit
  /\ Entries(recent) = {o \in Ops : state[o] = "terminal"}

\* Cancellation intents are kept for unknown operations only, in a bounded ring
\* that lists each of them once.
IntentsExact ==
  LET order == cancellation_intent_order IN
  /\ Distinct(order) /\ Len(order) <= RecentLimit
  /\ Entries(order) = {o \in Ops : cancellation_intents[o] # NoClient}
  /\ \A o \in Entries(order) : state[o] = "new"

\* A caller waits only for an operation that can still answer: cancellation,
\* rejection, completion and settlement leave no waiter behind.
NoLostWaiter == \A o \in waiting : state[o] \in {"queued", "dispatched"}

\* An operation reported as cancelled or rejected before dispatch never reached
\* the executor.
NoPhantomExecution ==
  \A o \in Ops : completion[o] \in {"cancelled", "rejected"} => o \notin ran

\* An operation that ran is not run a second time while its record is kept.
NoReplay ==
  [][\A o \in ran : state'[o] = "dispatched" => state[o] = "dispatched"]_vars

\* One operation at a time on a tab; a bridge-global operation alone on its
\* browser; a daemon-global operation alone.
Exclusive ==
  \A o, q \in Dispatched : o # q =>
    /\ On(o) # On(q)
    /\ On(o) # Daemon
    /\ On(o) \in Browsers /\ On(q) # Daemon => LaneBrowser(On(q)) # On(o)

\* The in-flight flags say exactly which lanes have an operation in flight.
LaneFlagsExact == busy = {On(o) : o \in Dispatched}

\* The unresolved settlements of a group are exactly its operations whose outcome
\* is still unknown, in the registry and in the operation records alike.
SettlementsExact ==
  \A g \in GroupIds :
    /\ groups[g].pending = {o \in Unsettled : GroupOf(o) = g}
    /\ groups[g].unknown = {o \in Unsettled : GroupOf(o) = g /\ state[o] = "unknown"}

\* While an outcome is unknown the group admits nothing, is not released, and
\* remembers what to do when the outcome is known.
FrozenWhileUnsettled ==
  \A g \in GroupIds :
    LET s == groups[g] IN
    /\ HasUnresolved(s) =>
         /\ s.present
         /\ s.admission \in {"SettlementPending", "RecoveryRequired", "ExpiryPending"}
    /\ HasUnresolved(s) <=> s.deferred # "None"

\* Until its last settlement a group keeps its owner and its lease: it neither
\* expires nor changes hands.
FrozenAuthority ==
  [][\A g \in GroupIds :
       HasUnresolved(groups[g]) /\ HasUnresolved(groups'[g]) =>
         /\ groups'[g].principal = groups[g].principal
         /\ groups'[g].lease_id = groups[g].lease_id
         /\ groups'[g].lease_state = "Released" => groups[g].lease_state = "Released"]_vars

\* The owner of a group changes only together with its lease or its fence, which
\* only grow: a proof that became stale stays stale.
ProofsGoStale ==
  [][\A g \in GroupIds :
       LET s == groups[g]  t == groups'[g] IN
       s.present /\ t.present =>
         /\ t.lease_id > s.lease_id \/ (t.lease_id = s.lease_id /\ t.fence >= s.fence)
         /\ t.principal # s.principal => Proof(t) # Proof(s)]_vars

\* An operation in flight on a tab works for the owner of the tab's group: the
\* group does not change hands under it.
RunsForOwner ==
  \A o \in Dispatched : On(o) \in Tabs => groups[GroupOf(o)].principal = PrincipalOf(o)

\* A group is not released while one of its operations is in flight or unsettled.
NotReleasedInFlight ==
  \A o \in Dispatched \cup Unsettled :
    GroupOf(o) # NoGroup => groups[GroupOf(o)].admission # "Released"

\* A settlement that overtakes the answer is kept only until the answer comes.
EarlyOnlyInFlight == \A o \in Ops : early_settlements[o] # "none" => state[o] = "dispatched"

\* The tick reports an expiry exactly when it changes a lease: an idle tick must
\* not use up the bounded window of events.
QuietTick == \A g \in GroupIds :
  ExpireReports(groups[g]) => Expire(groups[g], in_flight_by_group[g]) # groups[g]

\* A group restored by a restart stays suspended until it is resumed explicitly.
RecoveredStaySuspended ==
  [][\A g \in GroupIds : groups[g].admission = "Suspended" =>
       groups'[g].admission \in {"Suspended", "Open"}]_vars
-----------------------------------------------------------------------------
(***************************************************************************)
(* Fairness and liveness.  The actor does not stop inside an iteration.    *)
(* The executor bounds every request by a timeout, so every dispatched     *)
(* operation sends its outcome; the mailbox is FIFO, so the outcome, like  *)
(* the tick of the one-second timer, is taken at some point although other *)
(* commands keep coming (hence strong fairness).  Nothing is assumed of    *)
(* the clients.                                                            *)
(***************************************************************************)
Fairness ==
  /\ WF_vars(Dispatch)
  /\ WF_vars(\E o \in Ops : CancelVictim(o) \/ RejectVictim(o))
  /\ \A o \in Ops : SF_vars(\E outcome \in Outcomes : Executed(o, outcome))
  /\ SF_vars(Tick)
  /\ SF_vars(Elapse)

LiveSpec == Spec /\ Fairness

\* No caller waits for ever: tab work and global work do not starve each other, and
\* only a settlement that never comes may hold a queue up.
EveryCallerAnswered ==
  \A o \in Ops :
    []<>(o \notin waiting \/ \E g \in GroupIds : HasUnresolved(groups[g]))

\* A global operation of a browser is not left waiting for ever for a round of tabs
\* when none of the browser's tabs has an operation left to run.
GlobalsAnswered ==
  \A o \in Ops : On(o) \in Browsers =>
    []<>(o \notin waiting \/ \E t \in Tabs : BrowserOf[t] = On(o) /\ queue[t] # <<>>)

\* An unsettled operation does not stay merely pending: it is settled, or its
\* deadline turns it unknown.
SettlementsSurface == \A o \in Ops : state[o] = "pending" ~> state[o] # "pending"

\* The lease of a client that went away, or one that is about to expire, does end:
\* the group is released, or the client came back in time.  Only a settlement that
\* never comes puts it off; expire() comes back to the group once the last one has
\* come.  (The loss of its browser suspends a lease, until its owner ends it.)
OrphansEnd ==
  \A g \in GroupIds :
    groups[g].lease_state \in {"OrphanedGrace", "ExpiryPending"} ~>
      \/ groups[g].lease_state \in {"Active", "Released"}
      \/ []HasUnresolved(groups[g])
-----------------------------------------------------------------------------
(* The scheduler keeps the promise of AtMostOnce.                           *)

StatusOf(o) ==
  CASE state[o] = "new" -> "unknown"
    [] state[o] = "queued" -> "accepted"
    [] state[o] = "dispatched" -> "running"
    [] state[o] \in {"pending", "unknown"} -> "unsettled"
    [] state[o] = "terminal" -> "finished"

SameFrozenGroup(o, q) ==
  On(o) # Daemon /\ GroupOf(o) # NoGroup /\ GroupOf(o) = GroupOf(q)

Promise == INSTANCE AtMostOnce WITH
  status <- [o \in Ops |-> StatusOf(o)],
  Harmless <- {o \in Ops : ~ NeedsSettlement(o)},
  Conflicts <- SameFrozenGroup

\* Every step of the scheduler is a step of the promise, or none at all.
KeepsPromise == Promise!Spec
=============================================================================
