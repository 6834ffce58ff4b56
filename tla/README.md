# Verification of Sky CUA

This directory holds TLA+ specifications of the parts of Sky CUA where state is
shared and where order, failure and timing matter most, the model-checking
configurations that exercise them on small instances, and machine-checked
proofs. Sources are cited relative to the repository root; `CP/` stands for
`crates/sky-cua-service/src/browser/control_plane/`, `NODE/` for
`runtime/cua-node/src/`, `JS/` for `packages/sky-cua-js/src/`.

Three subsystems are modelled, each by a specification of its own:

* the *browser control plane* (`Scheduler`): several MCP clients, Codex sessions
  and raw bridge clients share one browser. It decides who may drive which tab,
  in which order requests run, what happens to requests whose outcome got lost,
  and what survives a disconnection or a restart;
* the *node_repl host* (`Repl`, `NativePipe`): one server process runs JavaScript
  cells, one at a time, in a kernel process that may hang, crash, be cancelled,
  reset or replaced, and opens sockets on behalf of the code in the kernel;
* the *desktop action client* (`ActionTransport`): the library by which that code
  sends actions to the desktop service, with retries, deadlines and
  cancellation, and must never carry a click out twice or claim that one did not
  happen when it did.

They touch each other only through sockets of which each models its own end, so
they are not composed into one state machine.

## 1. Inventory

### Control-plane core

| component | state | operations | hard behaviour | what makes it correct |
|---|---|---|---|---|
| scheduler actor (`CP/scheduler.rs`, `CP/scheduler/state/*`, `CP/operation.rs`) | operation records, queues per tab, per browser and for the daemon, in-flight flags, fairness rounds, counters, early settlements, cancellation intents, a ring of finished operations | submit, cancel, executed, settle, tick, group commands, browser lost, client disconnected, the dispatch loop | commands interleave with executions that finish in any order; a settlement may overtake the answer it settles; a cancellation may overtake its submission; retries; limits | operations exclude each other as their scope says; an accepted operation runs at most once; every caller is answered; counters and flags agree with the records; global and tab work do not starve each other |
| group and lease registry (`CP/group.rs`, `CP/lease.rs`) | groups with members, lease (owner, fence, deadline), admission, pending and unknown settlements, deferred admission | create, add member, renew, disconnect, resume, offer/accept/force handoff, end, expire, begin/finish settlement, browser lost, prune | expiry, handoff and end are requested while operations are in flight or unsettled and must take effect later | one owner at a time; stale proofs stay stale; a group is frozen until its last settlement; it is not released under an operation |
| recovery journal (`CP/persistence.rs`, `CP/control.rs`) | one file with ownership hints, a bounded queue to a writer thread | enqueue, write, load, restore suspended | crash between an effect and its journal entry | no restored group is driven before it was resumed; a group with a lost mutation is barred |
| bridge actor (`CP/bridge_actor*`, `browser/transport.rs`) | connection epoch, pending requests, tombstones of requests whose answer got lost | connect, reconnect, request, answer, timeout, settle | reconnection with answers of the former epoch still under way | a late answer settles its own request only, once |
| Chrome host settlement ledger (`crates/sky-cua-chrome-host/src/host*`) | unacknowledged late answers, bounded | store, resend, acknowledge | acknowledgement lost, host or daemon restarted | a stored settlement is delivered until it is acknowledged |
| integration (`CP/integration/*`) | connections per principal, claim reservations, default groups, spawned executions | connect, disconnect, claim, submit, execute, report | reservations across an await; last connection of a principal | an execution always reports an outcome; a reservation does not outlive its request |
| Codex and raw-host compatibility (`CP/integration/codex.rs`, `raw_host.rs`, `codex_browser_compat/`) | sessions, tab bindings | translation into scheduler commands | sessions that end in the middle of a request | same as the scheduler |
| introspection and event ring (`CP/introspection.rs`, `state/introspection.rs`) | bounded ring of events with sequence numbers | record, snapshot | overflow of the window | events in order; idle ticks do not use the window up |
| persistent proxy (`CP/persistent_proxy.rs`) | two sockets | connect, pump, reconnect | – | – |

### JavaScript runtime and client

| component | state | operations | hard behaviour | what makes it correct |
|---|---|---|---|---|
| runtime manager (`NODE/host/runtime-manager.ts`) | the active call, the current kernel, a start and a termination under way, the generation, ids of past cancellations and answers, module directories | execute, cancel, reset, add a module directory, suspend, time out, close | every operation awaits starts and terminations that others began; a call is ended by its result, its timeout, a cancellation, a reset or the death of the kernel, whichever is first | one kernel process at a time; each call answered once and the slot freed; nothing runs for a call that is over; a reset leaves nothing of the past |
| kernel child (`NODE/host/kernel-child.ts`) | the process, the promise of its start, the executions it owes | start, execute, terminate, exit | a process that is being killed while the next one is wanted; one that cannot be killed | as above |
| native pipe broker (`NODE/host/native-pipe-broker.ts`, `createNativePipe` in `NODE/kernel/kernel.ts`) | connections, the active cell; in the kernel, the state of each connection and the requests without an answer | connect, write, close, list, data, loss | connections outlive cells, not processes; both sides keep an idea of the cell a connection works for | data in order and whole; loss reported; every request answered; nothing of one process reaches the next |
| action client (`JS/transport/ndjson-client.ts`, `health.ts`) | a lane of requests, one connection, health, the deadline and abort signal of each request | request, retry, cancel, close | a run that was given up goes on; a reply races the cancellation; the connection fails at any byte | an action takes effect at most once; the answer is true |
| kernel process, module loader (`NODE/kernel/*`) | bindings, modules, the running cell | evaluate a cell | – | modelled as its parent sees it |
| MCP server of node_repl (`NODE/host/mcp-server.ts`) | requests under way | reads lines, calls the runtime manager | lines that arrive together are handled without waiting | the input of `Repl` |

### The rest of the repository

| component | why it is not modelled here |
|---|---|
| browser helpers (`browser/tabs.rs`, `session.rs`, `keepalive.rs`, ...) | I/O around one request |
| daemon, IPC server, session and snapshot stores, approvals | a candidate for a later extension (snapshot cache, approvals); of the IPC server, `ActionTransport` has the loop that serves one connection |
| MCP client, daemon launcher and singleton | candidate (launcher and lock file) |
| isolated desktop | supervises an external Xpra process |
| phone control, Android companion | I/O-bound; the device manager is a candidate |
| overlay | animation and geometry on reals |
| desktop backends (Linux, Windows, COSMIC, capture, input) | platform calls, almost no protocol state |
| action facade (`JS/targets`, `context.ts`, `protocol/generated.ts`) | conversions and generated types around one request |
| phone client (`JS/phone`) | one connection per request, no retries |
| browser-use client (`packages/browser-use/src`) | JSON-RPC over a native pipe; a candidate |
| browser extension bundles (`resources/chrome-extension`) | minified bundles of an upstream extension, kept as data |
| acceptance, verification and packaging tools | sequential scripts |
| model client, scripts | HTTP client, build and packaging |

### How the parts interact

MCP, Codex and raw-host front ends send *commands* over one unbounded FIFO
mailbox (and submissions over a second one, drained first) to the scheduler
actor, which owns the registry and every queue. The actor hands an operation to
the *executor*, a task spawned per operation that talks to the bridge actor,
which talks to the Chrome host. The executor sends `Executed` back; the bridge
actor sends `Settle` for answers that come too late; a one-second timer sends
`Tick`; the last disconnection of a principal sends `DisconnectClient`; a lost
browser sends `BrowserLost` and one `Settle` per outstanding request. After each
command the registry is exported to the journal writer.

The MCP server of node_repl hands each `js` call, reset and directory it reads to
the runtime manager, which starts kernels through a kernel child and sends it one
cell at a time. The kernel talks to the kernel child over an IPC channel: results,
suspensions, and requests of trusted code, among them those of native pipes, which
the broker carries to Unix sockets. The action client runs inside a kernel and
talks to the desktop service over a socket, one request at a time.

`PROJECT.json` lists the hazards of this code at their lines.

## 2. Modules

| module | what it is |
|---|---|
| `Groups` | one entry of the group registry as a record, and every method of `GroupRegistry` and `LeaseSnapshot` as an operator from group to group. No variables. |
| `Scheduler` | the actor: `EXTENDS Groups`, twenty variables, one action per command |
| `AtMostOnce` | the abstract promise to a caller: accepted, started at most once, settled before anything of its group starts |
| `Overtaking` | `Scheduler` with an observer that counts how often the head of a tab is overtaken |
| `MCScheduler`, `MCOvertaking` | instances for TLC: requests, placements, owners |
| `Repl`, `MCRepl` | `RuntimeManager` and `KernelChild`: a call, a kernel object and a process are records that commands, microtasks and events move on |
| `NativePipe`, `MCNativePipe` | the broker, the channel to the kernel, and the kernel's side of a connection |
| `Mutation` | the abstract promise of an action: at most one effect, and what the caller was told is so and stays so |
| `ActionTransport`, `MCActionTransport` | `SkyCuaTransport` and its connections, with the service at their other end |
| `TransportProofs` | `ActionTransport` implements `Mutation`; its types and its lane; no forgotten socket |
| `ReplProofs` | one kernel process, fresh resets, nothing left after a close, nothing run late, no module directory lost: the safety of `Repl` |
| `ReplTypeProofs` | the types of `Repl`, whatever its client, its kernels and its timers do |
| `NativePipeProofs` | data in order, nothing of another process, losses reported, no request lost: the safety of `NativePipe` |
| `SchedulerProofs` | the types of the operators of `Groups`, and of the scheduler; queues, rings, waiters: what it keeps about its operations |
| `SettlementProofs` | counters, frozen groups, proofs that go stale |
| `PromiseProofs` | `Scheduler` implements `AtMostOnce`; exclusion, as long as no browser is lost; whom a group in use belongs to |
| `OvertakingProofs` | global work does not starve tabs |

### Scheduler: state

| specification | code |
|---|---|
| `state`, `proof`, `deadline`, `completion` | `State::operations` (a record that does not exist is `"new"`) |
| `waiting` | operations with at least one waiter in their record |
| `recent` | `State::recent` |
| `queue[l]` | `tab_queues[l]`, `bridges[l].globals`, `daemon_globals` |
| `busy` | `tab_in_flight`, `bridges[..].global_in_flight`, `daemon_global_in_flight` |
| `round[l]` | `bridges[l].tab_round`, `daemon_tab_round` (`Option<HashSet>` as a record `open`, `tabs`) |
| `bridge_dispatch_in_flight`, `queued_by_client`, `in_flight_by_group`, `next_lease`, `early_settlements`, `cancellation_intents`, `cancellation_intent_order` | fields of the same name (the width of a browser is `bridges[b].dispatch_in_flight`) |
| `groups[g]` | `GroupRegistry` for the group: snapshot, lease, pending and unknown settlements, deferred admission |
| `phase`, `victims` | where the actor is inside one iteration of `run_actor`; `ran` is a history variable |

The three kinds of scope (tab, browser, daemon) are *lanes*, which lets one
operator describe what the code repeats for each kind.

### Scheduler: steps

An iteration of `run_actor` awaits nothing, so it is atomic. Commands that touch
many operations, in the arbitrary order of a `HashMap`, are cut into steps that
`phase` puts in sequence and that nothing else interleaves with: the command
(`"idle"` to `"cancelling"`/`"rejecting"`), one step per operation it ends
(`CancelVictim`, `RejectVictim`), and one step per pass of the loop of
`dispatch_ready` (`DispatchTab`, `DispatchBridgeGlobal`, `DispatchDaemonGlobal`,
`DispatchDone`). `"draining"` stands for the submissions the actor admits before
it applies an outcome (`actor.rs:70`). For the commands that also change groups,
the group change comes first in the model; it commutes with the sweep, which
neither reads nor writes groups.

| action | code |
|---|---|
| `Submit` (`Attach`, `AdmitCancelled`, `Enqueue`, `Refuse`) | `State::submit`, `state/admission.rs` |
| `Cancel` | `State::cancel` with the intents of `remember_cancellation_intent` |
| `Executed` (`CompleteTerminal`, `CompleteAmbiguous`, `CompleteSettled`) | `State::complete` |
| `Settle` (`SettleEarly`, `SettleNow`) | `State::settle` |
| `Tick` | `State::tick`: unknown outcomes, then expiry |
| `Elapse` | the clock, as the scheduler learns it |
| `CreateGroup`, `AddMember`, `Renew`, `ResumeRecovered`, `OfferHandoff`, `AcceptHandoff`, `ForceHandoff`, `EndGroup`, `PruneReleased`, `Disconnect`, `BrowserLost` | the commands of `actor.rs` |
| `Query` | a command that reads, or that is refused: it still runs `dispatch_ready` |
| `Dispatch` | `State::dispatch_ready`, `State::next_ready`, `State::mark_dispatched` |

### Scheduler: abstractions

* Time is relative: `expires`, `grace` and `deadline` say what is left according
  to the scheduler's own `now_ms`. Callers that send an older timestamp are not
  distinguished.
* An operation id determines its request: a second request under a known id is
  refused as a collision and changes nothing.
* A caller may hold the proof of the present lease with any fence up to the
  present one. A proof of an earlier lease is refused for the same reason as one
  of an earlier fence.
* Waiters are a set of operations, not of callers.
* A group id embeds its principal and its browser (`CP/integration/runtime.rs`,
  default groups), hence `OwnerOf` and `HomeOf`.
* Operations of the daemon lane name no group (`runtime.rs:773`); operations on
  a browser may name none (`raw_host.rs:505`).
* `OfferHandoff`, `AcceptHandoff`, `ForceHandoff`, `ResumeRecovered` and
  cancellation without a client are commands of the actor that only its tests
  send today. They are modelled, and each run says which commands it enables.
  `TargetLost` and the pre-dispatch failure with proof are sent by tests only
  and are left out.
* Lease ids, fences and revisions are unbounded in the code. `MaxLease`,
  `MaxFence` and `MaxRevision` bound them in the guards of `CreateGroup`,
  `ResumeRecovered`, `AcceptHandoff`, `ForceHandoff`, `EndGroup`, `BrowserLost`
  and `AddMember`.

### Repl

JavaScript runs a function to its next `await` without interruption. A record of
`call`, one for each execution, reset, module directory and close, says at which
await it is (`pc`) and for what it waits (`watch`, `at`, `proc`); the actions are
the stretches between two awaits.

| specification | code |
|---|---|
| `call[n]` with `answer`, `settled`, `timeoutPending`, `timer`, `suspended` | `ActiveExecution` and the promise of its caller; the frames of `restart`, `addNodeModuleDir`, `close` |
| `kernel[k]` with `phase` and `gen` | one run of `startChild`, and the `KernelChild` it made |
| `kernel[k].proc`, `stop`, `victim`, `term` | `child`, `stopping` and the process it stops, the promise of `startTermination` |
| `proc[p]` | a process: `ready`, the promise of `start`; `run`, the cell it was sent; `dirs`, its environment |
| `active`, `child`, `startup`, `termination`, `generation`, `shuttingDown`, `moduleDirs`, `cancellationTombstones`, `completedRequestIds` | fields of `RuntimeManager` of (nearly) the same name |
| `reading` | several lines of input are handled before a microtask |

Commands (`Execute`, `Cancel`, `Reset`, `AddNodeModuleDir`, `Close`) are the
synchronous part of the methods; `Resume...`, `Start`, `Restart`, `Send`, `Catch`,
`Fail` continue after an await; `Spawning`, `Spawned`, `StartFailed` are
`startChild`; `Handshake`, `Result`, `DirResult`, `Suspend`, `Timeout`, `Exit`,
`ProtocolError`, `KillDeadline` are events of processes and timers. A promise that
resolved makes a microtask, and all microtasks run before the next event
(`Quiet`).

Abstractions: the order among microtasks that are ready together is left open;
what a process wrote before it exited and the host had not read is not
delivered afterwards; a call is suspended at most once at a time; the metadata
file is read once; the deadlines of SIGTERM and SIGKILL are one; fetch and
elicitation callbacks are left out. `Pipelined` says which commands a client
sends without waiting for the answer to the former ones: `serve()` handles every
line of a chunk before any microtask.

### NativePipe

The host's side is `live`, `active` and `table` (`connections` of the broker, with
the process that opened each), the kernel's side `running`, `state` (the `state`
of `createConnection`) and `waiters` (`bridgeWaiters`); `up` and `down` are the
channel. `Execute`, `Handshake`, `Exit` are the share of `KernelChild`;
`CreateConnection`, `Write`, `End`, `Listen`, `ListDirectory` what a cell may call;
`HandleExec`, `HandleResponse`, `HandleData`, `HandleClosed` the kernel taking a message, with the
listener's possible answer in the same step (it runs as a microtask);
`HandleLookup`, `HandleWrite`, `HandleClose` the broker's `handle`; `Connect`,
`Connected`, `Verified`, `ConnectFails`, `PeerSends`, `PeerCloses` the socket.

Abstractions: tokens, base64 and the history of request ids are left out (a
message of another process is one that never arrives); code acts only while its
cell runs or as a listener; a socket that was destroyed reports nothing more; the
listeners of `close` may be told twice, which no property mentions.

### ActionTransport

A request is a run (`pc`: queued, connecting, asking for health, waiting for the
action's answer, over) and a caller who may have stopped waiting (`answer`). A
link is a connection with what was last written on it (`wire`) and what the
service made of it. The microtasks between two events of sockets and timers are
one step: nothing else observes the states between them.

Abstractions: of `CancelTurn` the model has only that it is sent on a connection
of its own and answered, refused or lost, not what it does to the service; the
limit on the size of a frame is left out; `linux.ts` passes no abort signals
today, the transport supports them. `safe_after_reconnect` is never sent by the
service of this repository; a reply with it is taken to mean that the action was
not begun. The service executes what it read, once, whatever became of the
connection (`handle_stream` in `crates/sky-cua-service/src/ipc_server.rs`: one line
at a time).

## 3. Runs

| run | instance | shows |
|---|---|---|
| `settlement` | three mutations of one group on two tabs and the browser; clock, disconnection, cancellation, end, settlements | the type invariant; a group is frozen from its first ambiguous outcome to its last settlement, in registry and records alike; counters and flags are exact; no waiter is lost; `Scheduler` implements `AtMostOnce` |
| `lanes` | two clients, two operations of a tab, two of its browser, two of the daemon; cancellation; a ring of one, one operation per tab | exclusion, queues, rings and intents exact; nothing reported as not run has run, no replay while the record is kept; the head of a tab is overtaken at most once by an operation of its browser, and at most once by one of the daemon until that has none left |
| `authority` | a group restored from the journal, two owners, three operations on its tab; handoffs, loss, end, prune, resume, settlements | an operation in flight runs for the owner of its group; no release under an operation; proofs go stale for good |
| `progress` | a tab, two browser and one daemon operation; clock and settlements; fair | every caller is answered unless a settlement never comes |
| `deadlines` | two tabs; clock, disconnection, end, settlements; fair | a pending settlement surfaces; a lease that is orphaned or about to expire ends, by release or by the return of its client, unless a settlement never comes |
| `repl_kernels` | two ids, a history of one; cancellation, suspension, resets; crashes at work and idle, a broken protocol, a process that cannot be killed | one kernel process; resets are fresh; the slot is taken exactly while its caller waits; nothing runs late |
| `repl_answers` | calls, directories, resets and a close, singly or together; cold starts, crashes, timeouts; fair | every caller is answered; nothing survives a close; directories stay |
| `pipes` | one connection number, two cells, two processes, three requests, two items of data; refusal, loss, exit; fair | data in order and whole; the table holds connections of the living process; losses reported; every request answered |
| `transport` | two requests, one of which must not be repeated; each fault, abort and deadline at any point; fair | `ActionTransport` implements `Mutation`; every request with a deadline is settled |
| `transport_retries` | two mutations, up to five failures in a row, no cancellation | retries repeat nothing that was written and leave no socket open |

Two runs show a disagreement between the code and what is written about it:

| run | what happens |
|---|---|
| `lost_exclusion` | The loss of a browser rejects its queued global operations; `reject_before_dispatch` clears the in-flight flag of their lane although another operation of that lane is in flight, and the next one starts beside it. |
| `orphan_kernel` | `KernelChild.start` awaits the end of the old process and does not look again: a call that was cancelled meanwhile spawns a second process beside that of the next call, and nobody holds it. |

The others, with a configuration each, are listed in section 5.

Bounds. Every hazard of the scheduler is a matter of two or three operations: one
in flight, one queued behind it, and one that shares its group or its browser
but not its lane. Three operations, two tabs and one browser give all of these
(`lanes` and `progress` need a second global operation and one of the daemon to
see an alternation). Two owners and two leases are enough for a proof to become
stale and to be tried again; a fence of 4 leaves room for a recovery, two
handoffs and the end of a group. Limits are set to the smallest values that are
reached (`lanes`) or to values that are not (elsewhere). The timers are 1 or 2
units, so that a grace may end before, with or after its lease. What the two browsers of
the code could add is independent of each other except through the daemon lane.

In `Repl` a hazard takes a call, what ends it, and a call that comes after:
`MaxCalls` is 3, with one fault and one cancellation beside them. In `NativePipe` a
connection must be used by a cell after the one that made it, and its number must
be used again by another process: two of each; three requests are a connect, a
write and a close. In `ActionTransport` the second request is there to find what
the first one left; each fault may strike once, at any point, and five times
without cancellation, which uses up every retry.

Fairness. `Scheduler`: the actor does not stop in the middle of an iteration:
weak fairness of `Dispatch` and of the sweeps. The executor bounds each request
by a timeout and reports whatever happens (`CP/integration/executor.rs:202`),
and the mailbox is FIFO, so a dispatched operation's outcome is taken although
other commands keep coming: strong fairness of `Executed` per operation. The
one-second timer ticks and the clock advances: strong fairness of `Tick` and
`Elapse`, for the same reason. Nothing is assumed of clients, nor that a
settlement ever arrives. A panic inside the executor task, which would lose its
report, is not considered.

`progress` excludes cancellation and disconnection: with them a round can stick
(`stuck_round.cfg`), and then a caller does wait for ever. `deadlines` excludes the
loss of a browser: it suspends the leases of its groups, and these wait for their
owners to end them. A client needs no permission to come back: renewal is enabled in
every run whenever the registry accepts it.

`Repl`: microtasks run, a process that boots comes up or exits, a process that is
being killed exits (or the deadline of its kill passes, a fault), timers fire, a
process answers about a directory. A cell need not end, and a client need not send
anything. `NativePipe`: both sides take their messages, a lookup ends, a
connection is made or refused, at the latest by the timer of `connect`. Peers need
do nothing. `ActionTransport`: what is due in the process itself happens: a
request begins when its turn comes, a socket that was destroyed closes, a deadline
fires, `CancelTurn` ends within its second. No connection need be made and the
service need not answer.

## 4. Proofs

TLC checks instances; the theorems hold for every finite set of operations and
for all tabs, browsers, clients, principals, groups, requests, limits and
timers. They assume `TimersAssumption` (timers are positive) and
`SchedulerAssumption`: lanes of different kinds are different; an operation on a
tab names its group (without one `CP/scheduler/state/admission.rs:102` refuses it
and changes nothing that a refusal in the model does not); an operation of the
daemon names none (`CP/integration/runtime.rs:773` is the only place that makes
one, without a browser and hence without a group); limits are positive; and the
set of operation ids is finite (the counters are cardinalities). Nothing else is
assumed: no theorem depends on the bounds `MaxLease`, `MaxFence`, `MaxRevision`,
which only disable commands.

| theorem | states | rests on |
|---|---|---|
| `TypeCorrect` | `TypeOK` | itself |
| `QueuesCorrect`, `RecentCorrect`, `IntentsCorrect`, `WaitersCorrect`, `NoPhantoms` | `QueuesExact`, `RecentExact`, `IntentsExact`, `NoLostWaiter`, `NoPhantomExecution` | `OperationInv` |
| `CountersCorrect` | `CountersExact` | `OperationInv` |
| `RunsOnce`, `EarlyCorrect` | `NoReplay`, `EarlyOnlyInFlight` | `OperationInv`, `CountersExact` |
| `SettlementsCorrect`, `FreezeCorrect` | `SettlementsExact`, `FrozenWhileUnsettled` | `AuthorityInv` |
| `AuthorityFrozen`, `StaleProofs` | `FrozenAuthority`, `ProofsGoStale` | `AuthorityInv` |
| `PromiseKept` | `KeepsPromise`: `Scheduler` implements `AtMostOnce` | `AuthorityInv` |
| `Exclusion`, `LaneFlags` | `Exclusive`, `LaneFlagsExact`, if `"lose"` is not among the commands | `ExclusionInv` |
| `OvertakingBounded` | `OvertakenSeldom`, of `Overtaking` | `OvertakingInv` over `OperationInv` and `CountersExact` |
| `OwnerKeepsGroup` | `RunsForOwner` in every behaviour with `NotReleasedInFlight` | `ForOwner` |
| `OwnLaneNotReleased`, `OwnLaneRunsForOwner` | `NotReleasedInFlight` and `RunsForOwner`, if `OwnLanes` | `OwnInv` |

The inductive invariants, in the order in which they are built:

* `OperationInv` adds two facts to the properties. The victims of a sweep are
  queued when their turn comes (`VictimsQueued`): nothing but the sweep runs
  before it is over. And a record has no completion exactly while the operation
  is new, queued or in flight, and a new or queued operation has not run
  (`RecordsExact`). Without the first, a sweep could cancel what is in flight;
  without the second, a cancelled operation could have run.
* `CountersExact` is inductive over `OperationInv`: what raises a counter takes
  an operation that is not yet counted (it is new, or at the head of a queue,
  hence queued), and what lowers it one that is, so `saturating_sub` never meets
  a zero.
* `AuthorityInv` adds `FrozenGroup` of every group (`unknown` within `pending`;
  unsettled exactly while something is deferred; then present and closed),
  `PresentInFlight` (a group with an operation in flight is still in the
  registry) and `LeasesIssued` (no lease id lies ahead of the counter). The
  second is what makes the freeze work: `begin_settlement` of an absent group
  would record the settlement but defer and close nothing. It holds because
  dispatch checks the group and pruning checks the count in flight, so it needs
  `CountersExact`. Each operator of `Groups` is proved to keep `FrozenGroup` and
  to move the group in a `Steady` way (settlements untouched, fence at most one
  up, a new owner only with a new fence, none while frozen) or to begin or end
  exactly one settlement; each command is then an instance of one of four lemmas
  about steps.
* `PromiseKept` needs of each step only how it moves the state of each operation
  (`Steps`), and of a dispatch that the group is open: hence not frozen, hence by
  `SettlementsExact` without an unsettled operation.
* `ExclusionInv` is `Exclusive` with `LaneFlagsExact` and the absence of the one
  sweep that breaks both: `reject_before_dispatch` of an operation that was
  queued behind one in flight. `lost_exclusion` shows what happens with it, the
  theorem that nothing else does it.
* `OvertakingInv` says whose turn it is. While the head of a tab has been overtaken
  by an operation of its browser, that operation is in flight, or the tab is in
  the round that followed it (`BrowserTurn`), and a round that has tabs left keeps
  the next one back. For the daemon it is the same (`DaemonTurn`), but its round is
  forgotten as soon as none of its operations is queued, so the count must begin
  again there. The third possibility is a browser that was lost: its flags and
  rounds are gone at once, and its queue only in the course of the sweep. No
  operation of it starts in between, since the sweep takes all that is queued
  for a browser and the dispatch loop waits for its end (`SweepInv`). The theorem
  has no hypothesis: it covers every command, outcome and limit, and any number
  of lanes.
* `ForOwner` is `RunsForOwner` for the operations on the browser of a group, too.
  Only an accepted or forced handover and the creation of a group give it
  another owner. The first two refuse a group with an operation in flight, and the
  third takes one that was released; so a release under an operation is the only
  way to break it, and the theorem has no other hypothesis.
* `OwnInv` is about groups with a lane of their own (`OwnLanes`: two operations
  name the same group exactly if they run on the same lane), as in the run
  `authority`. Then one operation of a group at a time is in flight (`Alone`), and
  until it is over its group stays present and settled, and keeps its browser;
  where the loss of a browser has cleared the flag of the lane, or will in the
  sweep under way, the group is closed (`Guarded`), so that nothing else of it is
  dispatched. This holds with every command, the loss of a browser included. It
  is a restriction: a client may drive several tabs of one group, and then
  `released_in_flight` shows that the code does release the group; and if two
  groups named one tab, the loss of a browser would clear a flag that the
  other one relies on.

`TransportProofs` proves `TransportKeepsWord`: `ActionTransport` implements
`Mutation`, for every set of requests and connections, any faults, and any number
of them. It assumes only what `ActionTransport` assumes of its constants. The
inductive invariant `Inv` has five parts: types; `LinksOK`, under which a request
was written to at most one link, and took effect exactly if the service came to
it there; `Waiting`, the request in flight on a link is the one that waits for it;
`NotYet`, a run before its action has been written nowhere and has had no
effect; `Honest`, what a caller was told is true, and told as final only where the
run is over. A step of a run first takes it off its link (`Detached`), and then
settles it (`Settles`), opens a link for it (`Opens`) or writes it to one
(`Writes`); each action is an instance of one of these lemmas, and each lemma
also shows the step of `Mutation`. `NotYet` is what makes retries sound: without it
a request that is written again might have been written before.

On top of `Inv` two more facts are proved. `TransportType` gives `TypeOK`, under the
same assumptions: a run looks at the link it awaits and ends the request at the
head of the lane, so the invariant must say what the lane holds (`LaneOK`: the
requests that are not settled, each once, of which only the first has begun).
`TransportForgetsNoSocket` gives `NoLeak` if no request is given up (`"abort"` and
`"deadline"` are no faults). The reason for that assumption is in the code: a run that
`withDeadline` gave up goes on, and may connect while the next one connects; the
connection made last takes the place of the other, which nobody closes. Without
such a run only the action connection is open, and there is none while one is
made (`Whole`); failures, retries and `close` at any point are covered.

`ReplProofs` is about `Repl`, for every set of ids and directories, every limit,
and any number of calls, faults and cancellations, if `Orderly`: no command is
pipelined, a process that is killed exits (`"stuck"` is no fault) and an idle
kernel does not break the protocol (`"idle_protocol"` is no fault; one that boots
or runs a cell may). Crashes, idle or not, broken handshakes, failures of the metadata,
cancellations, timeouts, suspensions, resets and a close at any point are
covered.

| theorem | states |
|---|---|
| `OneKernelHolds` | `OneKernel` |
| `ResetFreshHolds`, `NothingLeftHolds` | `ResetFresh`, `NothingLeft` |
| `NothingRunsLateHolds` | `NothingRunsLate` |
| `SlotHeldHolds` | `SlotHeld` |
| `DirsStayHolds` | `DirsStay`, if no kernel exits while it is idle |

`OneKernel` is far from inductive, for a step that spawns looks at one kernel
object only. `IInv` says, in `KInv`, who answers for a process that is alive: the
child, a startup that is being undone, or the termination under way, and never
two of them (`Owned`, `Held`); and that whoever waits, waits for the right one
(`Waiters`, `Patient`). `Typed` gives the range of each field in each place of a
call. `PInv` says what a reset (`Fresh`) and a close (`Gone`) have waited for so
far, and that a call which is settled while its handshake is awaited has dropped
its kernel, or somebody is about to (`Late`): nothing is checked between the
handshake and the send, so this is why cancelled code is not sent. The actions of
`Repl` are each shown to be one of thirteen descriptions of a step (`Step`), and
each description to keep `IInv`.

`DirsStay` needs more than that: a process has the directories its kernel was
created with, so no kernel may be given a second process later. Without
`"idle_crash"` a child that has no process is about to be dropped (`Bereft`,
`Broken`), and its second process is never spawned (`NoRespawn`); with it,
`lost_module_dir` refutes the property. The rest is `DirInv`: the
manager knows the directories that have been asked for, and a process that lives
has every one that was confirmed (`Served`). It is about the first request for a
directory: a second request for the same one is answered at once
(`NODE/host/runtime-manager.ts:290`), while the first may still be on its way to
the kernel.

`ReplTypeProofs` proves `TypeOK` of `Repl` without `Orderly`: for every set of commands,
pipelined or not, every fault, and any limits. `TypeOK` refers to what the
code looks up: a step follows the kernel that a call awaits, the process a
kernel booted, the call a process runs. `HostTypes` says in which place of a call,
a kernel or a process such a reference cannot be 0, and that the ids of the two
histories are ids of calls and no more than the limit.

What `Orderly` excludes is where the counterexamples are: in `orphan_kernel` an
idle kernel breaks the protocol, `pipelined_reset` pipelines, and `stuck_boot` has a
process that cannot be killed. The
run `repl_kernels` has such a process too, without a second fault.

`NativePipeProofs` is about `NativePipe`, for any number of processes, cells,
connections, requests and data, and every fault but `"slow"`, a lookup that outlasts
the process that asked for it: `stale_pipe` shows that the table is wrong
then.

| theorem | states |
|---|---|
| `PipeType` | `TypeOK` |
| `PipeInOrder` | `InOrder` |
| `PipeOwnConnections` | `OwnConnections` |
| `PipeLossReported` | `LossReported` |
| `PipeNothingForgotten` | a request that the kernel waits for is always on its way somewhere |

The hard part is that either side acts on what the other side was, and
knows it only from messages that are still in the channel. `Known` says of every
message, lookup and table entry that the kernel did ask for it, and that an answer
that says yes meets the connection it is about. `Once` says that a connection is asked for
once and is in one place: in a message, in a lookup or in the table; so the
answer to it finds no second one. `Sound` says of each connection what is
between the two ends: the items received, those in the channel and those still to come
are the items sent, in order; and where the kernel believes it open and the broker
does not, its loss is in the channel, behind those items. `NothingForgotten` is
the safety part of `EveryRequestAnswered`.

Left to TLC: everything under fairness (`EveryCallerAnswered`,
`SettlementsSurface`, `OrphansEnd`, `EveryCallAnswered`, `EveryRequestSettled`,
`EveryRequestAnswered`: liveness and `ENABLED` are beyond the prover); and, but for
its types, `Repl` beyond `Orderly`.

## 5. Where code and words disagree

Besides the two runs above, these configurations each end in a counterexample.
Most state a sentence of the documentation, a comment or the name of a test.

| configuration (module) | what happens |
|---|---|
| `overtaken_twice` (`MCOvertaking`) | `next_ready` forgets the daemon round whenever no daemon-global operation is queued, also while the tabs in it wait for their browser: a daemon operation, one of the browser and another of the daemon all pass the head of a tab. `docs/features/unified-browser-bridge-control-plane.md:151` permits one. While that head cannot start (its group waits for a settlement, or the width of the browser is used up), daemon operations that are sent one at a time even pass it without bound. `OvertakenSeldom` states what does hold. |
| `released_in_flight` (`MCScheduler`) | `finish_execution` releases an ending group when the first of two operations in flight finishes. |
| `stuck_round` (`MCScheduler`) | A tab whose queued operation is cancelled stays in the fairness round; a global operation waits for it for ever. |
| `quiet_tick` (`MCScheduler`) | `expire` reports a change on every tick for a group whose expiry is already pending. |
| `restored_suspended` (`MCScheduler`) | The disconnection of its owner makes a restored, suspended group an orphan, and the clock releases it without a resumption. |
| `spurious_cancel` (`MCRepl`) | A call is cancelled during a cold start; the next call, which joined that start, fails with the cancellation of the first. |
| `poisoned_id` (`MCRepl`) | A reset does not record the id of the call it rejects, so a late cancellation of it bars the next use of that id. |
| `lost_module_dir` (`MCRepl`) | A kernel that died while idle is started again with the environment it was created with; a directory added since is missing. |
| `pipelined_reset` (`MCRepl`) | A reset and a call read together: the call starts a kernel beside the one that the reset terminates. |
| `stuck_boot` (`MCRepl`) | A kernel that breaks the protocol while it boots and cannot be killed is not kept as a termination: the `catch` of `startChild` ignores the failure to stop it, and the next call starts another kernel beside it. |
| `late_write` (`MCActionTransport`) | A run that was given up while it connected sends its action when the connection is made. |
| `crossed_connection` (`MCActionTransport`) | Such a run installs its connection in the middle of the next request, which then finds it busy. |
| `cancelled_but_done` (`MCActionTransport`) | An action that is finished when it is aborted is reported as cancelled: the status in the answer to `CancelTurn` is not looked at. |
| `stale_pipe` (`MCNativePipe`) | The lookup of a path outlasts the process that asked for it; its connection enters the table of the next process, under a number that one is about to use. |
| `refused_reply` (`MCNativePipe`) | Data that arrive while a cell runs are reported to that cell, and the kernel answers in its name from then on; the broker learns of it only by a request, so that after the cell's end the answers of a listener are refused. |

## 6. Not modelled

* The journal writer, the bridge actor with the ledger of the Chrome host, the
  accounting of connections and the event ring of the control plane. `Scheduler`
  has the effect of the first three on the scheduler (recovered groups, outcomes
  that come late or never, disconnections), not their own protocols. A crash
  between an effect and its journal entry is therefore out of reach here.
* The evaluation of cells and the module loader: the state they keep is that of
  arbitrary JavaScript.
* Conversions, argument checks, generated protocol types, platform calls, drawing:
  no state that steps share.
* Bundles of an upstream browser extension and other generated or vendored
  files, which make up most of the JavaScript in the repository by lines: not
  source of this project.

What would come next, in this order: the journal with crash and restart around
the registry; the bridge actor and the ledger over lossy connections.
