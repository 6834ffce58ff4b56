-------------------------------- MODULE Repl --------------------------------
(***************************************************************************)
(* The host of node_repl (runtime/cua-node/src/host): RuntimeManager, which*)
(* admits one `js` call at a time and owns the kernel, and KernelChild,    *)
(* which owns one kernel process after another.                            *)
(*                                                                         *)
(* The host is one JavaScript thread.  An asynchronous function runs up to *)
(* an await without interruption; what follows the await is a step of its  *)
(* own.  `pc` of a call says which await it is at, `watch`, `at` and `proc`*)
(* what it awaits.  A step that resumes an await is a microtask: all of    *)
(* them run before the next event of a process, timer or input (Quiet).    *)
(* Lines that arrive together are handled one after the other before any   *)
(* microtask of the first (reading).                                       *)
(*                                                                         *)
(* Kernels (KernelChild objects), processes and calls are numbered in the  *)
(* order of their creation; 0 is null.                                     *)
(***************************************************************************)
EXTENDS Naturals, Sequences

CONSTANTS
  Ids,              \* JSON-RPC ids of js calls; a client may use one again
  Dirs,             \* directories for js_add_node_module_dir
  TombstoneLimit,   \* MAX_CANCELLATION_TOMBSTONES
  Faults,           \* what can go wrong with a process, see FaultKinds
  Commands,         \* the commands the client issues
  Pipelined,        \* those of them that it may issue without waiting
  MaxCalls,         \* bound: commands that make a call
  MaxFaults,        \* bound: crashes and protocol errors
  MaxCancels        \* bound: cancellations

FaultKinds ==
  { "crash",          \* a process that runs a cell or boots exits by itself
    "protocol",       \* ... or breaks the protocol
    "idle_crash",     \* a process that runs no cell exits by itself
    "idle_protocol",  \* ... or breaks the protocol
    "stuck",          \* a killed process outlives both deadlines
    "metadata" }      \* the runtime manifest cannot be read

ASSUME ReplAssumption ==
  /\ Faults \subseteq FaultKinds
  /\ Commands \subseteq {"js", "cancel", "reset", "dir", "close", "suspend"}
  /\ Pipelined \subseteq Commands
  /\ {TombstoneLimit, MaxCalls, MaxFaults, MaxCancels} \subseteq Nat
  /\ TombstoneLimit > 0

Phases == {"metadata", "spawning", "stopping", "ok", "failed"}   \* of startChild
Places == { "term", "startup",                  \* ensureChild
            "got", "stopping", "ready", "running",   \* KernelChild.start, the answer
            "threw", "failing",                 \* the catch block of beginExecution
            "rterm", "rstop",                   \* restart
            "cstart", "cterm",                  \* close
            "done" }
Answers == {"none", "ok", "error", "cancelled", "timeout", "reset", "shutdown"}
-----------------------------------------------------------------------------
VARIABLES
  call,         \* js, reset, dir and close calls; a js call is an ActiveExecution
  kernel,       \* KernelChild objects, with what startChild made of them
  proc,         \* kernel processes
  active, child, startup, termination,       \* fields of RuntimeManager
  generation, shuttingDown, metadata,
  moduleDirs, cancellationTombstones, completedRequestIds,
  reading,      \* the last step handled a line of the input
  faults, cancels

manager == <<active, child, startup, termination, generation, shuttingDown,
             metadata, moduleDirs, cancellationTombstones, completedRequestIds>>
vars == <<call, kernel, proc, manager, reading, faults, cancels>>

Calls == 1 .. Len(call)
Kernels == 1 .. Len(kernel)
Procs == 1 .. Len(proc)
Alive(p) == proc[p].state # "dead"
Seen(s) == {s[i] : i \in 1 .. Len(s)}

NewCall(kind, id, pc, w) ==
  [ kind |-> kind, id |-> id, pc |-> pc, watch |-> w, at |-> 0, proc |-> 0,
    answer |-> "none", settled |-> FALSE, timeoutPending |-> FALSE,
    timer |-> "off", timerWatch |-> 0, suspended |-> FALSE, since |-> Len(proc) ]

NewKernel(gen) ==
  [ phase |-> "metadata", gen |-> gen, proc |-> 0, boot |-> 0, dirs |-> {},
    stop |-> "none", victim |-> 0, term |-> "none" ]

\* Mutant: the environment of a process has no module directories.
BugNewProc(k, dirs) ==
  [ state |-> "booting", kernel |-> k, ready |-> "pending", run |-> 0, dirs |-> {} ]

\* `ready` is the promise that KernelChild.start makes with the process.
NewProc(k, dirs) ==
  [ state |-> "booting", kernel |-> k, ready |-> "pending", run |-> 0, dirs |-> dirs ]

Init ==
  /\ call = <<>> /\ kernel = <<>> /\ proc = <<>>
  /\ active = 0 /\ child = 0 /\ startup = 0 /\ termination = 0
  /\ generation = 0 /\ shuttingDown = FALSE /\ metadata = FALSE
  /\ moduleDirs = {} /\ cancellationTombstones = <<>> /\ completedRequestIds = <<>>
  /\ reading = FALSE /\ faults = 0 /\ cancels = 0
-----------------------------------------------------------------------------
\* What can be resumed.

\* Mutant: the termination is not awaited.
BugTerminated(k) == TRUE
Terminated(k) == k # 0 => kernel[k].term # "pending"
\* Mutant: a failed termination is taken for a finished one.
BugUnkillable(k) == FALSE
Unkillable(k) == k # 0 /\ kernel[k].term = "failed"
\* Mutant: a startup that fails does not wait for the end of its process.
BugOver(k) == kernel[k].phase \in {"stopping", "ok", "failed"}
Over(k) == kernel[k].phase \in {"ok", "failed"}

Resumable(n) ==
  LET c == call[n] IN
    \/ c.pc \in {"term", "rterm", "rstop", "cterm", "failing"} /\ Terminated(c.watch)
    \/ c.pc = "startup" /\ Over(c.watch) /\ startup # c.watch
    \/ c.pc = "cstart" /\ (c.watch # 0 => Over(c.watch))
    \/ c.pc = "stopping" /\ kernel[c.at].stop # "pending"
    \/ c.pc = "ready" /\ proc[c.proc].ready # "pending"
    \/ c.pc \in {"got", "threw"}

TimerResumable(n) == call[n].timer = "waiting" /\ Terminated(call[n].timerWatch)

StartResumable(k) ==
  \/ kernel[k].phase = "metadata" /\ metadata
  \/ kernel[k].phase = "spawning" /\ proc[kernel[k].boot].ready # "pending"
  \/ kernel[k].phase = "stopping" /\ kernel[k].stop # "pending"

Quiet ==
  /\ \A n \in Calls : ~Resumable(n) /\ ~TimerResumable(n)
  /\ \A k \in Kernels : ~StartResumable(k)
  /\ startup # 0 => ~Over(startup)
-----------------------------------------------------------------------------
\* The kernel: what KernelChild does to its process and to those who wait for it.

\* The pending executions and module directories of kernel k are rejected.
Rejected(c, k) ==
  [n \in DOMAIN c |-> IF c[n].at = k /\ c[n].pc = "running"
                        THEN [c[n] EXCEPT !.pc = "threw"] ELSE c[n]]

\* Mutant: terminate does not reject the promise of a start.
BugUnready(p) == proc
Unready(p) == [proc EXCEPT ![p].ready = IF @ = "pending" THEN "rejected" ELSE @]

\* KernelChild.terminate: kills the process, or waits for the one that is being
\* killed.  `latch` says whether the manager keeps the promise.
Terminate(k, c, latch) ==
  IF kernel[k].proc # 0
  THEN /\ kernel' = [kernel EXCEPT ![k] =
             [kernel[k] EXCEPT !.proc = 0, !.stop = "pending", !.victim = kernel[k].proc,
                               !.term = IF latch THEN "pending" ELSE @]]
       /\ proc' = Unready(kernel[k].proc)
       /\ call' = Rejected(c, k)
  ELSE /\ kernel' = IF latch
                      THEN [kernel EXCEPT ![k].term =
                              CASE kernel[k].stop = "none" -> "done"
                                [] kernel[k].stop = "pending" -> "pending"
                                [] OTHER -> "failed"]
                      ELSE kernel
       /\ call' = c
       /\ UNCHANGED proc

\* this.child = null; if (child !== null) this.startTermination(child, ...)
DropChild(c) ==
  /\ child' = 0
  /\ IF child = 0
       THEN call' = c /\ UNCHANGED <<kernel, proc, termination>>
       ELSE Terminate(child, c, TRUE) /\ termination' = child

\* KernelChild.handleExit, with the process killed or gone.
HandleExit(k, kill, p2) ==
  /\ kernel' = [kernel EXCEPT ![k] =
        [kernel[k] EXCEPT !.proc = 0,
                          !.stop = IF kill THEN "pending" ELSE @,
                          !.victim = IF kill THEN kernel[k].proc ELSE @]]
  /\ proc' = [p2 EXCEPT ![kernel[k].proc].ready = IF @ = "pending" THEN "rejected" ELSE @]
  /\ call' = Rejected(call, k)

\* The part of KernelChild.start that spawns.
Spawn(k) ==
  /\ proc' = Append(proc, NewProc(k, kernel[k].dirs))
  /\ kernel' = [kernel EXCEPT ![k].proc = Len(proc) + 1]
-----------------------------------------------------------------------------
\* The manager's answers.

\* Set.delete, for ids in the order in which they were added, each once.
Forget(s, id) ==
  IF id \notin Seen(s) THEN s
  ELSE LET k == CHOOSE i \in 1 .. Len(s) : s[i] = id
       IN SubSeq(s, 1, k - 1) \o SubSeq(s, k + 1, Len(s))

\* Mutant: the history of request ids is not bounded.
BugRemember(s, id) == Append(Forget(s, id), id)
\* The id becomes the last; beyond the limit the first goes.
Remember(s, id) ==
  LET kept == Append(Forget(s, id), id)
  IN IF Len(kept) > TombstoneLimit THEN Tail(kept) ELSE kept

Settled(c, n, answer) ==
  [c EXCEPT ![n] = [c[n] EXCEPT !.settled = TRUE, !.answer = answer, !.timeoutPending = FALSE,
                                !.timer = IF @ = "armed" THEN "off" ELSE @]]
Ended(c, n) == [c EXCEPT ![n].pc = "done"]

\* reset and addNodeModuleDir return or throw.
Return(n, answer) == call' = Settled(Ended(call, n), n, answer)

\* Mutant: the slot is not cleared.
BugFinish(n, answer) ==
  IF active = n /\ ~call[n].settled
  THEN /\ call' = Settled(Ended(call, n), n, answer)
       /\ UNCHANGED active
       /\ completedRequestIds' = Remember(completedRequestIds, call[n].id)
  ELSE call' = Ended(call, n) /\ UNCHANGED <<active, completedRequestIds>>
\* finishExecution: only while the call is active and unsettled.
Finish(n, answer) ==
  IF active = n /\ ~call[n].settled
  THEN /\ call' = Settled(Ended(call, n), n, answer)
       /\ active' = 0
       /\ completedRequestIds' = Remember(completedRequestIds, call[n].id)
  ELSE call' = Ended(call, n) /\ UNCHANGED <<active, completedRequestIds>>
-----------------------------------------------------------------------------
\* Commands.  A client that does not wait may have several read in a row.

Line(name) ==
  /\ name \in Commands
  /\ Quiet \/ (reading /\ name \in Pipelined)
  /\ reading' = (name \in Pipelined)
New == Len(call) < MaxCalls

Execute(id) ==
  /\ Line("js") /\ New /\ ~shuttingDown /\ active = 0
  /\ LET n == Len(call) + 1
         fresh == NewCall("js", id, "term", termination)
     IN IF id \in Seen(cancellationTombstones)
        THEN /\ call' = Append(call, [fresh EXCEPT !.pc = "done", !.settled = TRUE,
                                                   !.answer = "cancelled"])
             /\ UNCHANGED active
        ELSE /\ call' = Append(call, [fresh EXCEPT !.timer = "armed"])
             /\ active' = n
  /\ completedRequestIds' = Forget(completedRequestIds, id)
  /\ cancellationTombstones' = Forget(cancellationTombstones, id)
  /\ UNCHANGED <<kernel, proc, child, startup, termination, generation, shuttingDown,
                 metadata, moduleDirs, faults, cancels>>

Cancel(id) ==
  /\ Line("cancel") /\ cancels < MaxCancels /\ cancels' = cancels + 1
  /\ ~shuttingDown
  /\ \/ /\ active = 0 /\ id \notin Seen(completedRequestIds)
        /\ cancellationTombstones' = Remember(cancellationTombstones, id)
        /\ UNCHANGED <<call, kernel, proc, active, child, termination, completedRequestIds>>
     \/ /\ active # 0 /\ call[active].id = id
        /\ call[active].settled => call[active].timeoutPending
        /\ DropChild(Settled(call, active, "cancelled"))
        /\ active' = 0
        /\ completedRequestIds' = Remember(completedRequestIds, id)
        /\ UNCHANGED cancellationTombstones
  /\ UNCHANGED <<startup, generation, shuttingDown, metadata, moduleDirs, faults>>

\* reset and close reject the active call, unless its timeout is under way.
Dismissed == active # 0 /\ ~call[active].settled

Reset ==
  /\ Line("reset") /\ New /\ ~shuttingDown
  /\ generation' = generation + 1
  /\ call' = Append(IF Dismissed THEN Settled(call, active, "reset") ELSE call,
                    NewCall("reset", "none", "rterm", termination))
  /\ active' = IF Dismissed THEN 0 ELSE active
  /\ UNCHANGED <<kernel, proc, child, startup, termination, shuttingDown, metadata, moduleDirs,
                 cancellationTombstones, completedRequestIds, faults, cancels>>

AddNodeModuleDir(d) ==
  /\ Line("dir") /\ New /\ ~shuttingDown
  /\ LET fresh == NewCall("dir", d, "term", termination)
     IN call' = Append(call, IF d \in moduleDirs
                               THEN [fresh EXCEPT !.pc = "done", !.settled = TRUE, !.answer = "ok"]
                               ELSE fresh)
  /\ moduleDirs' = moduleDirs \cup {d}
  /\ UNCHANGED <<kernel, proc, active, child, startup, termination, generation, shuttingDown,
                 metadata, cancellationTombstones, completedRequestIds, faults, cancels>>

Close ==
  /\ Line("close") /\ ~shuttingDown
  /\ shuttingDown' = TRUE /\ generation' = generation + 1
  /\ cancellationTombstones' = <<>> /\ completedRequestIds' = <<>>
  /\ active' = IF Dismissed THEN 0 ELSE active
  /\ DropChild(Append(IF Dismissed THEN Settled(call, active, "shutdown") ELSE call,
                      NewCall("close", "none", "cstart", startup)))
  /\ UNCHANGED <<startup, metadata, moduleDirs, faults, cancels>>
-----------------------------------------------------------------------------
\* Microtasks: a call goes on after an await.

\* shouldStart of beginExecution; the other calls give ensureChild no condition.
\* Mutant: the condition is not checked again after the awaits.
BugAdmitted(n) == TRUE
Admitted(n) == call[n].kind = "js" => active = n /\ ~call[n].settled /\ ~shuttingDown

At(n, pc, w) == [call EXCEPT ![n] = [@ EXCEPT !.pc = pc, !.watch = w]]

\* ensureChild has awaited the termination.
ResumeEnsureChild(n) ==
  /\ call[n].pc = "term" /\ Terminated(call[n].watch)
  /\ termination' = IF termination = call[n].watch /\ ~Unkillable(call[n].watch)
                      THEN 0 ELSE termination
  /\ IF \/ Unkillable(call[n].watch)
        \/ ~Admitted(n)
        \/ child = 0 /\ shuttingDown
     THEN call' = At(n, "threw", 0) /\ UNCHANGED <<kernel, startup>>
     ELSE IF child # 0
     THEN /\ call' = [At(n, "got", 0) EXCEPT ![n].at = child]
          /\ UNCHANGED <<kernel, startup>>
     ELSE IF startup # 0
     THEN call' = At(n, "startup", startup) /\ UNCHANGED <<kernel, startup>>
     ELSE /\ kernel' = Append(kernel, NewKernel(generation))
          /\ startup' = Len(kernel) + 1
          /\ call' = At(n, "startup", Len(kernel) + 1)
  /\ UNCHANGED <<proc, active, child, generation, shuttingDown, metadata, moduleDirs,
                 cancellationTombstones, completedRequestIds>>

\* ensureChild has awaited a startup: it goes round again, or fails with a
\* startup of the present generation.
ResumeStartup(n) ==
  LET k == call[n].watch IN
  /\ call[n].pc = "startup" /\ Over(k) /\ startup # k
  /\ call' = IF kernel[k].phase = "failed" /\ kernel[k].gen = generation
               THEN At(n, "threw", 0) ELSE At(n, "term", termination)
  /\ UNCHANGED <<kernel, proc, manager>>

\* ensureChild has returned; KernelChild.start follows.
Start(n) ==
  LET k == call[n].at
      StillMine == child = k /\ ~shuttingDown /\ (call[n].kind = "js" => Admitted(n))
  IN
  /\ call[n].pc = "got"
  /\ \/ /\ call[n].kind = "reset"
        /\ Return(n, "ok") /\ UNCHANGED <<kernel, proc>>
     \/ /\ call[n].kind = "js" /\ ~StillMine
        /\ call' = Ended(call, n) /\ UNCHANGED <<kernel, proc>>
     \/ /\ call[n].kind = "dir" /\ ~StillMine
        /\ Return(n, "error") /\ UNCHANGED <<kernel, proc>>
     \/ /\ call[n].kind # "reset" /\ StillMine
        /\ \/ /\ kernel[k].proc # 0
              /\ call' = [At(n, "ready", 0) EXCEPT ![n].proc = kernel[k].proc]
              /\ UNCHANGED <<kernel, proc>>
           \/ /\ kernel[k].proc = 0 /\ kernel[k].stop # "none"
              /\ call' = At(n, "stopping", 0)
              /\ UNCHANGED <<kernel, proc>>
           \/ /\ kernel[k].proc = 0 /\ kernel[k].stop = "none"
              /\ Spawn(k)
              /\ call' = [At(n, "ready", 0) EXCEPT ![n].proc = Len(proc) + 1]
  /\ UNCHANGED manager

\* KernelChild.start has awaited the process it is stopping.  It does not look
\* whether the kernel has been terminated, or started, in the meantime.
Restart(n) ==
  LET k == call[n].at IN
  /\ call[n].pc = "stopping" /\ kernel[k].stop # "pending"
  /\ IF kernel[k].stop = "failed"
       THEN call' = At(n, "threw", 0) /\ UNCHANGED <<kernel, proc>>
       ELSE /\ Spawn(k)
            /\ call' = [At(n, "ready", 0) EXCEPT ![n].proc = Len(proc) + 1]
  /\ UNCHANGED manager

\* The process is ready: the cell or the directory is sent to it.  For a cell
\* that cannot be analysed the result is known at once.
Send(n) ==
  LET k == call[n].at
      ready == proc[call[n].proc].ready = "resolved" /\ kernel[k].proc # 0
      p == kernel[k].proc
  IN
  /\ call[n].pc = "ready" /\ proc[call[n].proc].ready # "pending"
  /\ \/ /\ ~ready
        /\ call' = At(n, "threw", 0)
        /\ UNCHANGED <<proc, active, completedRequestIds>>
     \/ /\ ready
        /\ call' = [At(n, "running", 0) EXCEPT ![n].proc = p]
        /\ proc' = IF call[n].kind = "js" THEN [proc EXCEPT ![p].run = n] ELSE proc
        /\ UNCHANGED <<active, completedRequestIds>>
     \/ /\ ready /\ call[n].kind = "js"
        /\ Finish(n, "ok") /\ UNCHANGED proc
  /\ UNCHANGED <<kernel, child, startup, termination, generation, shuttingDown, metadata,
                 moduleDirs, cancellationTombstones>>

\* The catch block of beginExecution, and what it awaits; the other calls throw.
Catch(n) ==
  /\ call[n].pc = "threw"
  /\ \/ /\ call[n].kind = "js" /\ call[n].settled
        /\ call' = Ended(call, n)
        /\ UNCHANGED <<kernel, proc, active, child, termination, completedRequestIds>>
     \/ /\ call[n].kind = "js" /\ ~call[n].settled
        /\ call[n].at # 0 /\ child = call[n].at
        /\ DropChild(At(n, "failing", child))
        /\ UNCHANGED <<active, completedRequestIds>>
     \/ /\ call[n].kind = "js" /\ ~call[n].settled
        /\ call[n].at # 0 => child # call[n].at
        /\ Finish(n, "error")
        /\ UNCHANGED <<kernel, proc, child, termination>>
     \/ /\ call[n].kind # "js"
        /\ Return(n, "error")
        /\ UNCHANGED <<kernel, proc, active, child, termination, completedRequestIds>>
  /\ UNCHANGED <<startup, generation, shuttingDown, metadata, moduleDirs, cancellationTombstones>>

\* awaitTermination forgets the termination it awaited, unless it failed.
Awaited(w) ==
  termination' = IF termination = w /\ ~Unkillable(w) THEN 0 ELSE termination

Fail(n) ==
  /\ call[n].pc = "failing" /\ Terminated(call[n].watch)
  /\ Awaited(call[n].watch) /\ Finish(n, "error")
  /\ UNCHANGED <<kernel, proc, child, startup, generation, shuttingDown, metadata, moduleDirs,
                 cancellationTombstones>>

\* restart: the last termination, then the present child, then ensureChild.
ResumeRestart(n) ==
  LET w == call[n].watch IN
  /\ call[n].pc \in {"rterm", "rstop"} /\ Terminated(w)
  /\ IF Unkillable(w)
       THEN /\ Return(n, "error")
            /\ UNCHANGED <<kernel, proc, child, termination>>
       ELSE IF call[n].pc = "rterm" /\ child # 0
       THEN DropChild(At(n, "rstop", child))
       ELSE /\ Awaited(w)
            /\ call' = At(n, "term", termination')
            /\ UNCHANGED <<kernel, proc, child>>
  /\ UNCHANGED <<active, startup, generation, shuttingDown, metadata, moduleDirs,
                 cancellationTombstones, completedRequestIds>>

ResumeClose(n) ==
  /\ \/ /\ call[n].pc = "cstart" /\ (call[n].watch # 0 => Over(call[n].watch))
        /\ startup' = 0
        /\ call' = At(n, "cterm", termination)
        /\ UNCHANGED termination
     \/ /\ call[n].pc = "cterm" /\ Terminated(call[n].watch)
        /\ Awaited(call[n].watch)
        /\ Return(n, IF Unkillable(call[n].watch) THEN "error" ELSE "ok")
        /\ UNCHANGED startup
  /\ UNCHANGED <<kernel, proc, active, child, generation, shuttingDown, metadata, moduleDirs,
                 cancellationTombstones, completedRequestIds>>

\* timeout has awaited the termination it started.
ResumeTimeout(n) ==
  LET w == call[n].timerWatch
      off == [call EXCEPT ![n].timer = "off"]
  IN
  /\ TimerResumable(n) /\ Awaited(w)
  /\ IF active = n /\ call[n].timeoutPending
       THEN /\ call' = Settled(off, n, IF Unkillable(w) THEN "error" ELSE "timeout")
            /\ active' = 0
            /\ completedRequestIds' = Remember(completedRequestIds, call[n].id)
       ELSE call' = off /\ UNCHANGED <<active, completedRequestIds>>
  /\ UNCHANGED <<kernel, proc, child, startup, generation, shuttingDown, metadata, moduleDirs,
                 cancellationTombstones>>
-----------------------------------------------------------------------------
\* startChild.

\* The metadata is read from a file the first time, and kept.  Then the kernel
\* object is made, published as the child, and its process spawned.
Spawning(k) ==
  /\ kernel[k].phase = "metadata" /\ (metadata \/ Quiet)
  /\ metadata' = TRUE
  /\ IF shuttingDown \/ kernel[k].gen # generation
     THEN /\ kernel' = [kernel EXCEPT ![k].phase = "failed"]
          /\ UNCHANGED <<proc, child>>
     ELSE /\ kernel' = [kernel EXCEPT ![k] =
                [@ EXCEPT !.phase = "spawning", !.dirs = moduleDirs,
                          !.proc = Len(proc) + 1, !.boot = Len(proc) + 1]]
          /\ proc' = Append(proc, NewProc(k, moduleDirs))
          /\ child' = k
  /\ UNCHANGED <<call, active, startup, termination, generation, shuttingDown, moduleDirs,
                 cancellationTombstones, completedRequestIds>>

MetadataFails(k) ==
  /\ "metadata" \in Faults /\ faults < MaxFaults /\ faults' = faults + 1
  /\ Quiet /\ kernel[k].phase = "metadata" /\ ~metadata
  /\ kernel' = [kernel EXCEPT ![k].phase = "failed"]
  /\ reading' = FALSE
  /\ UNCHANGED <<call, proc, manager, cancels>>

\* child.start() has returned or thrown.
Spawned(k) ==
  LET up == proc[kernel[k].boot].ready = "resolved"
      wanted == ~shuttingDown /\ kernel[k].gen = generation /\ child = k
      gone == kernel[k].proc # 0
  IN
  /\ kernel[k].phase = "spawning" /\ proc[kernel[k].boot].ready # "pending"
  /\ IF up /\ wanted
     THEN /\ kernel' = [kernel EXCEPT ![k].phase = "ok"]
          /\ UNCHANGED <<call, proc, child>>
     ELSE /\ child' = IF child = k THEN 0 ELSE child
          /\ kernel' = [kernel EXCEPT ![k] =
                [kernel[k] EXCEPT !.phase = "stopping", !.proc = 0,
                                  !.stop = IF gone THEN "pending" ELSE @,
                                  !.victim = IF gone THEN kernel[k].proc ELSE @]]
          /\ call' = IF gone THEN Rejected(call, k) ELSE call
          /\ proc' = IF gone THEN Unready(kernel[k].proc) ELSE proc
  /\ UNCHANGED <<active, startup, termination, generation, shuttingDown, metadata, moduleDirs,
                 cancellationTombstones, completedRequestIds>>

\* The catch block of startChild waits for the process, and ignores a failure.
StartFailed(k) ==
  /\ kernel[k].phase = "stopping" /\ kernel[k].stop # "pending"
  /\ kernel' = [kernel EXCEPT ![k].phase = "failed"]
  /\ UNCHANGED <<call, proc, manager>>

ClearStartup ==
  /\ startup # 0 /\ Over(startup)
  /\ startup' = 0
  /\ UNCHANGED <<call, kernel, proc, active, child, termination, generation, shuttingDown,
                 metadata, moduleDirs, cancellationTombstones, completedRequestIds>>
-----------------------------------------------------------------------------
\* Events: processes, timers.  None comes before the microtasks have run.

Event == Quiet /\ reading' = FALSE

\* privileged_bridge_handshake: the promise of the kernel's present process.
Handshake(p) ==
  LET q == kernel[proc[p].kernel].proc
      booted == [proc EXCEPT ![p].state = "up"]
  IN
  /\ Event /\ proc[p].state = "booting"
  /\ proc' = IF q = 0 THEN booted
             ELSE [booted EXCEPT ![q].ready = IF @ = "pending" THEN "resolved" ELSE @]
  /\ UNCHANGED <<call, kernel, manager, faults, cancels>>

\* exec_result of a cell that ended: it finds its promise if there still is one.
Result(p) ==
  LET n == proc[p].run IN
  /\ Event /\ proc[p].state = "up" /\ n # 0
  /\ proc' = [proc EXCEPT ![p].run = 0]
  /\ IF call[n].pc = "running"
       THEN Finish(n, "ok")
       ELSE UNCHANGED <<call, active, completedRequestIds>>
  /\ UNCHANGED <<kernel, child, startup, termination, generation, shuttingDown, metadata,
                 moduleDirs, cancellationTombstones, faults, cancels>>

\* module_dir_result, which comes when no cell keeps the process from it.
DirResult(n) ==
  LET p == call[n].proc IN
  /\ Event /\ call[n].kind = "dir" /\ call[n].pc = "running" /\ proc[p].state = "up"
  /\ proc' = [proc EXCEPT ![p].dirs = @ \cup {call[n].id}]
  /\ Return(n, "ok")
  /\ UNCHANGED <<kernel, manager, faults, cancels>>

\* suspend_timeout and resume_timeout of the running cell.
Suspend(p) ==
  LET n == proc[p].run IN
  /\ "suspend" \in Commands
  /\ Event /\ proc[p].state = "up" /\ n # 0
  /\ active = n /\ ~call[n].settled
  /\ call' = [call EXCEPT ![n] =
        [@ EXCEPT !.suspended = ~call[n].suspended,
                  !.timer = IF call[n].suspended THEN "armed" ELSE "off"]]
  /\ UNCHANGED <<kernel, proc, manager, faults, cancels>>

Timeout(n) ==
  /\ Event /\ call[n].timer = "armed" /\ active = n /\ ~call[n].settled
  /\ DropChild([call EXCEPT ![n] =
        [@ EXCEPT !.settled = TRUE, !.timeoutPending = TRUE, !.timer = "waiting",
                  !.timerWatch = IF child # 0 THEN child ELSE termination]])
  /\ UNCHANGED <<active, startup, generation, shuttingDown, metadata, moduleDirs,
                 cancellationTombstones, completedRequestIds, faults, cancels>>

\* Nobody runs a cell in the kernel or waits for it to start, so that nobody is
\* told when its process fails.
Idle(k) ==
  /\ kernel[k].phase # "spawning"
  /\ \A n \in Calls : ~( /\ call[n].kind = "js" /\ ~call[n].settled
                         /\ call[n].at = k /\ call[n].pc \in {"ready", "running"} )

Fault(p, kind, idle) ==
  /\ (IF Idle(proc[p].kernel) THEN idle ELSE kind) \in Faults
  /\ faults < MaxFaults /\ faults' = faults + 1

\* The process exits: by itself, or because it was killed.
Exit(p) ==
  LET k == proc[p].kernel
      killed == kernel[k].victim = p
      dead == [proc EXCEPT ![p] = [@ EXCEPT !.state = "dead", !.run = 0]]
  IN
  /\ Event /\ Alive(p)
  /\ IF killed THEN UNCHANGED faults ELSE Fault(p, "crash", "idle_crash")
  /\ IF killed /\ kernel[k].stop = "pending"
     THEN /\ kernel' = [kernel EXCEPT ![k] =
                [kernel[k] EXCEPT !.stop = "none", !.term = IF @ = "pending" THEN "done" ELSE @]]
          /\ proc' = dead /\ UNCHANGED call
     ELSE IF kernel[k].proc # 0 THEN HandleExit(k, FALSE, dead)
     ELSE proc' = dead /\ UNCHANGED <<kernel, call>>
  /\ UNCHANGED <<manager, cancels>>

\* A message that is no message, a protocol error, a channel that fails.
ProtocolError(p) ==
  /\ Event /\ Alive(p) /\ kernel[proc[p].kernel].proc = p
  /\ Fault(p, "protocol", "idle_protocol")
  /\ HandleExit(proc[p].kernel, TRUE, proc)
  /\ UNCHANGED <<manager, cancels>>

\* The process has outlived SIGTERM and SIGKILL.
KillDeadline(k) ==
  /\ "stuck" \in Faults /\ faults < MaxFaults /\ faults' = faults + 1
  /\ Event /\ kernel[k].stop = "pending"
  /\ kernel' = [kernel EXCEPT ![k].stop = "failed",
                              ![k].term = IF @ = "pending" THEN "failed" ELSE @]
  /\ UNCHANGED <<call, proc, manager, cancels>>
-----------------------------------------------------------------------------
Command ==
  \/ \E id \in Ids : Execute(id) \/ Cancel(id)
  \/ \E d \in Dirs : AddNodeModuleDir(d)
  \/ Reset \/ Close

Resume(n) ==
  \/ ResumeEnsureChild(n) \/ ResumeStartup(n) \/ Start(n) \/ Restart(n) \/ Send(n)
  \/ Catch(n) \/ Fail(n) \/ ResumeRestart(n) \/ ResumeClose(n) \/ ResumeTimeout(n)

StartUp(k) == Spawning(k) \/ Spawned(k) \/ StartFailed(k)

Microtask ==
  /\ \/ \E n \in Calls : Resume(n)
     \/ \E k \in Kernels : StartUp(k)
     \/ ClearStartup
  /\ reading' = FALSE /\ UNCHANGED <<faults, cancels>>

ProcessEvent(p) == Handshake(p) \/ Result(p) \/ Suspend(p) \/ Exit(p) \/ ProtocolError(p)

Next ==
  \/ Command
  \/ Microtask
  \/ \E p \in Procs : ProcessEvent(p)
  \/ \E n \in Calls : DirResult(n) \/ Timeout(n)
  \/ \E k \in Kernels : MetadataFails(k) \/ KillDeadline(k)

Spec == Init /\ [][Next]_vars

Stopping(p) ==
  kernel[proc[p].kernel].victim = p /\ kernel[proc[p].kernel].stop = "pending"

\* Microtasks run; a process that boots comes up or exits, a killed one exits
\* or outlives the deadlines; timers fire; a process answers about directories.
\* A cell need not end.
LiveSpec ==
  /\ Spec
  /\ WF_vars(Microtask)
  /\ WF_vars(\E p \in Procs : Handshake(p))
  /\ WF_vars(\E p \in Procs : Stopping(p) /\ Exit(p))
  /\ WF_vars(\E n \in Calls : DirResult(n) \/ Timeout(n))
-----------------------------------------------------------------------------
TypeOK ==
  /\ \A n \in Calls :
       /\ call[n].kind \in {"js", "reset", "dir", "close"}
       /\ call[n].pc \in Places /\ call[n].answer \in Answers
       /\ call[n].timer \in {"off", "armed", "waiting"}
       /\ call[n].watch \in 0 .. Len(kernel) /\ call[n].at \in 0 .. Len(kernel)
       /\ call[n].proc \in 0 .. Len(proc)
  /\ \A k \in Kernels :
       /\ kernel[k].phase \in Phases
       /\ {kernel[k].proc, kernel[k].boot, kernel[k].victim} \subseteq 0 .. Len(proc)
       /\ kernel[k].stop \in {"none", "pending", "failed"}
       /\ kernel[k].term \in {"none", "pending", "done", "failed"}
  /\ \A p \in Procs :
       /\ proc[p].state \in {"booting", "up", "dead"}
       /\ proc[p].ready \in {"pending", "resolved", "rejected"}
       /\ proc[p].run \in 0 .. Len(call) /\ proc[p].dirs \subseteq Dirs
  /\ active \in 0 .. Len(call)
  /\ {child, startup, termination} \subseteq 0 .. Len(kernel)
  /\ Len(cancellationTombstones) <= TombstoneLimit
  /\ Len(completedRequestIds) <= TombstoneLimit

\* There are never two kernel processes: a new one starts when the old one is
\* gone, whatever timed out, was cancelled, reset or failed in between
\* (awaitTermination at the head of ensureChild; a kernel that cannot be killed
\* bars the next).
OneKernel == \A p, q \in Procs : Alive(p) /\ Alive(q) => p = q

\* The one slot for a js call is taken exactly as long as its caller waits: no
\* call is left unanswered outside it, and none that was answered keeps it
\* (execute, cancel, timeout, reset, close and finishExecution each clear it).
SlotHeld ==
  \A n \in Calls :
    call[n].kind = "js" => (call[n].answer = "none" <=> active = n)

\* When js_reset returns, no process from before it is left.
ResetFresh ==
  \A n \in Calls :
    call[n].kind = "reset" /\ call[n].answer = "ok" =>
      \A p \in 1 .. call[n].since : ~Alive(p)

\* When close returns without an error, no process is left.
NothingLeft ==
  \A n \in Calls :
    call[n].kind = "close" /\ call[n].answer = "ok" => \A p \in Procs : ~Alive(p)

\* A cell sees every directory whose addition was confirmed before it was sent
\* (moduleDirs outlives the kernel, and a kernel takes all of it). It is about the
\* first request for a directory: a repeated one is answered at once
\* (runtime-manager.ts:290), while the first may still be on its way.
DirsStay ==
  \A p \in Procs :
    Alive(p) /\ proc[p].run # 0 =>
      \A n \in Calls :
        /\ call[n].kind = "dir" /\ call[n].answer = "ok"
        /\ \A m \in 1 .. n - 1 : call[m].kind = "dir" => call[m].id # call[n].id
        => call[n].id \in proc[p].dirs

\* Code is never sent to a kernel once its call was cancelled, timed out, reset
\* or shut down.
NothingRunsLate ==
  [][\A p \in Procs' :
       proc'[p].run # 0 /\ (p \in Procs => proc'[p].run # proc[p].run) =>
         ~call[proc'[p].run].settled]_vars

\* Every js call is answered, unless its cell holds its timer suspended; and
\* every reset, module directory and close returns.
EveryCallAnswered ==
  \A n \in 1 .. MaxCalls + 1 :
    (n \in Calls) ~> (n \in Calls /\ (call[n].answer # "none" \/ call[n].suspended))

\* A cancellation that is left over bars no id that was already answered
\* (completedRequestIds is there to ignore late cancellations).
NoPoison ==
  \A id \in Seen(cancellationTombstones) :
    \A n \in Calls : call[n].kind = "js" /\ call[n].id = id => call[n].answer = "none"

\* A call that nobody cancelled gets its result, or its timeout, when no process
\* fails: what happened to the call before it leaves it usable.
NextCallUsable == \A n \in Calls : call[n].kind = "js" => call[n].answer # "error"
=============================================================================
