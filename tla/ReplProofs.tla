----------------------------- MODULE ReplProofs -----------------------------
(***************************************************************************)
(* Proofs about the host of node_repl (Repl), if (Orderly)                 *)
(*   - the client waits for the answer to each command,                    *)
(*   - the process of a kernel does go when it is killed, and              *)
(*   - no kernel breaks the protocol while it is idle.                     *)
(* Without the third there can be two kernel processes: orphan_kernel.cfg. *)
(*                                                                         *)
(* The invariant has four parts.  Typed says what the fields of calls,     *)
(* kernels and processes range over in each place.  KInv says who answers  *)
(* for a process that is alive: the child, a startup that is being undone, *)
(* or the termination that is under way, and never two of them.  Victims   *)
(* tells the process of a kernel from the one that it kills.  PInv says    *)
(* what a reset, a close and a cancelled cell have waited for so far.      *)
(*                                                                         *)
(* The steps of Repl are many and the invariant is long, so they meet in   *)
(* the middle: each step of Repl is shown to be one of thirteen            *)
(* descriptions (Micro, Outer, Dropped, Created, ..., see Step), and each  *)
(* description to keep the invariant.                                      *)
(***************************************************************************)
EXTENDS Repl, TLAPS

-----------------------------------------------------------------------------
CallRec ==
  [ kind : {"js", "reset", "dir", "close"}, id : Ids \cup Dirs \cup {"none"}, pc : Places,
    watch : Nat, at : Nat, proc : Nat, answer : Answers, settled : BOOLEAN,
    timeoutPending : BOOLEAN, timer : {"off", "armed", "waiting"}, timerWatch : Nat,
    suspended : BOOLEAN, since : Nat ]
KernelRec ==
  [ phase : Phases, gen : Nat, proc : Nat, boot : Nat, dirs : SUBSET Dirs,
    stop : {"none", "pending"}, victim : Nat, term : {"none", "pending", "done"} ]
ProcRec ==
  [ state : {"booting", "up", "dead"}, kernel : Nat, ready : {"pending", "resolved", "rejected"},
    run : Nat, dirs : SUBSET (Ids \cup Dirs \cup {"none"}) ]

\* A call, when there are k kernels and p processes.
CallOK(c, k, p) ==
  /\ c.watch \in 0 .. k /\ c.timerWatch \in 0 .. k /\ c.at \in 0 .. k
  /\ c.pc = "startup" => c.watch # 0
  /\ c.pc \in {"got", "ready", "running"} => c.at # 0
  /\ c.pc \in {"ready", "running"} => c.proc \in 1 .. p
  /\ c.pc \in {"term", "startup", "rterm", "rstop", "cstart", "cterm"} => c.at = 0
  /\ c.pc # "stopping" /\ c.since <= p
  /\ c.pc \in {"rterm", "rstop"} => c.kind = "reset"
  /\ c.pc \in {"cstart", "cterm"} => c.kind = "close"
  /\ c.kind = "close" => c.pc \in {"cstart", "cterm", "done"}
  /\ c.kind = "reset" => c.pc \notin {"ready", "running"}
  /\ c.pc = "failing" => c.kind = "js"
  /\ c.timeoutPending => c.settled

CallsFor(k, p) == {c \in CallRec : CallOK(c, k, p)}
KernelsFor(p) == {r \in KernelRec : r.proc \in 0 .. p /\ (r.phase = "spawning" => r.boot \in 1 .. p)}
ProcsFor(k, c) == {r \in ProcRec : r.kernel \in 1 .. k /\ r.run \in 0 .. c}

ManagerOK ==
  /\ active \in 0 .. Len(call) /\ (active # 0 => call[active].kind = "js")
  /\ child \in 0 .. Len(kernel) /\ startup \in 0 .. Len(kernel) /\ termination \in 0 .. Len(kernel)
  /\ generation \in Nat /\ shuttingDown \in BOOLEAN /\ metadata \in BOOLEAN
  /\ moduleDirs \subseteq Dirs
  /\ reading = FALSE

Typed ==
  /\ call \in Seq(CallsFor(Len(kernel), Len(proc)))
  /\ kernel \in Seq(KernelsFor(Len(proc)))
  /\ proc \in Seq(ProcsFor(Len(kernel), Len(call)))
  /\ ManagerOK
Busy(k) == kernel[k].proc # 0 \/ kernel[k].stop = "pending"

\* Every process that is alive is the present one of its kernel, or being killed.
Held ==
  /\ \A p \in Procs :
       Alive(p) => \/ kernel[proc[p].kernel].proc = p
                   \/ kernel[proc[p].kernel].victim = p /\ kernel[proc[p].kernel].stop = "pending"
  /\ \A k \in Kernels :
       /\ kernel[k].stop = "pending" => kernel[k].proc = 0
       /\ kernel[k].term = "pending" => kernel[k].stop = "pending"
       /\ kernel[k].proc # 0 => proc[kernel[k].proc].ready # "rejected"

\* A kernel's present process is not the one that it killed.
Victims ==
  \A k \in Kernels :
    /\ kernel[k].victim \in 0 .. Len(proc)
    /\ kernel[k].proc # 0 => kernel[k].proc # kernel[k].victim

\* What is left of a kernel in each phase.
PhasesOK ==
  \A k \in Kernels :
    /\ kernel[k].phase \notin {"ok", "failed"} => startup = k
    /\ kernel[k].phase = "metadata" =>
         kernel[k].proc = 0 /\ kernel[k].stop = "none" /\ kernel[k].term = "none"
    /\ kernel[k].phase = "stopping" => kernel[k].proc = 0
    /\ kernel[k].phase = "failed" => ~Busy(k)
    /\ kernel[k].phase = "spawning" /\ proc[kernel[k].boot].ready = "pending" =>
         kernel[k].proc = kernel[k].boot

Owned ==
  /\ child # 0 =>
       /\ \A j \in Kernels : Busy(j) => j = child
       /\ kernel[child].term = "none" /\ kernel[child].phase \in {"spawning", "ok"}
       /\ startup \in {0, child} /\ ~shuttingDown
  /\ child = 0 =>
       \A k \in Kernels :
         /\ kernel[k].proc = 0
         /\ Busy(k) => \/ kernel[k].term = "pending" /\ termination = k
                       \/ startup = k /\ kernel[k].phase = "stopping"
  /\ startup # 0 =>
       /\ \A j \in Kernels : Busy(j) => j = startup
       /\ kernel[startup].phase = "metadata" => child = 0 /\ ~Busy(startup)
       /\ kernel[startup].phase = "ok" => child = startup

\* A call that would create a kernel waits for the one that is left.
Patient ==
  child = 0 /\ startup = 0 =>
    \A k \in Kernels : Busy(k) => \A n \in Calls : call[n].pc = "term" => call[n].watch = k

Waiters == \A n \in Calls :
  /\ call[n].pc = "ready" /\ proc[call[n].proc].ready = "pending" =>
       kernel[call[n].at].proc = call[n].proc
  /\ call[n].pc = "cstart" => shuttingDown /\ startup \in {0, call[n].watch}
  /\ call[n].pc = "cterm" => shuttingDown

Doomed(n) ==
  \/ proc[call[n].proc].ready = "rejected"
  \/ proc[call[n].proc].ready = "resolved" /\ kernel[call[n].at].proc = 0
\* Will have the child terminated.
Catcher(n) ==
  /\ child # 0 /\ call[n].kind = "js" /\ ~call[n].settled /\ call[n].at = child
  /\ call[n].pc = "threw" \/ (call[n].pc = "ready" /\ Doomed(n))
Dropper(n) == Catcher(n) \/ (call[n].pc = "rterm" /\ Terminated(call[n].watch))
Mover(n) ==
  call[n].pc \in {"term", "startup"} \/ (call[n].pc = "rstop" /\ Terminated(call[n].watch))

Drops ==
  child # 0 =>
    /\ startup = 0 => \A n \in Calls : Dropper(n) => \A m \in Calls : ~Mover(m)
    /\ startup # 0 /\ (kernel[child].phase = "ok" \/ proc[kernel[child].boot].ready = "resolved") =>
         \A n \in Calls : ~Dropper(n)

\* Kernel k has lost its process: it is being killed or, when none exits while it
\* is idle, gone.
Bereft(k) ==
  kernel[k].stop = "pending" \/ ("idle_crash" \notin Faults /\ kernel[k].proc = 0)

\* A child that has lost its process is about to be dropped.
Broken ==
  child # 0 /\ Bereft(child) =>
    /\ \A n \in Calls :
         /\ call[n].pc \notin {"term", "got"}
         /\ call[n].pc = "startup" => call[n].watch = child /\ kernel[child].phase = "spawning"
         /\ ~(call[n].pc = "rstop" /\ Terminated(call[n].watch))
    /\ \/ kernel[child].phase = "spawning" /\ proc[kernel[child].boot].ready = "rejected"
       \/ kernel[child].phase = "ok" /\ \E n \in Calls : Catcher(n)

Old(n, p) == p <= call[n].since /\ Alive(p)
Fresh ==
  \A n \in Calls : call[n].kind = "reset" =>
    /\ call[n].pc = "rstop" => \A p \in Procs : Old(n, p) =>
         proc[p].kernel = call[n].watch /\ kernel[call[n].watch].term = "pending"
    /\ call[n].pc = "term" => \A p \in Procs : Old(n, p) =>
         \/ startup = proc[p].kernel /\ kernel[startup].phase = "stopping"
         \/ call[n].watch = proc[p].kernel /\ kernel[call[n].watch].term = "pending"
    /\ call[n].pc = "startup" => \A p \in Procs : Old(n, p) =>
         proc[p].kernel = call[n].watch /\ kernel[call[n].watch].phase = "stopping"
    /\ call[n].pc \in {"got"} \/ call[n].answer = "ok" => \A p \in Procs : ~Old(n, p)
Gone ==
  \A n \in Calls : call[n].kind = "close" =>
    /\ call[n].pc = "cterm" => \A p \in Procs : Alive(p) =>
         proc[p].kernel = call[n].watch /\ kernel[call[n].watch].term = "pending"
    /\ call[n].answer = "ok" => shuttingDown /\ \A p \in Procs : ~Alive(p)
Late ==
  \A n \in Calls : call[n].kind = "js" /\ call[n].pc = "ready" /\ call[n].settled =>
    /\ proc[call[n].proc].ready # "resolved"
    /\ proc[call[n].proc].ready = "pending" =>
         \E m \in Calls : call[m].pc = "rterm" /\ Terminated(call[m].watch)

KInv == Held /\ PhasesOK /\ Owned /\ Patient /\ Waiters /\ Drops /\ Broken
PInv == Fresh /\ Gone /\ Late
-----------------------------------------------------------------------------
\* The proofs see most steps through one of these descriptions.

ProcsKept ==
  /\ Len(proc') = Len(proc)
  /\ \A p \in Procs : /\ proc'[p].state = proc[p].state
                      /\ proc'[p].kernel = proc[p].kernel
                      /\ proc'[p].ready = proc[p].ready

\* Only call n changes.
Only(n) ==
  /\ n \in Calls /\ Len(call') = Len(call)
  /\ \A m \in Calls : m # n => call'[m] = call[m]

Same(m) ==
  /\ call'[m].kind = call[m].kind /\ call'[m].at = call[m].at
  /\ call'[m].proc = call[m].proc /\ call'[m].since = call[m].since

\* A microtask of call n that leaves kernels, child and startup alone.
Micro(n) ==
  LET c == call[n]
      d == call'[n]
  IN
  /\ Only(n) /\ ProcsKept /\ UNCHANGED <<kernel, child, startup, shuttingDown>>
  /\ termination' # termination => termination' = 0 /\ Terminated(termination)
  /\ d.kind = c.kind /\ d.since = c.since
  /\ \/ Same(n) /\ d.pc = c.pc /\ d.watch = c.watch /\ d.settled = c.settled
     \/ /\ d.pc = "term" /\ d.watch = termination'
        /\ \/ child = 0 /\ c.pc = "rterm"
           \/ c.pc = "startup" /\ Over(c.watch)
           \/ c.pc = "rstop" /\ Terminated(c.watch)
     \/ /\ d.pc = "startup" /\ child = 0 /\ startup # 0 /\ d.watch = startup
        /\ c.pc = "term" /\ Terminated(c.watch)
     \/ /\ d.pc = "got" /\ child # 0 /\ d.at = child
        /\ c.pc = "term" /\ Terminated(c.watch)
     \/ /\ d.pc = "ready" /\ child # 0 /\ d.at = child /\ kernel[child].proc # 0
        /\ d.proc = kernel[child].proc /\ c.pc = "got" /\ (c.kind = "js" => ~d.settled)
     \/ d.pc = "threw" /\ d.at = 0 /\ c.pc \in {"term", "startup"}
     \/ d.pc = "threw" /\ c.pc = "ready" /\ Doomed(n) /\ Same(n) /\ d.settled = c.settled
     \/ d.pc \in {"running", "done"} /\ ~Catcher(n) /\ c.pc # "rterm"
  /\ (c.kind = "reset" /\ d.answer # c.answer) =>
       d.pc = "done" /\ (d.answer = "ok" => c.pc = "got")
  /\ (c.kind = "close" /\ d.answer # c.answer) =>
       d.pc = "done" /\ (d.answer = "ok" => c.pc = "cterm" /\ Terminated(c.watch))

\* A command or an event that leaves kernels, child and startup alone.
Outer ==
  /\ Quiet /\ ProcsKept /\ UNCHANGED <<kernel, child, startup, termination>>
  /\ shuttingDown' # shuttingDown => shuttingDown' /\ child = 0
  /\ \A m \in Calls :
       /\ Same(m) /\ call'[m].watch = call[m].watch
       /\ call[m].settled => call'[m].settled
       /\ call'[m].pc # call[m].pc => call[m].pc = "running" /\ call'[m].pc = "done"
       /\ call[m].kind \in {"reset", "close"} => call'[m].answer = call[m].answer
       /\ call'[m].settled # call[m].settled /\ call'[m].pc = "ready" =>
            \/ child = 0
            \/ Len(call') = Len(call) + 1 /\ call'[Len(call) + 1].pc = "rterm"
  /\ \/ Len(call') = Len(call)
     \/ /\ Len(call') = Len(call) + 1
        /\ LET d == call'[Len(call) + 1] IN
           /\ d.at = 0
           /\ d.kind \in {"reset", "close"} => d.answer = "none"
           /\ \/ d.pc = "done"
              \/ d.pc = "term" /\ d.kind \in {"js", "dir"} /\ d.watch = termination
              \/ d.pc = "rterm" /\ d.watch = termination
              \/ d.pc = "cstart" /\ d.watch = startup /\ shuttingDown'

\* The child is dropped: by a command or timer, or by the catch block or the
\* restart that call n is in.
Dropped(n) ==
  /\ child # 0 /\ child' = 0 /\ termination' = child /\ UNCHANGED startup
  /\ shuttingDown' # shuttingDown => shuttingDown'
  /\ Quiet \/ (n \in Calls /\ Dropper(n))
  /\ kernel' = [kernel EXCEPT ![child] =
       IF kernel[child].proc # 0
         THEN [kernel[child] EXCEPT !.proc = 0, !.stop = "pending",
                                    !.victim = kernel[child].proc, !.term = "pending"]
         ELSE [kernel[child] EXCEPT
                 !.term = IF kernel[child].stop = "pending" THEN "pending" ELSE "done"]]
  /\ Len(proc') = Len(proc)
  /\ \A p \in Procs :
       /\ proc'[p].state = proc[p].state /\ proc'[p].kernel = proc[p].kernel
       /\ proc'[p].ready = IF p = kernel[child].proc /\ proc[p].ready = "pending"
                             THEN "rejected" ELSE proc[p].ready
  /\ \A m \in Calls :
       /\ Same(m) /\ (call[m].settled => call'[m].settled)
       /\ call'[m].settled # call[m].settled => Quiet
       /\ call[m].kind \in {"reset", "close"} => call'[m].answer = call[m].answer
       /\ \/ call'[m].pc = call[m].pc /\ call'[m].watch = call[m].watch
          \/ call'[m].pc \in {"threw", "failing"}
          \/ call[m].pc = "rterm" /\ call'[m].pc = "rstop" /\ call'[m].watch = child
  /\ \/ Len(call') = Len(call)
     \/ /\ Len(call') = Len(call) + 1
        /\ LET d == call'[Len(call) + 1] IN
           /\ d.pc = "cstart" /\ d.watch = startup /\ shuttingDown' /\ d.at = 0
           /\ d.kind = "close" /\ d.answer = "none"
-----------------------------------------------------------------------------
LEMMA Put ==
  ASSUME NEW S, NEW s \in Seq(S), NEW n \in 1 .. Len(s), NEW r \in S
  PROVE  /\ [s EXCEPT ![n] = r] \in Seq(S)
         /\ Len([s EXCEPT ![n] = r]) = Len(s)
         /\ [s EXCEPT ![n] = r][n] = r
         /\ \A m \in 1 .. Len(s) : m # n => [s EXCEPT ![n] = r][m] = s[m]
OBVIOUS

LEMMA Add ==
  ASSUME NEW S, NEW s \in Seq(S), NEW r \in S
  PROVE  /\ Append(s, r) \in Seq(S)
         /\ Len(Append(s, r)) = Len(s) + 1
         /\ Append(s, r)[Len(s) + 1] = r
         /\ \A m \in 1 .. Len(s) : Append(s, r)[m] = s[m]
OBVIOUS

LEMMA Wider ==
  ASSUME NEW S, NEW T, S \subseteq T
  PROVE  Seq(S) \subseteq Seq(T)
OBVIOUS

LEMMA GrownCalls ==
  ASSUME NEW K \in Nat, NEW P \in Nat, NEW L \in Nat, NEW Q \in Nat, L >= K, Q >= P
  PROVE  Seq(CallsFor(K, P)) \subseteq Seq(CallsFor(L, Q))
<1>1. CallsFor(K, P) \subseteq CallsFor(L, Q) BY DEF CallsFor, CallOK, CallRec
<1> QED BY <1>1, Wider

LEMMA GrownKernels ==
  ASSUME NEW P \in Nat, NEW Q \in Nat, Q >= P
  PROVE  Seq(KernelsFor(P)) \subseteq Seq(KernelsFor(Q))
<1>1. KernelsFor(P) \subseteq KernelsFor(Q) BY DEF KernelsFor
<1> QED BY <1>1, Wider

LEMMA GrownProcs ==
  ASSUME NEW K \in Nat, NEW C \in Nat, NEW L \in Nat, NEW D \in Nat, L >= K, D >= C
  PROVE  Seq(ProcsFor(K, C)) \subseteq Seq(ProcsFor(L, D))
<1>1. ProcsFor(K, C) \subseteq ProcsFor(L, D) BY DEF ProcsFor
<1> QED BY <1>1, Wider

LEMMA Call ==
  ASSUME Typed, NEW n \in Calls
  PROVE  call[n] \in CallRec /\ CallOK(call[n], Len(kernel), Len(proc))
BY DEF Typed, Calls, CallsFor

LEMMA Kernel ==
  ASSUME Typed, NEW k \in Kernels
  PROVE  /\ kernel[k] \in KernelRec /\ kernel[k].proc \in 0 .. Len(proc)
         /\ kernel[k].proc # 0 => kernel[k].proc \in Procs
         /\ kernel[k].phase = "spawning" => kernel[k].boot \in Procs
<1>1. kernel[k] \in KernelRec /\ kernel[k].proc \in 0 .. Len(proc)
      /\ (kernel[k].phase = "spawning" => kernel[k].boot \in Procs)
  BY DEF Typed, Kernels, KernelsFor, Procs
<1> QED BY <1>1 DEF Procs

LEMMA Proc ==
  ASSUME Typed, NEW p \in Procs
  PROVE  proc[p] \in ProcRec /\ proc[p].kernel \in Kernels /\ proc[p].run \in 0 .. Len(call)
BY DEF Typed, Kernels, ProcsFor, Procs

LEMMA AtFacts ==
  ASSUME NEW n, NEW pc, NEW w
  PROVE  At(n, pc, w) = [call EXCEPT ![n] = [call[n] EXCEPT !.pc = pc, !.watch = w]]
BY DEF At

\* What Settled makes of a call.
Cleared(c, answer) ==
  [c EXCEPT !.settled = TRUE, !.answer = answer, !.timeoutPending = FALSE,
            !.timer = IF @ = "armed" THEN "off" ELSE @]

LEMMA SettledFacts ==
  ASSUME NEW c, NEW n, NEW answer
  PROVE  Settled(c, n, answer) = [c EXCEPT ![n] = Cleared(c[n], answer)]
BY DEF Settled, Cleared

LEMMA ClearedFacts ==
  ASSUME NEW c \in CallRec, NEW answer \in Answers
  PROVE  LET d == Cleared(c, answer) IN
         /\ d \in CallRec
         /\ d.kind = c.kind /\ d.pc = c.pc /\ d.watch = c.watch /\ d.at = c.at /\ d.proc = c.proc
         /\ d.id = c.id /\ d.settled /\ d.answer = answer /\ ~d.timeoutPending
         /\ d.timerWatch = c.timerWatch /\ d.since = c.since
BY DEF Cleared, CallRec

LEMMA ThrewFacts ==
  ASSUME NEW c \in CallRec
  PROVE  [c EXCEPT !.pc = "threw"] \in CallRec
BY DEF CallRec, Places

LEMMA RejectedFacts ==
  ASSUME NEW c \in Seq(CallRec), NEW k
  PROVE  /\ Rejected(c, k) \in Seq(CallRec) /\ Len(Rejected(c, k)) = Len(c)
         /\ \A n \in 1 .. Len(c) :
              Rejected(c, k)[n] = IF c[n].at = k /\ c[n].pc = "running"
                                    THEN [c[n] EXCEPT !.pc = "threw"] ELSE c[n]
<1> DEFINE d == Rejected(c, k)
<1>1. DOMAIN c = 1 .. Len(c) /\ Len(c) \in Nat OBVIOUS
<1>2. \A n \in 1 .. Len(c) : c[n] \in CallRec /\ [c[n] EXCEPT !.pc = "threw"] \in CallRec
  BY ThrewFacts
<1>3. d = [n \in 1 .. Len(c) |-> IF c[n].at = k /\ c[n].pc = "running"
                                  THEN [c[n] EXCEPT !.pc = "threw"] ELSE c[n]]
  BY <1>1 DEF Rejected
<1>4. d \in [1 .. Len(c) -> CallRec] BY <1>2, <1>3
<1>5. d \in Seq(CallRec) /\ Len(d) = Len(c) BY <1>1, <1>4
<1> QED BY <1>3, <1>5
-----------------------------------------------------------------------------
LEMMA BusyPending ==
  ASSUME Typed, KInv, NEW w \in 0 .. Len(kernel), ~Terminated(w)
  PROVE  w \in Kernels /\ kernel[w].stop = "pending" /\ Busy(w) /\ child # w
BY DEF KInv, Held, Owned, Terminated, Busy, Kernels, Typed, ManagerOK

LEMMA QuietFacts ==
  ASSUME Typed, KInv, Quiet
  PROVE  /\ child # 0 => /\ ~Bereft(child) /\ kernel[child].stop # "pending"
                         /\ \A n \in Calls :
                              /\ call[n].pc # "term"
                              /\ call[n].pc = "startup" => /\ call[n].watch = child /\ startup = child
                                                           /\ kernel[child].phase = "spawning"
                              /\ call[n].pc \in {"rterm", "rstop"} => ~Terminated(call[n].watch)
         /\ child # 0 /\ startup # 0 =>
              /\ kernel[child].phase = "spawning" /\ startup = child
              /\ proc[kernel[child].boot].ready = "pending"
              /\ kernel[child].proc = kernel[child].boot
         /\ \A n \in Calls : ~Dropper(n) /\ call[n].pc \notin {"got", "threw"}
         /\ \A n \in Calls : call[n].pc = "ready" => proc[call[n].proc].ready = "pending"
         /\ startup # 0 => ~Over(startup)
<1> USE DEF Quiet
<1>1. \A n \in Calls : call[n].pc \notin {"got", "threw"} BY DEF Resumable
<1>2. \A n \in Calls : call[n].pc = "ready" => proc[call[n].proc].ready = "pending"
  BY DEF Resumable
<1>3. \A n \in Calls : call[n].pc \in {"term", "rterm", "rstop"} => ~Terminated(call[n].watch)
  BY DEF Resumable
<1>4. \A n \in Calls : ~Dropper(n)
  BY <1>1, <1>2, <1>3, Call DEF Dropper, Catcher, Doomed, CallOK
<1>5. ASSUME child # 0 PROVE ~Bereft(child) /\ kernel[child].stop # "pending"
  <2>1. ~Bereft(child)
    BY <1>4, <1>5, Kernel DEF KInv, Broken, StartResumable, Dropper, Kernels, Typed, ManagerOK
  <2> QED BY <2>1 DEF Bereft
<1>6. ASSUME child # 0, NEW n \in Calls PROVE call[n].pc # "term"
  BY <1>3, <1>6, BusyPending, Call DEF KInv, Owned, CallOK
<1>7. ASSUME child # 0, NEW n \in Calls, call[n].pc = "startup"
      PROVE  call[n].watch = child /\ startup = child /\ kernel[child].phase = "spawning"
  <2>1. call[n].watch \in Kernels BY <1>7, Call DEF CallOK, Kernels
  <2>2. ~Over(call[n].watch) BY <1>7, <2>1 DEF Resumable, Kernels
  <2>3. startup = call[n].watch BY <2>1, <2>2, Kernel DEF KInv, PhasesOK, Over
  <2> QED BY <1>7, <2>1, <2>2, <2>3 DEF KInv, Owned, Over, Kernels
<1>8. ASSUME child # 0, startup # 0
      PROVE  /\ kernel[child].phase = "spawning" /\ startup = child
             /\ proc[kernel[child].boot].ready = "pending"
             /\ kernel[child].proc = kernel[child].boot
  <2>1. startup = child /\ child \in Kernels BY <1>8 DEF KInv, Owned, Typed, ManagerOK, Kernels
  <2>2. kernel[child].phase = "spawning" BY <1>8, <2>1 DEF KInv, Owned, Over
  <2>3. proc[kernel[child].boot].ready = "pending" BY <2>1, <2>2 DEF StartResumable
  <2> QED BY <2>1, <2>2, <2>3 DEF KInv, PhasesOK
<1> QED BY <1>1, <1>2, <1>3, <1>4, <1>5, <1>6, <1>7, <1>8
-----------------------------------------------------------------------------
LEMMA KeptFacts ==
  ASSUME Typed, KInv, ProcsKept, UNCHANGED <<kernel, startup>>
  PROVE  Held' /\ PhasesOK'
<1> USE DEF ProcsKept, KInv, Kernels, Procs
<1>1. Held'
  <2>1. \A k \in Kernels : kernel[k].proc # 0 =>
          proc'[kernel[k].proc].ready = proc[kernel[k].proc].ready
    BY Kernel
  <2>2. \A p \in Procs : /\ Alive(p)' = Alive(p)
                         /\ kernel'[proc'[p].kernel] = kernel[proc[p].kernel]
    BY DEF Alive
  <2> QED BY <2>1, <2>2 DEF Held
<1>2. PhasesOK'
  <2>1. \A k \in Kernels : kernel[k].phase = "spawning" =>
           proc'[kernel[k].boot].ready = proc[kernel[k].boot].ready
    BY Kernel
  <2> QED BY <2>1 DEF PhasesOK, Busy
<1> QED BY <1>1, <1>2

LEMMA MicroHeld ==
  ASSUME Typed, KInv, NEW n, Micro(n)
  PROVE  Held' /\ PhasesOK' /\ Owned'
<1>1. Held' /\ PhasesOK' BY KeptFacts DEF Micro
<1>2. Owned' BY DEF Micro, KInv, Owned, Busy, Terminated, Kernels, Typed, ManagerOK
<1> QED BY <1>1, <1>2

LEMMA MicroWaiters ==
  ASSUME Typed, KInv, NEW n, Micro(n)
  PROVE  Patient' /\ Waiters'
<1> USE DEF Micro, ProcsKept, Only, KInv, Kernels, Procs, Calls
<1>1. Patient'
  <2> SUFFICES ASSUME child = 0, startup = 0, NEW k \in Kernels, Busy(k),
                      NEW m \in Calls, call'[m].pc = "term"
               PROVE  call'[m].watch = k
    BY DEF Patient, Busy
  <2>1. kernel[k].term = "pending" /\ termination = k BY DEF Owned
  <2>2. termination' = termination BY <2>1 DEF Terminated
  <2>3. CASE m # n BY <2>3 DEF Patient
  <2>4. CASE m = n BY <2>1, <2>2, <2>4 DEF Patient, Same
  <2> QED BY <2>3, <2>4
<1>2. Waiters'
  <2> SUFFICES ASSUME NEW m \in Calls
               PROVE  /\ call'[m].pc = "ready" /\ proc'[call'[m].proc].ready = "pending" =>
                           kernel[call'[m].at].proc = call'[m].proc
                      /\ call'[m].pc = "cstart" => shuttingDown /\ startup \in {0, call'[m].watch}
                      /\ call'[m].pc = "cterm" => shuttingDown
    BY DEF Waiters
  <2>1. CASE m # n
    <3>1. call'[m] = call[m] BY <2>1
    <3>2. call[m].pc = "ready" => proc'[call[m].proc].ready = proc[call[m].proc].ready
      BY Call DEF CallOK, Procs
    <3> QED BY <3>1, <3>2 DEF Waiters
  <2>2. CASE m = n
    <3>1. call[m].pc = "ready" => proc'[call[m].proc].ready = proc[call[m].proc].ready
      BY Call DEF CallOK
    <3> QED BY <2>2, <3>1 DEF Waiters, Same
  <2> QED BY <2>1, <2>2
<1> QED BY <1>1, <1>2

LEMMA MicroDrops ==
  ASSUME Typed, KInv, NEW n, Micro(n)
  PROVE  Drops' /\ Broken'
<1> USE DEF Micro, ProcsKept, Only, KInv, Calls
<1>0. SUFFICES ASSUME child # 0 PROVE Drops' /\ Broken' BY DEF Drops, Broken
<1>a. child \in Kernels BY <1>0 DEF Typed, ManagerOK, Kernels
<1>b. kernel[child].proc \in 0 .. Len(proc) /\ (kernel[child].phase = "spawning" => kernel[child].boot \in Procs)
  BY <1>a, Kernel
<1>1. ASSUME NEW m \in Calls PROVE Catcher(m)' => Catcher(m)
  <2>1. CASE m # n
    <3>1. call'[m] = call[m] BY <2>1
    <3>2. call[m].pc = "ready" => proc'[call[m].proc].ready = proc[call[m].proc].ready
      BY Call DEF CallOK, Procs
    <3> QED BY <3>1, <3>2 DEF Catcher, Doomed
  <2>2. CASE m = n
    <3>1. call[n].pc = "ready" => proc'[call[n].proc].ready = proc[call[n].proc].ready
      BY Call DEF CallOK, Procs
    <3>2. CASE Same(n) /\ call'[n].pc = call[n].pc /\ call'[n].settled = call[n].settled
      BY <2>2, <3>1, <3>2 DEF Catcher, Doomed, Same
    <3>3. CASE call'[n].pc = "ready" /\ call'[n].at = child /\ kernel[child].proc # 0
                /\ call'[n].proc = kernel[child].proc
      <4>2. proc'[kernel[child].proc].ready = proc[kernel[child].proc].ready BY <3>3, <1>b DEF Procs
      <4>3. proc[kernel[child].proc].ready # "rejected" BY <1>a, <3>3 DEF Held
      <4> QED BY <2>2, <3>3, <4>2, <4>3 DEF Catcher, Doomed
    <3>4. CASE call'[n].pc = "threw" BY <1>0, <2>2, <3>4 DEF Catcher, Same
    <3>5. CASE call'[n].pc \notin {"threw", "ready"} BY <2>2, <3>5 DEF Catcher
    <3> QED BY <3>2, <3>3, <3>4, <3>5
  <2> QED BY <2>1, <2>2
<1>2. ASSUME NEW m \in Calls PROVE Dropper(m)' => Dropper(m)
  BY <1>1 DEF Dropper, Terminated, Same
<1>3. ASSUME NEW m \in Calls PROVE Mover(m)' => Mover(m)
  BY <1>0 DEF Mover, Terminated, Same
<1>4. ASSUME NEW m \in Calls PROVE Catcher(m) => Catcher(m)'
  <2>1. CASE m # n
    <3>1. call'[m] = call[m] BY <2>1
    <3>2. call[m].pc = "ready" => proc'[call[m].proc].ready = proc[call[m].proc].ready
      BY Call DEF CallOK, Procs
    <3> QED BY <3>1, <3>2 DEF Catcher, Doomed
  <2>2. CASE m = n
    <3>1. call[n].pc = "ready" => proc'[call[n].proc].ready = proc[call[n].proc].ready
      BY Call DEF CallOK, Procs
    <3> QED BY <2>2, <3>1 DEF Catcher, Doomed, Same
  <2> QED BY <2>1, <2>2
<1>5. Drops'
  <2>1. startup # 0 => startup = child BY <1>0 DEF Owned
  <2>2. kernel[child].phase = "spawning" =>
          proc'[kernel[child].boot].ready = proc[kernel[child].boot].ready BY <1>b
  <2>3. kernel[child].phase \in {"spawning", "ok"} BY <1>0 DEF Owned
  <2> QED BY <1>0, <1>2, <1>3, <2>1, <2>2, <2>3 DEF Drops
<1>6. Broken'
  <2> SUFFICES ASSUME Bereft(child) PROVE Broken' BY DEF Broken, Bereft
  <2>1. ASSUME NEW m \in Calls
        PROVE  /\ call'[m].pc \notin {"term", "got"}
               /\ call'[m].pc = "startup" =>
                    call'[m].watch = child /\ kernel[child].phase = "spawning"
               /\ ~(call'[m].pc = "rstop" /\ Terminated(call'[m].watch))
    BY <1>0 DEF Broken, Same, Terminated, Over
  <2>2. kernel[child].phase = "spawning" =>
          proc'[kernel[child].boot].ready = proc[kernel[child].boot].ready BY <1>b
  <2>3. \/ kernel[child].phase = "spawning" /\ proc'[kernel[child].boot].ready = "rejected"
        \/ kernel[child].phase = "ok" /\ \E m \in Calls : Catcher(m)'
    BY <1>0, <1>4, <2>2 DEF Broken
  <2> QED BY <2>1, <2>3 DEF Broken, Terminated
<1> QED BY <1>5, <1>6

LEMMA MicroInv ==
  ASSUME Typed, KInv, NEW n, Micro(n)
  PROVE  KInv'
BY MicroHeld, MicroWaiters, MicroDrops DEF KInv
-----------------------------------------------------------------------------
LEMMA OuterInv ==
  ASSUME Typed, KInv, Outer
  PROVE  KInv'
<1> USE DEF Outer, KInv
<1>1. Held' /\ PhasesOK' BY KeptFacts
<1>2. Owned' BY DEF Owned, Busy, Terminated, Kernels
<1>3. Len(call) \in Nat BY DEF Typed
<1>4. child # 0 => child \in Kernels BY DEF Typed, ManagerOK, Kernels
<1>5. ASSUME NEW m \in Calls, call'[m].pc = "ready"
      PROVE  call[m].pc = "ready" /\ call[m].proc \in Procs
             /\ proc'[call[m].proc].ready = "pending" /\ proc[call[m].proc].ready = "pending"
  <2>1. call[m].pc = "ready" /\ call[m].proc \in Procs BY <1>5, Call DEF CallOK, Procs
  <2> QED BY <2>1, QuietFacts DEF ProcsKept
<1>6. \A m \in Calls' : m \in Calls \/ (m = Len(call) + 1 /\ Len(call') = Len(call) + 1)
  BY <1>3 DEF Calls
<1>7. Patient'
  <2> SUFFICES ASSUME child = 0, startup = 0, NEW k \in Kernels, Busy(k),
                      NEW m \in Calls', call'[m].pc = "term"
               PROVE  call'[m].watch = k
    BY DEF Patient, Busy, Kernels
  <2>1. termination = k BY DEF Owned, Kernels
  <2> QED BY <1>6, <2>1 DEF Patient
<1>8. Waiters'
  <2> SUFFICES ASSUME NEW m \in Calls'
               PROVE  /\ call'[m].pc = "ready" /\ proc'[call'[m].proc].ready = "pending" =>
                           kernel[call'[m].at].proc = call'[m].proc
                      /\ call'[m].pc = "cstart" =>
                           shuttingDown' /\ startup \in {0, call'[m].watch}
                      /\ call'[m].pc = "cterm" => shuttingDown'
    BY DEF Waiters
  <2>1. CASE m \in Calls BY <2>1, <1>5 DEF Waiters, Same
  <2>2. CASE m = Len(call) + 1 /\ Len(call') = Len(call) + 1 BY <2>2
  <2> QED BY <1>6, <2>1, <2>2
<1>9. ASSUME child # 0, NEW m \in Calls' PROVE ~Catcher(m)'
  <2>1. CASE m \in Calls
    <3>1. call'[m].pc # "threw" BY <2>1, QuietFacts
    <3> QED BY <2>1, <3>1, <1>5 DEF Catcher, Doomed, Same
  <2>2. CASE m = Len(call) + 1 /\ Len(call') = Len(call) + 1 BY <2>2, <1>9 DEF Catcher
  <2> QED BY <1>6, <2>1, <2>2
<1>10. ASSUME child # 0, startup = 0, NEW m \in Calls', Mover(m)' 
       PROVE  m = Len(call) + 1 /\ call'[m].pc = "term"
  <2>1. CASE m \in Calls
    <3>1. call'[m].pc = call[m].pc BY <2>1, <1>10 DEF Mover
    <3> QED BY <2>1, <3>1, <1>10, QuietFacts DEF Mover, Terminated
  <2> QED BY <1>6, <2>1, <1>10 DEF Mover
<1>11. ASSUME child # 0, NEW m \in Calls', Dropper(m)'
       PROVE  m = Len(call) + 1 /\ call'[m].pc = "rterm" /\ Terminated(call'[m].watch)
  <2>1. call'[m].pc = "rterm" /\ Terminated(call'[m].watch)
    BY <1>9, <1>11 DEF Dropper, Terminated
  <2>2. CASE m \in Calls
    <3>1. call[m].pc = "rterm" /\ call'[m].watch = call[m].watch BY <2>1, <2>2
    <3> QED BY <2>1, <2>2, <3>1, <1>11, QuietFacts
  <2> QED BY <1>6, <2>1, <2>2
<1>12. Drops' /\ Broken'
  <2> SUFFICES ASSUME child # 0 PROVE Drops' /\ Broken' BY DEF Drops, Broken
  <2>1. ~Bereft(child)' BY QuietFacts DEF Bereft
  <2>2. ASSUME startup # 0
        PROVE  kernel[child].phase # "ok" /\ proc'[kernel[child].boot].ready # "resolved"
    BY <2>2, <1>4, Kernel, QuietFacts DEF ProcsKept
  <2> QED BY <1>10, <1>11, <2>1, <2>2 DEF Drops, Broken
<1> QED BY <1>1, <1>2, <1>7, <1>8, <1>12
-----------------------------------------------------------------------------
LEMMA DroppedFacts ==
  ASSUME Typed, KInv, NEW n, Dropped(n)
  PROVE  /\ child \in Kernels /\ Len(kernel') = Len(kernel)
         /\ \A j \in Kernels : j # child => kernel'[j] = kernel[j] /\ ~Busy(j)
         /\ kernel'[child].proc = 0 /\ kernel'[child].phase = kernel[child].phase
         /\ kernel'[child].boot = kernel[child].boot
         /\ kernel[child].stop \in {"none", "pending"}
         /\ kernel[child].proc # 0 =>
              /\ kernel'[child].stop = "pending" /\ kernel'[child].term = "pending"
              /\ kernel'[child].victim = kernel[child].proc
         /\ kernel[child].proc = 0 =>
              /\ kernel'[child].stop = kernel[child].stop
              /\ kernel'[child].victim = kernel[child].victim
              /\ (kernel'[child].term = "pending") <=> (kernel[child].stop = "pending")
<1>1. child \in Kernels BY DEF Dropped, Typed, ManagerOK, Kernels
<1>2. kernel[child] \in KernelRec BY <1>1, Kernel
<1> DEFINE r == IF kernel[child].proc # 0
         THEN [kernel[child] EXCEPT !.proc = 0, !.stop = "pending",
                                    !.victim = kernel[child].proc, !.term = "pending"]
         ELSE [kernel[child] EXCEPT
                 !.term = IF kernel[child].stop = "pending" THEN "pending" ELSE "done"]
<1>3. kernel' = [kernel EXCEPT ![child] = r] BY DEF Dropped
<1>4. Len(kernel') = Len(kernel) /\ kernel'[child] = r
      /\ \A j \in Kernels : j # child => kernel'[j] = kernel[j]
  <2> HIDE DEF r
  <2>1. kernel \in Seq(KernelsFor(Len(proc))) BY DEF Typed
  <2> QED BY <1>1, <1>3, <2>1 DEF Kernels
<1>5. \A j \in Kernels : j # child => ~Busy(j) BY DEF KInv, Owned, Dropped
<1> QED BY <1>1, <1>2, <1>4, <1>5 DEF KernelRec

LEMMA DroppedInv ==
  ASSUME Typed, KInv, NEW n, Dropped(n)
  PROVE  KInv'
<1> USE DEF KInv
<1>0. child # 0 /\ child' = 0 /\ termination' = child /\ startup' = startup
      /\ Len(proc') = Len(proc)
  BY DEF Dropped
<1>1. \A p \in Procs :
       /\ proc'[p].state = proc[p].state /\ proc'[p].kernel = proc[p].kernel
       /\ proc'[p].ready = IF p = kernel[child].proc /\ proc[p].ready = "pending"
                             THEN "rejected" ELSE proc[p].ready
  BY DEF Dropped, Procs
<1>2. Kernels' = Kernels /\ Procs' = Procs BY <1>0, DroppedFacts DEF Kernels, Procs
<1>3. Held'
  <2>1. ASSUME NEW p \in Procs, Alive(p)'
        PROVE  \/ kernel'[proc'[p].kernel].proc = p
               \/ /\ kernel'[proc'[p].kernel].victim = p
                  /\ kernel'[proc'[p].kernel].stop = "pending"
    <3>1. Alive(p) /\ proc'[p].kernel = proc[p].kernel /\ proc[p].kernel \in Kernels
      BY <2>1, <1>1, Proc DEF Alive
    <3>2. \/ kernel[proc[p].kernel].proc = p
          \/ kernel[proc[p].kernel].victim = p /\ kernel[proc[p].kernel].stop = "pending"
      BY <3>1 DEF Held
    <3>3. CASE proc[p].kernel # child BY <3>1, <3>2, <3>3, DroppedFacts
    <3>4. CASE proc[p].kernel = child
      <4>1. p # 0 BY DEF Procs
      <4> QED BY <3>1, <3>2, <3>4, <4>1, DroppedFacts DEF Held
    <3> QED BY <3>3, <3>4
  <2>2. ASSUME NEW k \in Kernels
        PROVE  /\ kernel'[k].stop = "pending" => kernel'[k].proc = 0
               /\ kernel'[k].term = "pending" => kernel'[k].stop = "pending"
               /\ kernel'[k].proc # 0 => proc'[kernel'[k].proc].ready # "rejected"
    <3>1. CASE k = child BY <3>1, DroppedFacts
    <3>2. CASE k # child
      <4>1. kernel'[k] = kernel[k] /\ kernel[k].proc = 0 BY <3>2, DroppedFacts DEF Busy
      <4> QED BY <4>1 DEF Held
    <3> QED BY <3>1, <3>2
  <2> QED BY <2>1, <2>2, <1>2 DEF Held
<1>4. PhasesOK'
  <2> SUFFICES ASSUME NEW k \in Kernels
               PROVE  /\ kernel'[k].phase \notin {"ok", "failed"} => startup = k
                      /\ kernel'[k].phase = "metadata" =>
                           kernel'[k].proc = 0 /\ kernel'[k].stop = "none" /\ kernel'[k].term = "none"
                      /\ kernel'[k].phase = "stopping" => kernel'[k].proc = 0
                      /\ kernel'[k].phase = "failed" => ~Busy(k)'
                      /\ kernel'[k].phase = "spawning" /\ proc'[kernel'[k].boot].ready = "pending" =>
                           kernel'[k].proc = kernel'[k].boot
    BY <1>0, <1>2 DEF PhasesOK
  <2>1. CASE k = child
    <3>1. kernel[child].phase \in {"spawning", "ok"} BY <1>0 DEF Owned
    <3>2. kernel[child].phase = "spawning" => kernel[child].boot \in Procs BY <2>1, Kernel
    <3> QED BY <2>1, <3>1, <3>2, <1>1, DroppedFacts DEF PhasesOK
  <2>2. CASE k # child
    <3>1. kernel'[k] = kernel[k] /\ ~Busy(k)' BY <2>2, DroppedFacts DEF Busy
    <3>2. kernel[k].phase # "spawning" BY <2>2, <1>0 DEF PhasesOK, Owned, Kernels
    <3> QED BY <3>1, <3>2 DEF PhasesOK
  <2> QED BY <2>1, <2>2
<1>5. startup # 0 => startup = child /\ kernel[child].phase # "ok"
  <2>1. startup # 0 => startup = child BY <1>0 DEF Owned
  <2>2. startup # 0 /\ Quiet => kernel[child].phase # "ok" BY <1>0, QuietFacts
  <2>3. startup # 0 /\ n \in Calls /\ Dropper(n) => kernel[child].phase # "ok" BY <1>0 DEF Drops
  <2> QED BY <2>1, <2>2, <2>3 DEF Dropped
<1>6. \A j \in Kernels : Busy(j)' => j = child /\ kernel'[child].term = "pending"
  <2> SUFFICES ASSUME NEW j \in Kernels, Busy(j)' PROVE j = child /\ kernel'[child].term = "pending"
    OBVIOUS
  <2>1. j = child BY DroppedFacts DEF Busy
  <2> QED BY <2>1, DroppedFacts DEF Busy
<1>7. Owned'
  <2>1. \A k \in Kernels : kernel'[k].proc = 0 BY DroppedFacts DEF Busy
  <2>2. startup # 0 => kernel'[startup].phase \notin {"metadata", "ok"}
    BY <1>0, <1>5, DroppedFacts DEF Owned
  <2> QED BY <1>0, <1>2, <1>5, <1>6, <2>1, <2>2 DEF Owned
<1>8. Len(call) \in Nat BY DEF Typed
<1>9. \A m \in Calls' : m \in Calls \/ (m = Len(call) + 1 /\ Len(call') = Len(call) + 1)
  BY <1>8 DEF Calls, Dropped
<1>10. Patient'
  <2> SUFFICES ASSUME startup = 0, NEW m \in Calls' PROVE call'[m].pc # "term"
    BY <1>0 DEF Patient
  <2>1. CASE m \in Calls
    <3>1. Quiet => call[m].pc # "term" BY <1>0, <2>1, QuietFacts
    <3>2. n \in Calls /\ Dropper(n) => call[m].pc # "term" BY <1>0, <2>1 DEF Drops, Mover
    <3>3. call[m].pc # "term" BY <3>1, <3>2 DEF Dropped
    <3> QED BY <2>1, <3>3 DEF Dropped
  <2>2. CASE m = Len(call) + 1 /\ Len(call') = Len(call) + 1 BY <2>2, <1>8 DEF Dropped
  <2> QED BY <2>1, <2>2, <1>9
<1>11. Waiters'
  <2> SUFFICES ASSUME NEW m \in Calls'
               PROVE  /\ call'[m].pc = "ready" /\ proc'[call'[m].proc].ready = "pending" =>
                           kernel'[call'[m].at].proc = call'[m].proc
                      /\ call'[m].pc = "cstart" =>
                           shuttingDown' /\ startup \in {0, call'[m].watch}
                      /\ call'[m].pc = "cterm" => shuttingDown'
    BY <1>0 DEF Waiters
  <2>1. CASE m \in Calls
    <3>1. Same(m) /\ (call'[m].pc \in {"ready", "cstart", "cterm"} =>
             call'[m].pc = call[m].pc /\ call'[m].watch = call[m].watch)
      BY <2>1 DEF Dropped
    <3>2. shuttingDown => shuttingDown' BY DEF Dropped
    <3>3. ASSUME call'[m].pc = "ready", proc'[call'[m].proc].ready = "pending"
          PROVE  kernel'[call'[m].at].proc = call'[m].proc
      <4>1. call[m].pc = "ready" /\ call[m].proc \in Procs /\ call[m].at \in Kernels
        BY <2>1, <3>1, <3>3, Call DEF CallOK, Procs, Kernels
      <4>2. proc[call[m].proc].ready = "pending" /\ call[m].proc # kernel[child].proc
        BY <3>1, <3>3, <4>1, <1>1 DEF Same
      <4>3. kernel[call[m].at].proc = call[m].proc BY <2>1, <4>1, <4>2 DEF Waiters
      <4>4. Busy(call[m].at) BY <4>1, <4>3 DEF Busy, Procs
      <4>5. call[m].at = child BY <4>1, <4>4, DroppedFacts
      <4> QED BY <4>2, <4>3, <4>5
    <3> QED BY <2>1, <3>1, <3>2, <3>3 DEF Waiters
  <2>2. CASE m = Len(call) + 1 /\ Len(call') = Len(call) + 1 BY <2>2, <1>8 DEF Dropped
  <2> QED BY <1>9, <2>1, <2>2
<1>12. Drops' /\ Broken' BY <1>0 DEF Drops, Broken
<1> QED BY <1>3, <1>4, <1>7, <1>10, <1>11, <1>12
-----------------------------------------------------------------------------
\* ensureChild makes a kernel.
Created(n) ==
  /\ Only(n) /\ ProcsKept /\ UNCHANGED <<child, shuttingDown>>
  /\ child = 0 /\ startup = 0 /\ ~shuttingDown
  /\ startup' = Len(kernel) + 1 /\ Len(kernel') = Len(kernel) + 1
  /\ \A j \in Kernels : kernel'[j] = kernel[j]
  /\ LET r == kernel'[Len(kernel) + 1] IN
     r.phase = "metadata" /\ r.proc = 0 /\ r.stop = "none" /\ r.victim = 0 /\ r.term = "none"
  /\ call[n].pc = "term" /\ Terminated(call[n].watch)
  /\ call'[n].pc = "startup" /\ call'[n].watch = startup'
  /\ call'[n].kind = call[n].kind /\ call'[n].answer = call[n].answer
  /\ call'[n].since = call[n].since

\* There is one process more, of kernel k.
OneMore(k) ==
  /\ Len(proc') = Len(proc) + 1 /\ Len(kernel') = Len(kernel)
  /\ \A p \in Procs : proc'[p] = proc[p]
  /\ LET q == proc'[Len(proc) + 1] IN q.state = "booting" /\ q.kernel = k /\ q.ready = "pending"
  /\ \A j \in Kernels : j # k => kernel'[j] = kernel[j]
  /\ LET r == kernel'[k] IN
     /\ r.proc = Len(proc) + 1 /\ r.stop = kernel[k].stop /\ r.victim = kernel[k].victim
     /\ r.term = kernel[k].term

\* KernelChild.start spawns a process for a kernel that has lost its own.
Again(n) ==
  /\ Only(n) /\ child # 0 /\ OneMore(child)
  /\ UNCHANGED <<child, startup, termination, shuttingDown>>
  /\ kernel[child].proc = 0 /\ kernel[child].stop = "none"
  /\ kernel'[child].phase = kernel[child].phase /\ kernel'[child].boot = kernel[child].boot
  /\ call[n].pc = "got" /\ call'[n].kind = call[n].kind /\ call'[n].answer = call[n].answer
  /\ call[n].kind # "reset"
  /\ call'[n].pc = "ready" /\ call'[n].at = child /\ call'[n].proc = Len(proc) + 1
  /\ call'[n].since = call[n].since /\ (call[n].kind = "js" => ~call'[n].settled)

\* startChild spawns.
Booting(k) ==
  /\ k \in Kernels /\ kernel[k].phase = "metadata" /\ OneMore(k) /\ child' = k
  /\ UNCHANGED <<call, startup, termination, shuttingDown>> /\ ~shuttingDown
  /\ kernel'[k].phase = "spawning" /\ kernel'[k].boot = Len(proc) + 1

OnePhase(k, phase) ==
  /\ k \in Kernels /\ Len(kernel') = Len(kernel)
  /\ \A j \in Kernels : j # k => kernel'[j] = kernel[j]
  /\ LET r == kernel'[k] IN
     /\ r.phase = phase /\ r.proc = kernel[k].proc /\ r.boot = kernel[k].boot
     /\ r.stop = kernel[k].stop /\ r.victim = kernel[k].victim /\ r.term = kernel[k].term
  /\ UNCHANGED <<call, proc, child, startup, termination, shuttingDown>>

\* startChild ends.
Abandoned(k) ==
  /\ OnePhase(k, "failed")
  /\ \/ kernel[k].phase = "metadata"
     \/ kernel[k].phase = "stopping" /\ kernel[k].stop # "pending"
Booted(k) ==
  /\ OnePhase(k, "ok") /\ kernel[k].phase = "spawning" /\ child = k
  /\ proc[kernel[k].boot].ready = "resolved"

\* Kernel k loses its process, which has gone or, with `kill`, is being killed.
Lost(k, kill) ==
  /\ Len(kernel') = Len(kernel) /\ Len(proc') = Len(proc) /\ Len(call') = Len(call)
  /\ \A j \in Kernels : j # k => kernel'[j] = kernel[j]
  /\ LET r == kernel'[k] IN
     /\ r.proc = 0 /\ r.boot = kernel[k].boot /\ r.term = kernel[k].term
     /\ r.stop = IF kill THEN "pending" ELSE kernel[k].stop
     /\ r.victim = IF kill THEN kernel[k].proc ELSE kernel[k].victim
  /\ \A p \in Procs :
       /\ proc'[p].kernel = proc[p].kernel
       /\ proc'[p].ready = IF p = kernel[k].proc /\ proc[p].ready = "pending"
                             THEN "rejected" ELSE proc[p].ready
  /\ \A m \in Calls :
       /\ Same(m) /\ call'[m].watch = call[m].watch /\ call'[m].settled = call[m].settled
       /\ call'[m].answer = call[m].answer
       /\ \/ call'[m].pc = call[m].pc
          \/ call[m].at = k /\ call[m].pc = "running" /\ call'[m].pc = "threw"
  /\ UNCHANGED <<startup, termination, shuttingDown>>

\* The catch block of startChild.
Undone(k) ==
  /\ k \in Kernels /\ kernel[k].phase = "spawning" /\ Lost(k, kernel[k].proc # 0)
  /\ kernel'[k].phase = "stopping" /\ child' = (IF child = k THEN 0 ELSE child)
  /\ \A p \in Procs : proc'[p].state = proc[p].state

\* The kernel's process p fails.
Failed(p, kill) ==
  /\ Quiet /\ p \in Procs /\ Alive(p) /\ kernel[proc[p].kernel].proc = p
  /\ Lost(proc[p].kernel, kill) /\ UNCHANGED child
  /\ kernel'[proc[p].kernel].phase = kernel[proc[p].kernel].phase
  /\ \A q \in Procs : proc'[q].state = IF q = p /\ ~kill THEN "dead" ELSE proc[q].state
  /\ kill \/ "idle_crash" \notin Faults => ~Idle(proc[p].kernel)
  /\ \A m \in Calls : call[m].at = proc[p].kernel /\ call[m].pc = "running" =>
       call'[m].pc = "threw"

\* The killed process p is gone.
Buried(p) ==
  /\ Quiet /\ p \in Procs /\ Len(kernel') = Len(kernel) /\ Len(proc') = Len(proc)
  /\ LET k == proc[p].kernel IN
     /\ kernel[k].victim = p /\ kernel[k].stop = "pending"
     /\ \A j \in Kernels : j # k => kernel'[j] = kernel[j]
     /\ kernel'[k].phase = kernel[k].phase /\ kernel'[k].proc = kernel[k].proc
     /\ kernel'[k].boot = kernel[k].boot /\ kernel'[k].stop = "none"
     /\ kernel'[k].victim = kernel[k].victim
     /\ kernel'[k].term = IF kernel[k].term = "pending" THEN "done" ELSE kernel[k].term
  /\ \A q \in Procs : /\ proc'[q].kernel = proc[q].kernel /\ proc'[q].ready = proc[q].ready
                      /\ proc'[q].state = IF q = p THEN "dead" ELSE proc[q].state
  /\ UNCHANGED <<call, child, startup, termination, shuttingDown>>

\* The startup is over, and forgotten.
Forgotten ==
  /\ startup' = 0 /\ (startup # 0 => Over(startup))
  /\ UNCHANGED <<kernel, proc, child, termination, shuttingDown>>
  /\ Len(call') = Len(call)
  /\ \A m \in Calls :
       /\ Same(m) /\ call'[m].settled = call[m].settled /\ call'[m].answer = call[m].answer
       /\ \/ call'[m].pc = call[m].pc /\ call'[m].watch = call[m].watch
          \/ call[m].pc = "cstart" /\ call'[m].pc = "cterm" /\ call'[m].watch = termination

\* The kernel's present process is ready, as it seems from process p.
Shaken(p) ==
  /\ Quiet /\ p \in Procs /\ UNCHANGED <<call, kernel, child, startup, termination, shuttingDown>>
  /\ Len(proc') = Len(proc) /\ proc[p].state # "dead"
  /\ \A q \in Procs :
       /\ proc'[q].kernel = proc[q].kernel /\ (proc'[q].state = "dead" <=> proc[q].state = "dead")
       /\ proc'[q].ready = IF q = kernel[proc[p].kernel].proc /\ proc[q].ready = "pending"
                             THEN "resolved" ELSE proc[q].ready
-----------------------------------------------------------------------------
LEMMA CreatedInv ==
  ASSUME Typed, KInv, NEW n, Created(n)
  PROVE  KInv'
<1> USE DEF Created, KInv, Only
<1> DEFINE K == Len(kernel) + 1
<1>1. Len(kernel) \in Nat /\ Kernels' = Kernels \cup {K} /\ K \notin Kernels
  BY DEF Typed, Kernels
<1>2. \A j \in Kernels : ~Busy(j)
  <2> SUFFICES ASSUME NEW j \in Kernels, Busy(j) PROVE FALSE OBVIOUS
  <2>1. j # 0 BY DEF Kernels
  <2>2. kernel[j].term = "pending" BY <2>1 DEF Owned
  <2>3. call[n].watch = j BY DEF Patient
  <2> QED BY <2>1, <2>2, <2>3 DEF Terminated
<1>3. \A j \in Kernels' : ~Busy(j)' BY <1>1, <1>2 DEF Busy
<1>4. Held'
  <2>1. \A p \in Procs : ~Alive(p)
    <3> SUFFICES ASSUME NEW p \in Procs, Alive(p) PROVE FALSE OBVIOUS
    <3>1. p # 0 /\ proc[p].kernel \in Kernels BY Proc DEF Procs
    <3> QED BY <3>1, <1>2 DEF Held, Busy
  <2>2. \A p \in Procs' : ~Alive(p)' BY <2>1 DEF ProcsKept, Procs, Alive
  <2> QED BY <1>1, <1>3, <2>2 DEF Held, Busy
<1>5. PhasesOK'
  <2> SUFFICES ASSUME NEW k \in Kernels'
               PROVE  /\ kernel'[k].phase \notin {"ok", "failed"} => startup' = k
                      /\ kernel'[k].phase = "metadata" =>
                           kernel'[k].proc = 0 /\ kernel'[k].stop = "none" /\ kernel'[k].term = "none"
                      /\ kernel'[k].phase = "stopping" => kernel'[k].proc = 0
                      /\ kernel'[k].phase = "failed" => ~Busy(k)'
                      /\ kernel'[k].phase = "spawning" /\ proc'[kernel'[k].boot].ready = "pending" =>
                           kernel'[k].proc = kernel'[k].boot
    BY DEF PhasesOK
  <2>1. CASE k = K BY <2>1
  <2>2. CASE k \in Kernels
    <3>1. kernel[k].phase \in {"ok", "failed"} BY <2>2 DEF PhasesOK, Kernels
    <3> QED BY <2>2, <3>1, <1>3
  <2> QED BY <1>1, <2>1, <2>2
<1>6. Owned'
  <2>1. startup' \in Kernels' /\ startup' # 0 BY <1>1
  <2> QED BY <1>3, <2>1 DEF Owned, Busy
<1>7. Patient' /\ Drops' /\ Broken' BY <1>1 DEF Patient, Drops, Broken
<1>8. Waiters'
  <2>1. \A m \in Calls : call[m].pc = "ready" =>
          call[m].proc \in Procs /\ call[m].proc # 0 /\ call[m].at \in Kernels
    BY Call DEF CallOK, Procs, Kernels
  <2>2. \A m \in Calls : call[m].pc = "ready" => proc'[call[m].proc].ready # "pending"
    BY <1>2, <2>1 DEF Waiters, ProcsKept, Busy
  <2> QED BY <2>2 DEF Waiters, Calls
<1> QED BY <1>4, <1>5, <1>6, <1>7, <1>8
-----------------------------------------------------------------------------
LEMMA NoneAlive ==
  ASSUME Typed, KInv, \A j \in Kernels : ~Busy(j)
  PROVE  \A p \in Procs : ~Alive(p)
<1> SUFFICES ASSUME NEW p \in Procs, Alive(p) PROVE FALSE OBVIOUS
<1>1. p # 0 /\ proc[p].kernel \in Kernels BY Proc DEF Procs
<1> QED BY <1>1 DEF KInv, Held, Busy

LEMMA NonePending ==
  ASSUME Typed, KInv, \A j \in Kernels : kernel[j].proc = 0,
         NEW n \in Calls, call[n].pc = "ready"
  PROVE  call[n].proc \in Procs /\ proc[call[n].proc].ready # "pending"
<1>1. call[n].proc \in Procs /\ call[n].proc # 0 /\ call[n].at \in Kernels
  BY Call DEF CallOK, Procs, Kernels
<1> QED BY <1>1 DEF KInv, Waiters

LEMMA AgainInv ==
  ASSUME Typed, KInv, NEW n, Again(n)
  PROVE  KInv'
<1> USE DEF Again, OneMore, Only, KInv
<1> DEFINE P == Len(proc) + 1
<1>1. Len(proc) \in Nat /\ Procs' = Procs \cup {P} /\ P \notin Procs /\ P # 0
      /\ Kernels' = Kernels /\ Calls' = Calls
  BY DEF Typed, Procs, Kernels, Calls
<1>2. \A j \in Kernels : ~Busy(j) BY DEF Owned, Busy
<1>3. child \in Kernels BY DEF Typed, ManagerOK, Kernels
<1>4. \A j \in Kernels : j # child => ~Busy(j)' BY <1>2 DEF Busy
<1>5. Held'
  <2>1. \A p \in Procs : ~Alive(p)' BY <1>2, NoneAlive DEF Alive
  <2>2. kernel'[proc'[P].kernel].proc = P OBVIOUS
  <2>3. ASSUME NEW k \in Kernels
        PROVE  /\ kernel'[k].stop = "pending" => kernel'[k].proc = 0
               /\ kernel'[k].term = "pending" => kernel'[k].stop = "pending"
               /\ kernel'[k].proc # 0 => proc'[kernel'[k].proc].ready # "rejected"
    <3>1. CASE k = child BY <3>1, <1>3 DEF Held
    <3>2. CASE k # child BY <3>2, <1>2 DEF Held, Busy
    <3> QED BY <3>1, <3>2
  <2> QED BY <1>1, <2>1, <2>2, <2>3 DEF Held
<1>6. PhasesOK'
  <2>1. kernel[child].phase \in {"spawning", "ok"} BY DEF Owned
  <2>2. kernel[child].phase = "spawning" =>
          kernel[child].boot \in Procs /\ proc[kernel[child].boot].ready # "pending"
    <3>1. kernel[child].phase = "spawning" => kernel[child].boot \in Procs /\ kernel[child].boot # 0
      BY <1>3, Kernel DEF Procs
    <3> QED BY <1>3, <3>1 DEF PhasesOK
  <2>3. kernel[child].phase = "spawning" => proc'[kernel[child].boot].ready # "pending"
    BY <2>2
  <2> SUFFICES ASSUME NEW k \in Kernels
               PROVE  /\ kernel'[k].phase \notin {"ok", "failed"} => startup = k
                      /\ kernel'[k].phase = "metadata" =>
                           kernel'[k].proc = 0 /\ kernel'[k].stop = "none" /\ kernel'[k].term = "none"
                      /\ kernel'[k].phase = "stopping" => kernel'[k].proc = 0
                      /\ kernel'[k].phase = "failed" => ~Busy(k)'
                      /\ kernel'[k].phase = "spawning" /\ proc'[kernel'[k].boot].ready = "pending" =>
                           kernel'[k].proc = kernel'[k].boot
    BY <1>1 DEF PhasesOK
  <2>4. CASE k = child BY <2>1, <2>3, <2>4, <1>3 DEF PhasesOK
  <2>5. CASE k # child
    <3>1. kernel'[k] = kernel[k] BY <2>5
    <3>2. kernel[k].phase # "spawning" BY <2>5, <1>1 DEF PhasesOK, Owned, Kernels
    <3> QED BY <3>1, <3>2, <2>5, <1>4 DEF PhasesOK
  <2> QED BY <2>4, <2>5
<1>7. Owned' BY <1>1, <1>3, <1>4 DEF Owned
<1>8. Patient' BY DEF Patient
<1>9. \A m \in Calls : call[m].pc = "ready" => call[m].proc \in Procs /\ call[m].proc # P
                                              /\ proc[call[m].proc].ready # "pending"
  BY <1>1, <1>2, NonePending DEF Busy
<1>10. Waiters' BY <1>1, <1>9 DEF Waiters
<1>11. ASSUME NEW m \in Calls PROVE (Dropper(m)' => Dropper(m)) /\ (Mover(m)' => Mover(m))
  <2>1. CASE m = n BY <2>1 DEF Dropper, Catcher, Doomed, Mover
  <2>2. CASE m # n
    <3>1. call'[m] = call[m] BY <2>2
    <3>2. call[m].watch \in 0 .. Len(kernel) BY Call DEF CallOK
    <3>3. Terminated(call[m].watch)' <=> Terminated(call[m].watch)
      <4>1. \A k \in Kernels : kernel'[k].term = kernel[k].term OBVIOUS
      <4>2. call[m].watch # 0 => call[m].watch \in Kernels BY <3>2 DEF Kernels
      <4> HIDE DEF Again, OneMore, Only, KInv
      <4> QED BY <3>1, <4>1, <4>2 DEF Terminated
    <3>4. Catcher(m)' => Catcher(m)
      <4>1. call[m].pc = "ready" => call[m].proc \in Procs BY <1>9
      <4> QED BY <3>1, <4>1 DEF Catcher, Doomed
    <3> QED BY <3>1, <3>3, <3>4 DEF Dropper, Mover
  <2> QED BY <2>1, <2>2
<1>12. Drops'
  <2>1. kernel[child].phase \in {"spawning", "ok"} BY DEF Owned
  <2>2. kernel[child].phase = "spawning" => kernel[child].boot \in Procs BY <1>3, Kernel
  <2> QED BY <1>1, <1>11, <2>1, <2>2 DEF Drops
<1>13. Broken'
  <2>1. kernel'[child].proc # 0 /\ kernel'[child].stop = "none" BY <1>1
  <2> QED BY <2>1 DEF Broken, Bereft
<1> QED BY <1>5, <1>6, <1>7, <1>8, <1>10, <1>12, <1>13

LEMMA BootingInv ==
  ASSUME Typed, KInv, NEW k, Booting(k)
  PROVE  KInv'
<1> USE DEF Booting, OneMore, KInv
<1> DEFINE P == Len(proc) + 1
<1>1. Len(proc) \in Nat /\ Procs' = Procs \cup {P} /\ P \notin Procs /\ P # 0
      /\ Kernels' = Kernels /\ Calls' = Calls /\ k # 0
  BY DEF Typed, Procs, Kernels, Calls
<1>2. startup = k /\ child = 0 /\ ~Busy(k) BY <1>1 DEF PhasesOK, Owned
<1>3. \A j \in Kernels : ~Busy(j) BY <1>1, <1>2 DEF Owned
<1>4. kernel[k].term = "none" /\ kernel[k].stop = "none" BY DEF PhasesOK
<1>5. \A j \in Kernels : j # k => ~Busy(j)' BY <1>3 DEF Busy
<1>6. Held'
  <2>1. \A p \in Procs : ~Alive(p)' BY <1>3, NoneAlive DEF Alive
  <2>2. kernel'[proc'[P].kernel].proc = P OBVIOUS
  <2>3. ASSUME NEW j \in Kernels
        PROVE  /\ kernel'[j].stop = "pending" => kernel'[j].proc = 0
               /\ kernel'[j].term = "pending" => kernel'[j].stop = "pending"
               /\ kernel'[j].proc # 0 => proc'[kernel'[j].proc].ready # "rejected"
    <3>1. CASE j = k BY <3>1, <1>4
    <3>2. CASE j # k BY <3>2, <1>3 DEF Held, Busy
    <3> QED BY <3>1, <3>2
  <2> QED BY <1>1, <2>1, <2>2, <2>3 DEF Held
<1>7. PhasesOK'
  <2> SUFFICES ASSUME NEW j \in Kernels, j # k PROVE kernel'[j].phase \in {"ok", "failed"}
    BY <1>1, <1>2, <1>5 DEF PhasesOK
  <2> QED BY <1>2 DEF PhasesOK
<1>8. Owned' BY <1>1, <1>2, <1>4, <1>5 DEF Owned
<1>9. Patient' BY <1>1 DEF Patient
<1>10. Waiters'
  <2>1. \A m \in Calls : call[m].pc = "ready" => call[m].proc \in Procs
                                              /\ proc[call[m].proc].ready # "pending"
    BY <1>3, NonePending DEF Busy
  <2> QED BY <1>1, <2>1 DEF Waiters
<1>11. Drops' BY <1>1, <1>2 DEF Drops
<1>12. Broken'
  <2>1. kernel'[k].proc # 0 /\ kernel'[k].stop = "none" BY <1>1, <1>4
  <2> QED BY <2>1 DEF Broken, Bereft
<1> QED BY <1>6, <1>7, <1>8, <1>9, <1>10, <1>11, <1>12
-----------------------------------------------------------------------------
LEMMA AbandonedInv ==
  ASSUME Typed, KInv, NEW k, Abandoned(k)
  PROVE  KInv'
<1> USE DEF Abandoned, OnePhase, KInv
<1>1. Kernels' = Kernels /\ Procs' = Procs /\ Calls' = Calls /\ k # 0
  BY DEF Procs, Kernels, Calls
<1>2. startup = k /\ ~Busy(k)
  BY <1>1 DEF PhasesOK, Owned, Busy
<1>3. child = 0 BY <1>1, <1>2 DEF Owned
<1>4. \A j \in Kernels : ~Busy(j) BY <1>1, <1>2 DEF Owned
<1>5. \A j \in Kernels : Busy(j)' <=> Busy(j) BY DEF Busy
<1>6. \A j \in Kernels : /\ kernel'[j].proc = kernel[j].proc /\ kernel'[j].stop = kernel[j].stop
                         /\ kernel'[j].term = kernel[j].term
  OBVIOUS
<1>7. Held'
  <2>1. \A p \in Procs : ~Alive(p)' BY <1>4, NoneAlive DEF Alive
  <2> QED BY <1>1, <1>6, <2>1 DEF Held
<1>8. PhasesOK' BY <1>1, <1>2, <1>4, <1>5 DEF PhasesOK
<1>9. Owned' BY <1>1, <1>2, <1>3, <1>4, <1>5, <1>6 DEF Owned
<1>10. Patient' /\ Drops' /\ Broken' BY <1>1, <1>2, <1>3 DEF Patient, Drops, Broken
<1>11. Waiters'
  <2>1. \A m \in Calls : call[m].pc = "ready" => proc[call[m].proc].ready # "pending"
    BY <1>4, NonePending DEF Busy
  <2> QED BY <1>1, <2>1 DEF Waiters
<1> QED BY <1>7, <1>8, <1>9, <1>10, <1>11

LEMMA BootedInv ==
  ASSUME Typed, KInv, NEW k, Booted(k)
  PROVE  KInv'
<1> USE DEF Booted, OnePhase, KInv
<1>1. Kernels' = Kernels /\ Procs' = Procs /\ Calls' = Calls /\ k # 0
  BY DEF Procs, Kernels, Calls
<1>2. startup = k /\ child = k BY <1>1 DEF PhasesOK
<1>3. ~Bereft(k) BY <1>1, <1>2 DEF Broken
<1>4. \A j \in Kernels : Busy(j)' <=> Busy(j) BY DEF Busy
<1>5. \A j \in Kernels : /\ kernel'[j].proc = kernel[j].proc /\ kernel'[j].stop = kernel[j].stop
                         /\ kernel'[j].term = kernel[j].term /\ kernel'[j].victim = kernel[j].victim
                         /\ kernel'[j].boot = kernel[j].boot
  OBVIOUS
<1>6. Held'
  <2>1. \A p \in Procs : proc[p].kernel \in Kernels /\ Alive(p)' = Alive(p) BY Proc DEF Alive
  <2> QED BY <1>1, <1>5, <2>1 DEF Held
<1>7. PhasesOK' BY <1>1, <1>2, <1>4 DEF PhasesOK
<1>8. Owned' BY <1>1, <1>2, <1>4, <1>5 DEF Owned
<1>9. Patient' BY <1>1, <1>2 DEF Patient
<1>10. ASSUME NEW m \in Calls
       PROVE  /\ call[m].pc = "ready" => kernel'[call[m].at].proc = kernel[call[m].at].proc
              /\ (Dropper(m)' => Dropper(m))
  <2>1. call[m].at \in 0 .. Len(kernel) /\ call[m].watch \in 0 .. Len(kernel)
        /\ (call[m].pc = "ready" => call[m].at \in Kernels)
    BY Call DEF CallOK, Kernels
  <2>2. Terminated(call[m].watch)' <=> Terminated(call[m].watch)
    BY <1>5, <2>1 DEF Terminated, Kernels
  <2>3. call[m].pc = "ready" => kernel'[call[m].at].proc = kernel[call[m].at].proc
    BY <1>5, <2>1
  <2>4. Catcher(m)' => Catcher(m) BY <2>3 DEF Catcher, Doomed
  <2> QED BY <2>2, <2>3, <2>4 DEF Dropper
<1>11. Waiters' BY <1>1, <1>10 DEF Waiters
<1>12. Drops' BY <1>1, <1>2, <1>10 DEF Drops
<1>13. Broken' BY <1>2, <1>3, <1>5 DEF Broken, Bereft
<1> QED BY <1>6, <1>7, <1>8, <1>9, <1>11, <1>12, <1>13

LEMMA ForgottenInv ==
  ASSUME Typed, KInv, Forgotten
  PROVE  KInv'
<1> USE DEF Forgotten, KInv
<1>1. Kernels' = Kernels /\ Procs' = Procs /\ Calls' = Calls BY DEF Procs, Kernels, Calls
<1>2. \A j \in Kernels : kernel[j].phase \in {"ok", "failed"}
  BY DEF PhasesOK, Over, Kernels
<1>3. Held' BY <1>1 DEF Held, Alive
<1>4. PhasesOK' BY <1>1, <1>2 DEF PhasesOK, Busy
<1>5. Owned' BY <1>1, <1>2 DEF Owned, Busy
<1>6. Patient'
  <2>1. CASE startup = 0 BY <1>1, <2>1 DEF Patient, Busy
  <2>2. CASE startup # 0
    <3>1. startup \in Kernels BY <2>2 DEF Typed, ManagerOK, Kernels
    <3>2. child = 0 => \A j \in Kernels : ~Busy(j) BY <2>2, <3>1 DEF Owned, PhasesOK, Over
    <3> QED BY <1>1, <3>2 DEF Patient, Busy
  <2> QED BY <2>1, <2>2
<1>7. Waiters' BY <1>1 DEF Waiters, Same
<1>8. ASSUME NEW m \in Calls
      PROVE  (Catcher(m)' <=> Catcher(m)) /\ (Dropper(m)' <=> Dropper(m)) /\ (Mover(m)' <=> Mover(m))
  BY DEF Catcher, Dropper, Mover, Doomed, Same, Terminated
<1>9. Drops'
  <2> SUFFICES ASSUME child # 0, NEW m \in Calls, Dropper(m), NEW l \in Calls, Mover(l) PROVE FALSE
    BY <1>1, <1>8 DEF Drops
  <2>1. startup # 0 => kernel[child].phase = "ok" BY DEF Owned, Over
  <2> QED BY <2>1 DEF Drops
<1>10. Broken' BY <1>1, <1>8 DEF Broken, Bereft, Terminated
<1> QED BY <1>3, <1>4, <1>5, <1>6, <1>7, <1>9, <1>10

LEMMA ShakenInv ==
  ASSUME Typed, KInv, NEW p, Shaken(p)
  PROVE  KInv'
<1> USE DEF Shaken, KInv
<1> DEFINE q == kernel[proc[p].kernel].proc
<1>1. Kernels' = Kernels /\ Procs' = Procs /\ Calls' = Calls BY DEF Procs, Kernels, Calls
<1>2. \A r \in Procs : proc[r].ready # "rejected" => proc'[r].ready # "rejected" OBVIOUS
<1>3. \A r \in Procs : proc'[r].ready = "pending" => proc[r].ready = "pending" OBVIOUS
<1>4. Held'
  <2>1. \A r \in Procs : Alive(r)' = Alive(r) /\ proc'[r].kernel = proc[r].kernel BY DEF Alive
  <2>2. \A k \in Kernels : kernel[k].proc # 0 => kernel[k].proc \in Procs BY Kernel
  <2> QED BY <1>1, <1>2, <2>1, <2>2 DEF Held
<1>5. PhasesOK'
  <2>1. \A k \in Kernels : kernel[k].phase = "spawning" => kernel[k].boot \in Procs BY Kernel
  <2> QED BY <1>1, <1>3, <2>1 DEF PhasesOK, Busy
<1>6. Owned' /\ Patient' BY <1>1 DEF Owned, Patient, Busy
<1>7. ASSUME NEW m \in Calls, call[m].pc = "ready"
      PROVE  /\ call[m].proc \in Procs /\ call[m].proc # 0
             /\ proc[call[m].proc].ready = "pending" /\ kernel[call[m].at].proc = call[m].proc
  <2>1. call[m].proc \in Procs /\ call[m].proc # 0 BY <1>7, Call DEF CallOK, Procs
  <2>2. proc[call[m].proc].ready = "pending" BY <1>7, QuietFacts
  <2> QED BY <1>7, <2>1, <2>2 DEF Waiters
<1>8. Waiters' BY <1>1, <1>7 DEF Waiters
<1>9. \A m \in Calls : ~Dropper(m)'
  <2> SUFFICES ASSUME NEW m \in Calls PROVE ~Dropper(m)' OBVIOUS
  <2>1. ~Dropper(m) /\ call[m].pc # "threw" BY QuietFacts
  <2>2. call[m].pc = "ready" => ~Doomed(m)'
    <3> SUFFICES ASSUME call[m].pc = "ready" PROVE ~Doomed(m)' OBVIOUS
    <3>1. proc'[call[m].proc].ready # "rejected" BY <1>7
    <3>2. kernel'[call[m].at].proc # 0 BY <1>7
    <3> QED BY <3>1, <3>2 DEF Doomed
  <2> QED BY <2>1, <2>2 DEF Dropper, Catcher, Terminated
<1>10. Drops' BY <1>1, <1>9 DEF Drops
<1>11. Broken' BY QuietFacts DEF Broken, Bereft
<1> QED BY <1>4, <1>5, <1>6, <1>8, <1>10, <1>11
-----------------------------------------------------------------------------
LEMMA LostFacts ==
  ASSUME Typed, KInv, NEW k \in Kernels, NEW kill \in BOOLEAN, Lost(k, kill),
         kill => kernel[k].proc # 0,
         \A j \in Kernels : j # k => ~Busy(j),
         \A p \in Procs : Alive(p)' => Alive(p) /\ (p = kernel[k].proc => kill)
  PROVE  /\ Held'
         /\ \A m \in Calls :
              call'[m].pc = "ready" =>
                call[m].pc = "ready" /\ proc'[call'[m].proc].ready # "pending"
<1> USE DEF Lost, KInv
<1>1. Kernels' = Kernels /\ Procs' = Procs /\ Calls' = Calls BY DEF Procs, Kernels, Calls
<1>2. Held'
  <2>1. ASSUME NEW p \in Procs, Alive(p)'
        PROVE  \/ kernel'[proc'[p].kernel].proc = p
               \/ /\ kernel'[proc'[p].kernel].victim = p
                  /\ kernel'[proc'[p].kernel].stop = "pending"
    <3>1. Alive(p) /\ proc'[p].kernel = proc[p].kernel /\ proc[p].kernel \in Kernels /\ p # 0
      BY <2>1, Proc DEF Procs
    <3>2. \/ kernel[proc[p].kernel].proc = p
          \/ kernel[proc[p].kernel].victim = p /\ kernel[proc[p].kernel].stop = "pending"
      BY <3>1 DEF Held
    <3>3. proc[p].kernel = k BY <3>1, <3>2 DEF Busy
    <3>4. CASE kernel[k].proc = p BY <2>1, <3>1, <3>3, <3>4
    <3>5. CASE kernel[k].victim = p /\ kernel[k].stop = "pending"
      <4>1. kernel[k].proc = 0 BY <3>5 DEF Held
      <4> QED BY <3>1, <3>3, <3>5, <4>1
    <3> QED BY <3>2, <3>3, <3>4, <3>5
  <2>2. ASSUME NEW j \in Kernels
        PROVE  /\ kernel'[j].stop = "pending" => kernel'[j].proc = 0
               /\ kernel'[j].term = "pending" => kernel'[j].stop = "pending"
               /\ kernel'[j].proc # 0 => proc'[kernel'[j].proc].ready # "rejected"
    <3>1. CASE j = k BY <3>1 DEF Held
    <3>2. CASE j # k
      <4>1. kernel'[j] = kernel[j] /\ kernel[j].proc = 0 BY <3>2 DEF Busy
      <4> QED BY <4>1 DEF Held
    <3> QED BY <3>1, <3>2
  <2> QED BY <1>1, <2>1, <2>2 DEF Held
<1>3. ASSUME NEW m \in Calls, call'[m].pc = "ready"
      PROVE  call[m].pc = "ready" /\ proc'[call'[m].proc].ready # "pending"
  <2>1. call[m].pc = "ready" /\ call'[m].proc = call[m].proc BY <1>3 DEF Same
  <2>2. call[m].proc \in Procs /\ call[m].proc # 0 /\ call[m].at \in Kernels
    BY <2>1, Call DEF CallOK, Procs, Kernels
  <2>3. CASE proc[call[m].proc].ready # "pending" BY <2>1, <2>2, <2>3
  <2>4. CASE proc[call[m].proc].ready = "pending"
    <3>1. kernel[call[m].at].proc = call[m].proc BY <2>1, <2>4 DEF Waiters
    <3>2. call[m].at = k BY <2>2, <3>1 DEF Busy
    <3> QED BY <2>1, <2>2, <2>4, <3>1, <3>2
  <2> QED BY <2>3, <2>4
<1> QED BY <1>2, <1>3

LEMMA LostWaiters ==
  ASSUME Typed, KInv, NEW k \in Kernels, NEW kill, Lost(k, kill),
         \A m \in Calls :
              call'[m].pc = "ready" => proc'[call'[m].proc].ready # "pending"
  PROVE  Waiters'
BY DEF Lost, KInv, Waiters, Calls

LEMMA UndoneInv ==
  ASSUME Typed, KInv, NEW k, Undone(k)
  PROVE  KInv'
<1> USE DEF Undone, KInv
<1>1. Kernels' = Kernels /\ Procs' = Procs /\ Calls' = Calls /\ k # 0
  BY DEF Procs, Kernels, Calls, Lost
<1>2. startup = k /\ startup' = k BY DEF PhasesOK, Lost
<1>3. child' = 0 BY <1>1, <1>2 DEF Owned
<1>4. \A j \in Kernels : j # k => ~Busy(j) /\ kernel'[j] = kernel[j]
  BY <1>1, <1>2 DEF Owned, Lost
<1>5. \A p \in Procs : Alive(p)' => Alive(p) BY DEF Alive
<1>6. Held' /\ \A m \in Calls : call'[m].pc = "ready" => proc'[call'[m].proc].ready # "pending"
  <2>1. CASE kernel[k].proc # 0
    <3>1. Lost(k, TRUE) BY <2>1 DEF Lost
    <3> QED BY <1>4, <1>5, <2>1, <3>1, LostFacts
  <2>2. CASE kernel[k].proc = 0
    <3>1. Lost(k, FALSE) BY <2>2 DEF Lost
    <3>2. \A p \in Procs : p # kernel[k].proc BY <2>2 DEF Procs
    <3> QED BY <1>4, <1>5, <2>2, <3>1, <3>2, LostFacts
  <2> QED BY <2>1, <2>2
<1>7. \A j \in Kernels : kernel'[j].proc = 0 /\ (Busy(j)' => j = k)
  BY <1>4 DEF Lost, Busy
<1>8. PhasesOK'
  <2> SUFFICES ASSUME NEW j \in Kernels, j # k PROVE kernel'[j].phase \in {"ok", "failed"}
               /\ (kernel'[j].phase = "failed" => ~Busy(j)')
    BY <1>1, <1>2, <1>7 DEF PhasesOK
  <2> QED BY <1>2, <1>4, <1>7 DEF PhasesOK
<1>9. Owned' BY <1>1, <1>2, <1>3, <1>7 DEF Owned
<1>10. Patient' /\ Drops' /\ Broken' BY <1>1, <1>2, <1>3 DEF Patient, Drops, Broken
<1>11. Waiters' BY <1>6, LostWaiters
<1> QED BY <1>6, <1>8, <1>9, <1>10, <1>11

LEMMA FailedInv ==
  ASSUME Typed, KInv, NEW p, NEW kill \in BOOLEAN, Failed(p, kill)
  PROVE  KInv'
<1> USE DEF Failed, KInv
<1> DEFINE k == proc[p].kernel
<1>1. Kernels' = Kernels /\ Procs' = Procs /\ Calls' = Calls /\ p # 0 /\ k \in Kernels /\ k # 0
  BY Proc DEF Procs, Kernels, Calls, Lost
<1>2. child = k /\ UNCHANGED <<child, startup, termination, shuttingDown>>
  BY <1>1 DEF Owned, Busy, Lost
<1>3. \A j \in Kernels : j # k => ~Busy(j) /\ kernel'[j] = kernel[j]
  BY <1>1, <1>2 DEF Owned, Lost
<1>4. kernel[k].phase \in {"spawning", "ok"} /\ kernel[k].term = "none" /\ startup \in {0, k}
      /\ ~shuttingDown /\ kernel[k].stop # "pending"
  BY <1>1, <1>2, QuietFacts DEF Owned
<1>5. \A q \in Procs : Alive(q)' => Alive(q) /\ (q = kernel[k].proc => kill) BY DEF Alive
<1>6. Held' /\ \A m \in Calls : call'[m].pc = "ready" =>
                 call[m].pc = "ready" /\ proc'[call'[m].proc].ready # "pending"
  <2>1. kill => kernel[k].proc # 0 BY <1>1
  <2>2. Lost(k, kill) OBVIOUS
  <2> HIDE DEF k
  <2> QED BY <1>1, <1>3, <1>5, <2>1, <2>2, LostFacts
<1>7. \A j \in Kernels : kernel'[j].proc = 0 /\ (Busy(j)' => j = k /\ kill)
  BY <1>3, <1>4 DEF Lost, Busy
<1>8. kernel[k].phase = "spawning" =>
        kernel[k].boot = p /\ proc[p].ready = "pending" /\ proc'[p].ready = "rejected"
  <2> SUFFICES ASSUME kernel[k].phase = "spawning"
               PROVE  kernel[k].boot = p /\ proc[p].ready = "pending" /\ proc'[p].ready = "rejected"
    OBVIOUS
  <2>1. startup # 0 BY <1>1, <1>2, <1>4 DEF PhasesOK
  <2>2. kernel[k].boot = p /\ proc[p].ready = "pending" BY <1>1, <1>2, <2>1, QuietFacts
  <2> QED BY <2>2 DEF Lost
<1>9. PhasesOK'
  <2>1. ASSUME NEW j \in Kernels, j # k
        PROVE  kernel'[j] = kernel[j] /\ kernel[j].phase \in {"ok", "failed"} /\ ~Busy(j)'
    BY <2>1, <1>1, <1>3, <1>4, <1>7 DEF PhasesOK, Kernels
  <2>2. kernel'[k].boot = kernel[k].boot BY DEF Lost
  <2> QED BY <1>1, <1>2, <1>4, <1>8, <2>1, <2>2 DEF PhasesOK
<1>10. Owned'
  <2>1. kernel'[k].term = "none" BY <1>4 DEF Lost
  <2> QED BY <1>1, <1>2, <1>4, <1>7, <2>1 DEF Owned
<1>11. Patient' BY <1>1, <1>2 DEF Patient
<1>12. Waiters' BY <1>6, <1>1, LostWaiters
<1>13. ASSUME NEW m \in Calls
       PROVE  /\ Terminated(call[m].watch)' <=> Terminated(call[m].watch)
              /\ call'[m].watch = call[m].watch
              /\ call'[m].pc # call[m].pc => call[m].pc = "running" /\ call'[m].pc = "threw"
  <2>1. call[m].watch \in 0 .. Len(kernel) /\ call'[m].watch = call[m].watch
    BY Call DEF CallOK, Lost
  <2>2. \A j \in Kernels : kernel'[j].term = kernel[j].term BY <1>3 DEF Lost
  <2> QED BY <2>1, <2>2 DEF Terminated, Kernels, Lost
<1>14. Drops'
  <2>1. startup # 0 => kernel[k].phase = "spawning" BY <1>1, <1>2, QuietFacts
  <2>2. startup # 0 => kernel'[k].phase = "spawning" /\ proc'[kernel'[k].boot].ready = "rejected"
    BY <1>8, <2>1 DEF Lost
  <2>3. startup = 0 => \A m \in Calls : ~Mover(m)'
    BY <1>1, <1>2, <1>13, QuietFacts DEF Mover
  <2> QED BY <1>1, <1>2, <2>2, <2>3 DEF Drops
<1>15. Broken'
  <2> SUFFICES ASSUME kill \/ "idle_crash" \notin Faults PROVE Broken'
    BY <1>2, <1>4 DEF Broken, Bereft, Lost
  <2>1. ASSUME NEW m \in Calls
        PROVE  /\ call'[m].pc \notin {"term", "got"}
               /\ call'[m].pc = "startup" =>
                    call'[m].watch = child /\ kernel'[child].phase = "spawning"
               /\ ~(call'[m].pc = "rstop" /\ Terminated(call[m].watch)')
    BY <1>1, <1>2, <1>13, QuietFacts
  <2>2. CASE kernel[k].phase = "spawning"
    <3>1. kernel'[k].phase = "spawning" /\ proc'[kernel'[k].boot].ready = "rejected"
      BY <1>8, <2>2 DEF Lost
    <3> QED BY <1>1, <1>2, <2>1, <3>1 DEF Broken
  <2>3. CASE kernel[k].phase = "ok"
    <3>1. PICK m \in Calls : /\ call[m].kind = "js" /\ ~call[m].settled /\ call[m].at = k
                             /\ call[m].pc \in {"ready", "running"}
      BY <2>3 DEF Idle
    <3>2. call'[m].kind = "js" /\ ~call'[m].settled /\ call'[m].at = k
          /\ call'[m].proc = call[m].proc
      BY <3>1 DEF Lost, Same
    <3>3. call[m].pc = "running" => call'[m].pc = "threw" BY <3>1 DEF Lost
    <3>4. call[m].pc = "ready" => call'[m].pc = "ready" /\ Doomed(m)'
      <4> SUFFICES ASSUME call[m].pc = "ready" PROVE call'[m].pc = "ready" /\ Doomed(m)' OBVIOUS
      <4>1. call'[m].pc = "ready" BY <3>1 DEF Lost
      <4>2. call[m].proc \in Procs /\ proc[call[m].proc].ready = "pending"
        BY Call, QuietFacts DEF CallOK, Procs
      <4>3. call[m].proc = p BY <3>1, <4>2 DEF Waiters
      <4>4. proc'[p].ready = "rejected" BY <4>2, <4>3 DEF Lost
      <4> QED BY <3>2, <4>1, <4>3, <4>4 DEF Doomed
    <3>5. Catcher(m)' BY <1>1, <1>2, <3>1, <3>2, <3>3, <3>4 DEF Catcher
    <3> QED BY <1>1, <1>2, <2>1, <2>3, <3>5 DEF Broken
  <2> QED BY <1>4, <2>2, <2>3
<1> QED BY <1>6, <1>9, <1>10, <1>11, <1>12, <1>14, <1>15

LEMMA BuriedInv ==
  ASSUME Typed, KInv, NEW p, Buried(p)
  PROVE  KInv'
<1> USE DEF Buried, KInv
<1> DEFINE k == proc[p].kernel
<1>1. Kernels' = Kernels /\ Procs' = Procs /\ Calls' = Calls /\ p # 0 /\ k \in Kernels /\ k # 0
  BY Proc DEF Procs, Kernels, Calls
<1>2. Busy(k) /\ kernel[k].proc = 0 BY <1>1 DEF Busy, Held
<1>3. child = 0 BY <1>1, <1>2, QuietFacts DEF Owned
<1>4. \A j \in Kernels : j # k => ~Busy(j) /\ kernel'[j] = kernel[j]
  <2> SUFFICES ASSUME NEW j \in Kernels, j # k PROVE ~Busy(j) OBVIOUS
  <2>1. CASE startup # 0 BY <1>1, <1>2, <2>1 DEF Owned
  <2>2. CASE startup = 0 BY <1>1, <1>2, <1>3, <2>2 DEF Owned, Kernels
  <2> QED BY <2>1, <2>2
<1>5. \A j \in Kernels : ~Busy(j)' BY <1>2, <1>4 DEF Busy
<1>6. Held'
  <2>1. ASSUME NEW q \in Procs, Alive(q)' PROVE FALSE
    <3>1. Alive(q) /\ q # p /\ proc[q].kernel \in Kernels /\ q # 0 BY <2>1, Proc DEF Alive, Procs
    <3>2. proc[q].kernel = k BY <3>1, <1>4 DEF Held, Busy
    <3> QED BY <1>2, <3>1, <3>2 DEF Held
  <2>2. \A j \in Kernels : kernel'[j].term # "pending" /\ kernel'[j].stop # "pending"
                           /\ kernel'[j].proc = 0
    BY <1>2, <1>4, <1>5 DEF Held, Busy
  <2> QED BY <1>1, <2>1, <2>2 DEF Held
<1>7. PhasesOK'
  <2>1. kernel[k].phase \notin {"metadata", "failed", "spawning"} \/ kernel[k].phase = "spawning"
    BY <1>1, <1>2 DEF PhasesOK
  <2>2. kernel[k].phase # "spawning"
    <3> SUFFICES ASSUME kernel[k].phase = "spawning" PROVE FALSE OBVIOUS
    <3>1. proc[kernel[k].boot].ready = "pending" BY <1>1 DEF StartResumable, Quiet
    <3>2. kernel[k].boot # 0 BY <1>1, Kernel DEF Procs
    <3> QED BY <1>1, <1>2, <3>1, <3>2 DEF PhasesOK
  <2>3. \A j \in Kernels : kernel[j].phase = "spawning" =>
          proc'[kernel[j].boot].ready = proc[kernel[j].boot].ready
    BY Kernel
  <2> SUFFICES ASSUME NEW j \in Kernels
               PROVE  /\ kernel'[j].phase \notin {"ok", "failed"} => startup = j
                      /\ kernel'[j].phase = "metadata" =>
                           kernel'[j].proc = 0 /\ kernel'[j].stop = "none" /\ kernel'[j].term = "none"
                      /\ kernel'[j].phase = "stopping" => kernel'[j].proc = 0
                      /\ kernel'[j].phase = "failed" => ~Busy(j)'
                      /\ kernel'[j].phase = "spawning" /\ proc'[kernel'[j].boot].ready = "pending" =>
                           kernel'[j].proc = kernel'[j].boot
    BY <1>1 DEF PhasesOK
  <2>4. CASE j = k BY <1>1, <1>2, <2>1, <2>2, <2>4 DEF PhasesOK
  <2>5. CASE j # k BY <1>4, <1>5, <2>3, <2>5 DEF PhasesOK
  <2> QED BY <2>4, <2>5
<1>8. Owned' BY <1>1, <1>2, <1>3, <1>4, <1>5 DEF Owned, Busy
<1>9. Patient' /\ Drops' /\ Broken' BY <1>1, <1>3, <1>5 DEF Patient, Drops, Broken
<1>10. Waiters'
  <2>1. \A j \in Kernels : kernel[j].proc = 0 BY <1>2, <1>4 DEF Busy
  <2>2. \A m \in Calls : call[m].pc = "ready" =>
          call[m].proc \in Procs /\ proc[call[m].proc].ready # "pending"
    BY <2>1, NonePending
  <2> QED BY <1>1, <2>2 DEF Waiters
<1> QED BY <1>6, <1>7, <1>8, <1>9, <1>10
-----------------------------------------------------------------------------
\* What At, and the assignments after it, make of a call.
Moved(c, pc, w, a, q) == [c EXCEPT !.pc = pc, !.watch = w, !.at = a, !.proc = q]

LEMMA MovedForms ==
  ASSUME NEW c \in CallRec, NEW pc, NEW w
  PROVE  /\ [c EXCEPT !.pc = pc, !.watch = w] = Moved(c, pc, w, c.at, c.proc)
         /\ [c EXCEPT !.pc = pc] = Moved(c, pc, c.watch, c.at, c.proc)
BY DEF Moved, CallRec

LEMMA OneCall ==
  ASSUME Typed, NEW n \in Calls, NEW r \in CallRec, CallOK(r, Len(kernel), Len(proc)),
         call' = [call EXCEPT ![n] = r]
  PROVE  call' \in Seq(CallsFor(Len(kernel), Len(proc))) /\ Only(n) /\ call'[n] = r
<1>1. r \in CallsFor(Len(kernel), Len(proc)) BY DEF CallsFor
<1> QED BY <1>1, Put DEF Typed, Only, Calls

\* The manager and the processes are not affected, or forget something.
Calm ==
  /\ UNCHANGED <<kernel, child, generation, shuttingDown, metadata, moduleDirs>>
  /\ proc' \in Seq(ProcsFor(Len(kernel), Len(call))) /\ ProcsKept
  /\ active' \in {active, 0} /\ startup' \in {startup, 0} /\ termination' \in {termination, 0}
  /\ reading' = FALSE

LEMMA OneCallTyped ==
  ASSUME Typed, NEW n \in Calls, NEW r \in CallRec, CallOK(r, Len(kernel), Len(proc)),
         r.kind = call[n].kind, call' = [call EXCEPT ![n] = r], Calm
  PROVE  Typed' /\ Only(n) /\ ProcsKept /\ call'[n] = r
<1> USE DEF Calm
<1>1. call' \in Seq(CallsFor(Len(kernel), Len(proc))) /\ Only(n) /\ call'[n] = r BY OneCall
<1>2. ManagerOK'
  <2>1. ManagerOK /\ Len(call') = Len(call) BY <1>1 DEF Typed, Only
  <2>2. active' # 0 => call'[active'].kind = "js" BY <1>1, <2>1 DEF ManagerOK, Only, Calls
  <2> QED BY <2>1, <2>2 DEF ManagerOK
<1> QED BY <1>1, <1>2 DEF Typed, Only, ProcsKept

LEMMA CalmManager ==
  ASSUME Typed, UNCHANGED <<kernel, proc, child, generation, shuttingDown, metadata, moduleDirs>>,
         active' \in {active, 0}, startup' \in {startup, 0}, termination' \in {termination, 0},
         reading' = FALSE
  PROVE  Calm
BY DEF Calm, Typed, ProcsKept

LEMMA AtForm ==
  ASSUME Typed, NEW n \in Calls, NEW pc, NEW w
  PROVE  At(n, pc, w) = [call EXCEPT ![n] = Moved(call[n], pc, w, call[n].at, call[n].proc)]
BY AtFacts, MovedForms, Call

LEMMA EndedForm ==
  ASSUME Typed, NEW n \in Calls
  PROVE  Ended(call, n) =
           [call EXCEPT ![n] = Moved(call[n], "done", call[n].watch, call[n].at, call[n].proc)]
<1>1. Ended(call, n) = [call EXCEPT ![n] = [call[n] EXCEPT !.pc = "done"]] BY DEF Ended
<1> QED BY <1>1, MovedForms, Call

LEMMA AtFormAt ==
  ASSUME Typed, NEW n \in Calls, NEW pc, NEW w, NEW a
  PROVE  [At(n, pc, w) EXCEPT ![n].at = a] =
           [call EXCEPT ![n] = Moved(call[n], pc, w, a, call[n].proc)]
<1> DEFINE r == [call[n] EXCEPT !.pc = pc, !.watch = w]
<1>1. At(n, pc, w) = [call EXCEPT ![n] = r] BY AtFacts
<1>2. n \in DOMAIN call BY DEF Typed, Calls
<1>3. call[n] \in CallRec BY Call
<1>4. [r EXCEPT !.at = a] = Moved(call[n], pc, w, a, call[n].proc) BY <1>3 DEF Moved, CallRec
<1> HIDE DEF r
<1>5. [At(n, pc, w) EXCEPT ![n].at = a] = [call EXCEPT ![n] = [r EXCEPT !.at = a]]
  BY <1>1, <1>2
<1> QED BY <1>4, <1>5

LEMMA AtFormProc ==
  ASSUME Typed, NEW n \in Calls, NEW pc, NEW w, NEW q
  PROVE  [At(n, pc, w) EXCEPT ![n].proc = q] =
           [call EXCEPT ![n] = Moved(call[n], pc, w, call[n].at, q)]
<1> DEFINE r == [call[n] EXCEPT !.pc = pc, !.watch = w]
<1>1. At(n, pc, w) = [call EXCEPT ![n] = r] BY AtFacts
<1>2. n \in DOMAIN call BY DEF Typed, Calls
<1>3. call[n] \in CallRec BY Call
<1>4. [r EXCEPT !.proc = q] = Moved(call[n], pc, w, call[n].at, q) BY <1>3 DEF Moved, CallRec
<1> HIDE DEF r
<1>5. [At(n, pc, w) EXCEPT ![n].proc = q] = [call EXCEPT ![n] = [r EXCEPT !.proc = q]]
  BY <1>1, <1>2
<1> QED BY <1>4, <1>5

\* Call n may go to pc, and await w, a or q there.
Legal(n, pc, w, a, q) ==
  /\ pc \in Places \ {"stopping", "rterm", "cstart"}
  /\ w \in 0 .. Len(kernel) /\ a \in 0 .. Len(kernel) /\ q \in Nat
  /\ pc = "startup" => w # 0
  /\ pc \in {"got", "ready", "running"} => a # 0
  /\ pc \in {"ready", "running"} => q \in 1 .. Len(proc)
  /\ pc \in {"term", "startup", "rstop", "cterm"} => a = 0
  /\ pc = "rstop" => call[n].kind = "reset"
  /\ pc = "cterm" => call[n].kind = "close"
  /\ call[n].kind = "close" => pc \in {"cterm", "done"}
  /\ call[n].kind = "reset" => pc \notin {"ready", "running"}
  /\ pc = "failing" => call[n].kind = "js"

Moves(n, pc, w, a, q) ==
  /\ Typed' /\ Only(n) /\ ProcsKept
  /\ call'[n].pc = pc /\ call'[n].watch = w /\ call'[n].at = a /\ call'[n].proc = q
  /\ call'[n].kind = call[n].kind /\ call'[n].settled = call[n].settled
  /\ call'[n].since = call[n].since /\ call'[n].answer = call[n].answer

LEMMA Move ==
  ASSUME Typed, NEW n \in Calls, NEW pc, NEW w, NEW a, NEW q, Legal(n, pc, w, a, q), Calm,
         call' = [call EXCEPT ![n] = Moved(call[n], pc, w, a, q)]
  PROVE  Moves(n, pc, w, a, q)
<1> DEFINE d == Moved(call[n], pc, w, a, q)
<1>1. Len(kernel) \in Nat /\ Len(proc) \in Nat BY DEF Typed
<1>2. pc \in Places /\ w \in Nat /\ a \in Nat /\ q \in Nat BY <1>1 DEF Legal
<1>3. call[n] \in CallRec /\ CallOK(call[n], Len(kernel), Len(proc)) BY Call
<1>4. d \in CallRec /\ d.pc = pc /\ d.watch = w /\ d.at = a /\ d.proc = q
      /\ d.kind = call[n].kind /\ d.settled = call[n].settled /\ d.since = call[n].since
      /\ d.answer = call[n].answer
      /\ d.timerWatch = call[n].timerWatch /\ d.timeoutPending = call[n].timeoutPending
  BY <1>2, <1>3 DEF Moved, CallRec
<1> HIDE DEF d
<1>5. CallOK(d, Len(kernel), Len(proc)) BY <1>3, <1>4 DEF CallOK, Legal
<1>6. Typed' /\ Only(n) /\ ProcsKept /\ call'[n] = d BY <1>4, <1>5, OneCallTyped DEF d
<1> QED BY <1>4, <1>6 DEF Moves

LEMMA Sizes ==
  ASSUME Typed
  PROVE  /\ child \in 0 .. Len(kernel) /\ startup \in 0 .. Len(kernel)
         /\ termination \in 0 .. Len(kernel) /\ Len(kernel) \in Nat /\ Len(proc) \in Nat
         /\ Len(call) \in Nat /\ active \in 0 .. Len(call)
         /\ (active # 0 => active \in Calls /\ call[active].kind = "js")
         /\ (child # 0 => child \in Kernels) /\ (startup # 0 => startup \in Kernels)
BY DEF Typed, ManagerOK, Kernels, Calls


LEMMA EnsureStep ==
  ASSUME Typed, NEW n \in Calls, ResumeEnsureChild(n), UNCHANGED kernel, reading' = FALSE
  PROVE  Typed' /\ Micro(n)
<1>1. /\ call[n].watch \in 0 .. Len(kernel) /\ call[n].proc \in Nat /\ call[n].at = 0
      /\ call[n].pc = "term" /\ Terminated(call[n].watch) /\ call[n].kind # "close"
  BY Call DEF CallOK, CallRec, ResumeEnsureChild
<1>2. /\ UNCHANGED <<kernel, proc, child, generation, shuttingDown, metadata, moduleDirs, active>>
      /\ termination' # termination => termination' = 0 /\ Terminated(termination)
  BY <1>1 DEF ResumeEnsureChild
<1>3. kernel' # Append(kernel, NewKernel(generation)) BY DEF Typed
<1>4. /\ \/ call' = At(n, "threw", 0)
         \/ child # 0 /\ call' = [At(n, "got", 0) EXCEPT ![n].at = child]
         \/ child = 0 /\ startup # 0 /\ call' = At(n, "startup", startup)
      /\ startup' = startup
  BY <1>3 DEF ResumeEnsureChild
<1>5. Calm BY <1>2, <1>4, CalmManager DEF ResumeEnsureChild
<1>6. CASE call' = At(n, "threw", 0)
  <2>1. call' = [call EXCEPT ![n] = Moved(call[n], "threw", 0, 0, call[n].proc)]
    BY <1>1, <1>6, AtForm
  <2>2. Legal(n, "threw", 0, 0, call[n].proc) BY <1>1, Sizes DEF Legal, Places
  <2>3. Moves(n, "threw", 0, 0, call[n].proc) BY <1>5, <2>1, <2>2, Move
  <2> QED BY <1>1, <1>2, <1>4, <2>3 DEF Micro, Catcher, Moves
<1>7. CASE child # 0 /\ call' = [At(n, "got", 0) EXCEPT ![n].at = child]
  <2>1. call' = [call EXCEPT ![n] = Moved(call[n], "got", 0, child, call[n].proc)]
    BY <1>7, AtFormAt
  <2>2. Legal(n, "got", 0, child, call[n].proc) BY <1>1, <1>7, Sizes DEF Legal, Places
  <2>3. Moves(n, "got", 0, child, call[n].proc) BY <1>5, <2>1, <2>2, Move
  <2> QED BY <1>1, <1>2, <1>4, <1>7, <2>3 DEF Micro, Moves
<1>8. CASE child = 0 /\ startup # 0 /\ call' = At(n, "startup", startup)
  <2>1. call' = [call EXCEPT ![n] = Moved(call[n], "startup", startup, 0, call[n].proc)]
    BY <1>1, <1>8, AtForm
  <2>2. Legal(n, "startup", startup, 0, call[n].proc) BY <1>1, <1>8, Sizes DEF Legal, Places
  <2>3. Moves(n, "startup", startup, 0, call[n].proc) BY <1>5, <2>1, <2>2, Move
  <2> QED BY <1>1, <1>2, <1>4, <1>8, <2>3 DEF Micro, Moves
<1> QED BY <1>4, <1>6, <1>7, <1>8

LEMMA StartupStep ==
  ASSUME Typed, NEW n \in Calls, ResumeStartup(n), reading' = FALSE
  PROVE  Typed' /\ Micro(n)
<1>1. /\ call[n].watch \in 0 .. Len(kernel) /\ call[n].proc \in Nat /\ call[n].at = 0
      /\ call[n].pc = "startup" /\ Over(call[n].watch) /\ call[n].kind # "close"
  BY Call DEF CallOK, CallRec, ResumeStartup
<1>2. UNCHANGED <<kernel, proc, child, generation, shuttingDown, metadata, moduleDirs, active,
                  startup, termination>>
  BY DEF ResumeStartup, manager
<1>3. Calm BY <1>2, CalmManager DEF ResumeStartup
<1>4. call' = At(n, "threw", 0) \/ call' = At(n, "term", termination) BY DEF ResumeStartup
<1>5. CASE call' = At(n, "threw", 0)
  <2>1. call' = [call EXCEPT ![n] = Moved(call[n], "threw", 0, 0, call[n].proc)]
    BY <1>1, <1>5, AtForm
  <2>2. Legal(n, "threw", 0, 0, call[n].proc) BY <1>1, Sizes DEF Legal, Places
  <2>3. Moves(n, "threw", 0, 0, call[n].proc) BY <1>3, <2>1, <2>2, Move
  <2> QED BY <1>1, <1>2, <2>3 DEF Micro, Catcher, Moves
<1>6. CASE call' = At(n, "term", termination)
  <2>1. call' = [call EXCEPT ![n] = Moved(call[n], "term", termination, 0, call[n].proc)]
    BY <1>1, <1>6, AtForm
  <2>2. Legal(n, "term", termination, 0, call[n].proc) BY <1>1, Sizes DEF Legal, Places
  <2>3. Moves(n, "term", termination, 0, call[n].proc) BY <1>3, <2>1, <2>2, Move
  <2> QED BY <1>1, <1>2, <2>3 DEF Micro, Moves
<1> QED BY <1>4, <1>5, <1>6

LEMMA SettledForm ==
  ASSUME Typed, NEW n \in Calls, NEW answer
  PROVE  Settled(Ended(call, n), n, answer) =
           [call EXCEPT ![n] =
             Cleared(Moved(call[n], "done", call[n].watch, call[n].at, call[n].proc), answer)]
<1> DEFINE d == Moved(call[n], "done", call[n].watch, call[n].at, call[n].proc)
<1>1. Ended(call, n) = [call EXCEPT ![n] = d] BY EndedForm
<1>2. n \in DOMAIN call BY DEF Typed, Calls
<1> HIDE DEF d
<1>3. Settled(Ended(call, n), n, answer) = [Ended(call, n) EXCEPT ![n] = Cleared(Ended(call, n)[n], answer)]
  BY SettledFacts
<1>4. Ended(call, n)[n] = d BY <1>1, <1>2
<1> QED BY <1>1, <1>2, <1>3, <1>4 DEF d

Ends(n) ==
  /\ Typed' /\ Only(n) /\ ProcsKept /\ Same(n) /\ call'[n].pc = "done"
  /\ call'[n].watch = call[n].watch /\ (call[n].settled => call'[n].settled)

LEMMA End ==
  ASSUME Typed, NEW n \in Calls, Calm, call' = Ended(call, n)
  PROVE  Ends(n) /\ call'[n].answer = call[n].answer /\ call'[n].settled = call[n].settled
<1> DEFINE q == call[n].proc
<1>1. /\ call[n] \in CallRec /\ CallOK(call[n], Len(kernel), Len(proc))
      /\ call' = [call EXCEPT ![n] = Moved(call[n], "done", call[n].watch, call[n].at, q)]
  BY Call, EndedForm
<1>2. Legal(n, "done", call[n].watch, call[n].at, q) BY <1>1 DEF CallOK, CallRec, Legal, Places
<1>3. Moves(n, "done", call[n].watch, call[n].at, q) BY <1>1, <1>2, Move
<1> QED BY <1>3 DEF Moves, Ends, Same

LEMMA Answered ==
  ASSUME Typed, NEW n \in Calls, Calm, NEW answer \in Answers,
         call' = Settled(Ended(call, n), n, answer)
  PROVE  Ends(n) /\ call'[n].answer = answer /\ call'[n].settled
<1> DEFINE d == Moved(call[n], "done", call[n].watch, call[n].at, call[n].proc)
           e == Cleared(d, answer)
<1>1. call[n] \in CallRec /\ CallOK(call[n], Len(kernel), Len(proc)) BY Call
<1>2. /\ d \in CallRec /\ d.pc = "done" /\ d.watch = call[n].watch /\ d.at = call[n].at
      /\ d.proc = call[n].proc /\ d.kind = call[n].kind /\ d.since = call[n].since
      /\ d.timerWatch = call[n].timerWatch
  BY <1>1 DEF Moved, CallRec, Places
<1>3. call' = [call EXCEPT ![n] = e] BY SettledForm
<1> HIDE DEF d
<1>4. /\ e \in CallRec /\ e.kind = d.kind /\ e.pc = d.pc /\ e.watch = d.watch /\ e.at = d.at
      /\ e.proc = d.proc /\ e.settled /\ e.answer = answer /\ ~e.timeoutPending
      /\ e.timerWatch = d.timerWatch /\ e.since = d.since
  BY <1>2, ClearedFacts
<1> HIDE DEF e
<1>5. CallOK(e, Len(kernel), Len(proc)) BY <1>1, <1>2, <1>4 DEF CallOK
<1>6. Typed' /\ Only(n) /\ ProcsKept /\ call'[n] = e BY <1>2, <1>3, <1>4, <1>5, OneCallTyped, ZenonT(40)
<1> QED BY <1>2, <1>4, <1>6 DEF Ends, Same

LEMMA FinishEnds ==
  ASSUME Typed, NEW n \in Calls, NEW answer \in Answers, Finish(n, answer), Calm
  PROVE  Ends(n)
BY End, Answered DEF Finish

\* As OneCall, when there are more kernels or processes.
LEMMA GrownCall ==
  ASSUME Typed, NEW K \in Nat, NEW P \in Nat, K >= Len(kernel), P >= Len(proc),
         NEW n \in Calls, NEW r \in CallRec, CallOK(r, K, P), call' = [call EXCEPT ![n] = r]
  PROVE  call' \in Seq(CallsFor(K, P)) /\ Only(n) /\ call'[n] = r
<1>1. r \in CallsFor(K, P) BY DEF CallsFor
<1>2. Len(kernel) \in Nat /\ Len(proc) \in Nat /\ Len(call) \in Nat BY Sizes
<1>3. call \in Seq(CallsFor(K, P)) BY <1>2, GrownCalls DEF Typed
<1> QED BY <1>1, <1>3, Put DEF Only, Calls

LEMMA NewKernelFacts ==
  ASSUME Typed
  PROVE  /\ NewKernel(generation) \in KernelsFor(Len(proc))
         /\ NewKernel(generation).phase = "metadata" /\ NewKernel(generation).proc = 0
         /\ NewKernel(generation).stop = "none" /\ NewKernel(generation).term = "none"
         /\ NewKernel(generation).victim = 0
<1>1. generation \in Nat /\ Len(proc) \in Nat BY DEF Typed, ManagerOK
<1> QED BY <1>1 DEF NewKernel, KernelsFor, KernelRec, Phases

LEMMA CreateStep ==
  ASSUME Typed, NEW n \in Calls, ResumeEnsureChild(n), kernel' # kernel, reading' = FALSE
  PROVE  Typed' /\ Created(n)
<1> DEFINE K == Len(kernel) + 1
           r == Moved(call[n], "startup", K, 0, call[n].proc)
           s == NewKernel(generation)
<1>0. K \in Nat /\ Len(kernel) \in Nat /\ Len(proc) \in Nat /\ Len(call) \in Nat /\ K = Len(kernel) + 1 /\ K # 0
  BY Sizes
<1>1. /\ call[n] \in CallRec /\ CallOK(call[n], Len(kernel), Len(proc))
      /\ call[n].watch \in 0 .. Len(kernel) /\ call[n].proc \in Nat /\ call[n].at = 0
      /\ call[n].pc = "term" /\ Terminated(call[n].watch) /\ call[n].kind # "close"
  BY Call DEF CallOK, CallRec, ResumeEnsureChild
<1>2. /\ child = 0 /\ startup = 0 /\ ~shuttingDown /\ kernel' = Append(kernel, s) /\ startup' = K
      /\ call' = At(n, "startup", K)
      /\ UNCHANGED <<proc, active, child, generation, shuttingDown, metadata, moduleDirs>>
      /\ termination' \in {termination, 0}
  BY DEF ResumeEnsureChild
<1>3. call' = [call EXCEPT ![n] = r] BY <1>1, <1>2, AtForm
<1>4. /\ r \in CallRec /\ r.pc = "startup" /\ r.watch = K /\ r.at = 0 /\ r.proc = call[n].proc
      /\ r.kind = call[n].kind /\ r.settled = call[n].settled /\ r.since = call[n].since
      /\ r.answer = call[n].answer /\ r.timerWatch = call[n].timerWatch
      /\ r.timeoutPending = call[n].timeoutPending
  <2>1. "startup" \in Places /\ 0 \in Nat BY DEF Places
  <2> QED BY <1>0, <1>1, <2>1 DEF Moved, CallRec
<1> HIDE DEF r, s, K
<1>5. CallOK(r, K, Len(proc)) BY <1>0, <1>1, <1>4 DEF CallOK
<1>6. call' \in Seq(CallsFor(K, Len(proc))) /\ Only(n) /\ call'[n] = r
  <2>1. K >= Len(kernel) /\ Len(proc) >= Len(proc) /\ r \in CallRec BY <1>0, <1>4
  <2> QED BY <1>0, <1>3, <1>5, <2>1, GrownCall
<1>7. /\ s \in KernelsFor(Len(proc)) /\ s.phase = "metadata" /\ s.proc = 0 /\ s.stop = "none"
      /\ s.victim = 0 /\ s.term = "none"
  BY NewKernelFacts DEF s
<1>8. /\ kernel' \in Seq(KernelsFor(Len(proc))) /\ Len(kernel') = K /\ kernel'[K] = s
      /\ \A j \in Kernels : kernel'[j] = kernel[j]
  BY <1>0, <1>2, <1>7, Add DEF Typed, Kernels
<1>9. proc' \in Seq(ProcsFor(K, Len(call))) BY <1>0, <1>2, GrownProcs DEF Typed
<1>10. ManagerOK'
  <2>1. ManagerOK /\ Len(call') = Len(call) BY <1>6 DEF Typed, Only
  <2>2. active' # 0 => call'[active'].kind = "js" BY <1>2, <1>4, <1>6, <2>1 DEF ManagerOK, Only, Calls
  <2> QED BY <1>0, <1>2, <1>8, <2>1, <2>2 DEF ManagerOK
<1>11. Len(call') = Len(call) /\ Len(proc') = Len(proc) BY <1>2, <1>6 DEF Only
<1>12. Typed' BY <1>2, <1>6, <1>8, <1>9, <1>10, <1>11 DEF Typed
<1>13. ProcsKept BY <1>2 DEF ProcsKept
<1>14. /\ UNCHANGED <<child, shuttingDown>> /\ child = 0 /\ startup = 0 /\ ~shuttingDown
       /\ startup' = Len(kernel) + 1 /\ Len(kernel') = Len(kernel) + 1
       /\ kernel'[Len(kernel) + 1] = s /\ startup' = K
  BY <1>0, <1>2, <1>8
<1> QED BY <1>1, <1>4, <1>6, <1>7, <1>8, <1>12, <1>13, <1>14 DEF Created

\* A process more, of kernel k; r is what becomes of the kernel.
LEMMA SpawnFacts ==
  ASSUME Typed, NEW k \in Kernels, NEW dirs \in SUBSET Dirs, NEW r \in KernelRec,
         r.proc \in 0 .. Len(proc) + 1, r.phase = "spawning" => r.boot \in 1 .. Len(proc) + 1,
         proc' = Append(proc, NewProc(k, dirs)), kernel' = [kernel EXCEPT ![k] = r]
  PROVE  /\ proc' \in Seq(ProcsFor(Len(kernel), Len(call))) /\ Len(proc') = Len(proc) + 1
         /\ kernel' \in Seq(KernelsFor(Len(proc) + 1)) /\ Len(kernel') = Len(kernel)
         /\ kernel'[k] = r /\ \A j \in Kernels : j # k => kernel'[j] = kernel[j]
         /\ \A p \in Procs : proc'[p] = proc[p]
         /\ proc'[Len(proc) + 1].state = "booting" /\ proc'[Len(proc) + 1].kernel = k
         /\ proc'[Len(proc) + 1].ready = "pending"
<1> DEFINE q == NewProc(k, dirs)
<1>0. Len(proc) \in Nat /\ Len(proc) + 1 \in Nat /\ Len(kernel) \in Nat /\ Len(call) \in Nat
  BY Sizes
<1>1. /\ q \in ProcsFor(Len(kernel), Len(call)) /\ q.state = "booting" /\ q.kernel = k
      /\ q.ready = "pending"
  BY <1>0 DEF NewProc, ProcsFor, ProcRec, Kernels
<1> HIDE DEF q
<1>2. /\ proc' \in Seq(ProcsFor(Len(kernel), Len(call))) /\ Len(proc') = Len(proc) + 1
      /\ proc'[Len(proc) + 1] = q /\ \A p \in Procs : proc'[p] = proc[p]
  <2>1. proc' = Append(proc, q) BY DEF q
  <2>2. proc \in Seq(ProcsFor(Len(kernel), Len(call))) BY DEF Typed
  <2> QED BY <1>1, <2>1, <2>2, Add DEF Procs
<1>3. kernel \in Seq(KernelsFor(Len(proc) + 1)) BY <1>0, GrownKernels DEF Typed
<1>4. r \in KernelsFor(Len(proc) + 1) BY <1>0 DEF KernelsFor
<1>5. /\ kernel' \in Seq(KernelsFor(Len(proc) + 1)) /\ Len(kernel') = Len(kernel)
      /\ kernel'[k] = r /\ \A j \in Kernels : j # k => kernel'[j] = kernel[j]
  BY <1>3, <1>4, Put DEF Kernels
<1> QED BY <1>1, <1>2, <1>5

LEMMA AgainStep ==
  ASSUME Typed, NEW n \in Calls, call[n].pc = "got", call[n].kind \notin {"reset", "close"},
         child # 0, call[n].at = child,
         call[n].kind = "js" => ~call[n].settled,
         kernel[child].proc = 0, kernel[child].stop = "none", Spawn(child),
         call' = [At(n, "ready", 0) EXCEPT ![n].proc = Len(proc) + 1],
         UNCHANGED manager, reading' = FALSE
  PROVE  Typed' /\ Again(n)
<1> DEFINE P == Len(proc) + 1
           r == Moved(call[n], "ready", 0, child, P)
           s == [kernel[child] EXCEPT !.proc = P]
<1>0. /\ P \in Nat /\ Len(kernel) \in Nat /\ Len(proc) \in Nat /\ Len(call) \in Nat
      /\ P = Len(proc) + 1 /\ child \in Kernels /\ child \in Nat /\ child \in 0 .. Len(kernel)
  BY Sizes
<1>1. call[n] \in CallRec /\ CallOK(call[n], Len(kernel), Len(proc)) BY Call
<1>2. call' = [call EXCEPT ![n] = r] BY AtFormProc
<1>3. /\ r \in CallRec /\ r.pc = "ready" /\ r.watch = 0 /\ r.at = child /\ r.proc = P
      /\ r.kind = call[n].kind /\ r.settled = call[n].settled /\ r.since = call[n].since
      /\ r.answer = call[n].answer /\ r.timerWatch = call[n].timerWatch
      /\ r.timeoutPending = call[n].timeoutPending
  <2>1. "ready" \in Places /\ 0 \in Nat BY DEF Places
  <2> QED BY <1>0, <1>1, <2>1 DEF Moved, CallRec
<1>4. /\ s \in KernelRec /\ s.proc = P /\ s.phase = kernel[child].phase
      /\ s.boot = kernel[child].boot /\ s.stop = kernel[child].stop
      /\ s.victim = kernel[child].victim /\ s.term = kernel[child].term
      /\ kernel[child].dirs \in SUBSET Dirs
      /\ (kernel[child].phase = "spawning" => kernel[child].boot \in 1 .. Len(proc))
  BY <1>0, Kernel DEF KernelRec, Procs
<1>5. kernel' = [kernel EXCEPT ![child] = s] /\ proc' = Append(proc, NewProc(child, kernel[child].dirs))
  BY DEF Spawn
<1> HIDE DEF r, s
<1>6. s.proc \in 0 .. P /\ (s.phase = "spawning" => s.boot \in 1 .. P) BY <1>0, <1>4
<1>7. /\ proc' \in Seq(ProcsFor(Len(kernel), Len(call))) /\ Len(proc') = Len(proc) + 1
      /\ kernel' \in Seq(KernelsFor(Len(proc) + 1)) /\ Len(kernel') = Len(kernel)
      /\ kernel'[child] = s /\ \A j \in Kernels : j # child => kernel'[j] = kernel[j]
      /\ \A p \in Procs : proc'[p] = proc[p]
      /\ proc'[Len(proc) + 1].state = "booting" /\ proc'[Len(proc) + 1].kernel = child
      /\ proc'[Len(proc) + 1].ready = "pending"
  BY <1>0, <1>4, <1>5, <1>6, SpawnFacts
<1> HIDE DEF P
<1>8. CallOK(r, Len(kernel), P)
  <2>1. /\ call[n].timerWatch \in 0 .. Len(kernel) /\ call[n].since <= Len(proc)
        /\ call[n].since \in Nat /\ (call[n].timeoutPending => call[n].settled)
    BY <1>1 DEF CallOK, CallRec
  <2>2. call[n].since <= P /\ P \in 1 .. P /\ child # 0 /\ 0 \in 0 .. Len(kernel) BY <1>0, <2>1
  <2>3. /\ r.pc = "ready" /\ r.watch \in 0 .. Len(kernel) /\ r.timerWatch \in 0 .. Len(kernel)
        /\ r.at \in 0 .. Len(kernel) /\ r.at # 0 /\ r.proc \in 1 .. P /\ r.since <= P
        /\ r.kind \notin {"reset", "close"} /\ (r.timeoutPending => r.settled)
    BY <1>0, <1>3, <2>1, <2>2
  <2> QED BY <2>3 DEF CallOK
<1>9. call' \in Seq(CallsFor(Len(kernel), P)) /\ Only(n) /\ call'[n] = r
  <2>1. PICK K \in Nat : K = Len(kernel) BY <1>0
  <2>2. P >= Len(proc) /\ K >= Len(kernel) /\ r \in CallRec /\ CallOK(r, K, P)
    BY <1>0, <1>3, <1>8, <2>1
  <2>3. call' \in Seq(CallsFor(K, P)) /\ Only(n) /\ call'[n] = r
    BY <1>0, <1>2, <2>2, GrownCall, SMTT(30)
  <2> QED BY <2>1, <2>3
<1>10. ManagerOK'
  <2>1. ManagerOK /\ Len(call') = Len(call) BY <1>9 DEF Typed, Only
  <2>2. UNCHANGED <<active, child, startup, termination, generation, shuttingDown, metadata,
                    moduleDirs>>
    BY DEF manager
  <2>3. active' # 0 => call'[active'].kind = "js"
    <3>1. active # 0 => active \in Calls /\ call[active].kind = "js" BY Sizes
    <3>2. \A m \in Calls : call'[m].kind = call[m].kind BY <1>3, <1>9 DEF Only
    <3> QED BY <2>2, <3>1, <3>2
  <2> QED BY <1>7, <2>1, <2>2, <2>3 DEF ManagerOK
<1>11. Len(call') = Len(call) /\ Len(proc') = P BY <1>0, <1>7, <1>9 DEF Only
<1>12. Typed' BY <1>0, <1>7, <1>9, <1>10, <1>11 DEF Typed
<1>13. OneMore(child) BY <1>0, <1>4, <1>7 DEF OneMore
<1> QED BY <1>0, <1>3, <1>4, <1>7, <1>9, <1>12, <1>13 DEF Again, manager

LEMMA StartStep ==
  ASSUME Typed, KInv, NEW n \in Calls, Start(n), reading' = FALSE
  PROVE  Typed' /\ (Micro(n) \/ Again(n))
<1> DEFINE k == call[n].at
           StillMine == child = k /\ ~shuttingDown /\ (call[n].kind = "js" => Admitted(n))
<1>1. /\ call[n] \in CallRec /\ CallOK(call[n], Len(kernel), Len(proc))
      /\ call[n].pc = "got" /\ k # 0 /\ k \in 0 .. Len(kernel) /\ call[n].kind # "close"
      /\ UNCHANGED manager
  BY Call DEF Start, CallOK
<1>2. UNCHANGED <<active, child, startup, termination, generation, shuttingDown, metadata,
                  moduleDirs>>
  BY <1>1 DEF manager
<1>3. Ends(n) /\ UNCHANGED <<kernel, proc>> => Micro(n)
  BY <1>1, <1>2 DEF Micro, Ends, Same, Catcher
<1>4. CASE /\ call[n].kind = "reset"
           /\ Return(n, "ok") /\ UNCHANGED <<kernel, proc>>
  <2>1. Calm BY <1>2, <1>4, CalmManager
  <2>2. Ends(n) BY <1>4, <2>1, Answered DEF Return, Answers
  <2> QED BY <1>2, <1>3, <1>4, <2>2 DEF Ends
<1>5. CASE call[n].kind = "js" /\ ~StillMine /\ call' = Ended(call, n) /\ UNCHANGED <<kernel, proc>>
  <2>1. Calm BY <1>2, <1>5, CalmManager
  <2>2. Ends(n) BY <1>5, <2>1, End
  <2> QED BY <1>2, <1>3, <1>5, <2>2 DEF Ends
<1>6. CASE call[n].kind = "dir" /\ ~StillMine /\ Return(n, "error") /\ UNCHANGED <<kernel, proc>>
  <2>1. Calm BY <1>2, <1>6, CalmManager
  <2>2. Ends(n) BY <1>6, <2>1, Answered DEF Return, Answers
  <2> QED BY <1>2, <1>3, <1>6, <2>2 DEF Ends
<1>7. CASE /\ call[n].kind # "reset" /\ StillMine /\ kernel[k].proc # 0
           /\ call' = [At(n, "ready", 0) EXCEPT ![n].proc = kernel[k].proc]
           /\ UNCHANGED <<kernel, proc>>
  <2>1. Calm BY <1>2, <1>7, CalmManager
  <2>2. call' = [call EXCEPT ![n] = Moved(call[n], "ready", 0, k, kernel[k].proc)]
    <3>1. PICK q : q = kernel[k].proc OBVIOUS
    <3>2. call' = [At(n, "ready", 0) EXCEPT ![n].proc = q] BY <1>7, <3>1
    <3>3. [At(n, "ready", 0) EXCEPT ![n].proc = q] =
            [call EXCEPT ![n] = Moved(call[n], "ready", 0, call[n].at, q)]
      <4>1. \A w, a : [At(n, "ready", w) EXCEPT ![n].proc = a] =
              [call EXCEPT ![n] = Moved(call[n], "ready", w, call[n].at, a)]
        BY AtFormProc
      <4> QED BY <4>1
    <3>4. call' = [call EXCEPT ![n] = Moved(call[n], "ready", 0, call[n].at, q)]
      BY <3>2, <3>3
    <3> QED BY <3>1, <3>4
  <2>3. kernel[k].proc \in Procs BY <1>1, <1>7, Kernel DEF Kernels
  <2>4. Legal(n, "ready", 0, k, kernel[k].proc)
    BY <1>1, <1>7, <2>3, Sizes DEF Legal, Places, Procs
  <2>5. Moves(n, "ready", 0, k, kernel[k].proc) BY <2>1, <2>2, <2>4, Move
  <2> QED BY <1>1, <1>2, <1>7, <2>5 DEF Micro, Moves, Admitted
<1>8. CASE call[n].kind # "reset" /\ StillMine /\ kernel[k].proc = 0 /\ kernel[k].stop # "none"
  <2>1. child # 0 /\ k \in Kernels /\ kernel[k].stop = "pending"
    BY <1>1, <1>8, Kernel DEF Kernels, KernelRec
  <2> QED BY <1>1, <1>8, <2>1 DEF KInv, Broken, Bereft
<1>9. CASE /\ call[n].kind # "reset" /\ StillMine /\ kernel[k].proc = 0 /\ kernel[k].stop = "none"
           /\ Spawn(k)
           /\ call' = [At(n, "ready", 0) EXCEPT ![n].proc = Len(proc) + 1]
  <2>1. child # 0 /\ call[n].kind \notin {"reset", "close"} /\ (call[n].kind = "js" => ~call[n].settled)
        /\ k = child
    BY <1>1, <1>9 DEF Admitted
  <2> QED BY <1>1, <1>9, <2>1, AgainStep
<1> HIDE DEF StillMine
<1>10. \/ /\ call[n].kind = "reset"
          /\ Return(n, "ok") /\ UNCHANGED <<kernel, proc>>
       \/ call[n].kind = "js" /\ ~StillMine /\ call' = Ended(call, n) /\ UNCHANGED <<kernel, proc>>
       \/ call[n].kind = "dir" /\ ~StillMine /\ Return(n, "error") /\ UNCHANGED <<kernel, proc>>
       \/ call[n].kind # "reset" /\ StillMine /\ kernel[k].proc # 0
           /\ call' = [At(n, "ready", 0) EXCEPT ![n].proc = kernel[k].proc]
           /\ UNCHANGED <<kernel, proc>>
       \/ call[n].kind # "reset" /\ StillMine /\ kernel[k].proc = 0 /\ kernel[k].stop # "none"
       \/ call[n].kind # "reset" /\ StillMine /\ kernel[k].proc = 0 /\ kernel[k].stop = "none"
           /\ Spawn(k)
           /\ call' = [At(n, "ready", 0) EXCEPT ![n].proc = Len(proc) + 1]
  BY DEF Start, StillMine
<1> QED BY <1>4, <1>5, <1>6, <1>7, <1>8, <1>9, <1>10

LEMMA EndsMicro ==
  ASSUME NEW n \in Calls, Ends(n), ~Catcher(n), call[n].pc # "rterm", UNCHANGED <<kernel, child, startup, shuttingDown>>,
         termination' # termination => termination' = 0 /\ Terminated(termination),
         call[n].kind = "reset" /\ call'[n].answer = "ok" => call[n].pc = "got",
         call[n].kind = "close" /\ call'[n].answer = "ok" =>
           call[n].pc = "cterm" /\ Terminated(call[n].watch)
  PROVE  Typed' /\ Micro(n)
<1>1. Only(n) /\ ProcsKept /\ Typed' /\ Same(n) /\ call'[n].pc = "done" BY DEF Ends
<1> QED BY <1>1 DEF Micro, Same

LEMMA AwaitedFacts ==
  ASSUME NEW w, Awaited(w), Terminated(w)
  PROVE  /\ termination' \in {termination, 0}
         /\ termination' # termination => termination' = 0 /\ Terminated(termination)
BY DEF Awaited

\* finishExecution after an await.
LEMMA FinishStep ==
  ASSUME Typed, NEW n \in Calls, NEW answer \in Answers, Finish(n, answer), call[n].kind = "js",
         ~Catcher(n), UNCHANGED <<kernel, proc, child, startup, generation, shuttingDown,
                                  metadata, moduleDirs>>,
         termination' \in {termination, 0},
         termination' # termination => termination' = 0 /\ Terminated(termination),
         reading' = FALSE
  PROVE  Typed' /\ Micro(n)
<1>1. active' \in {active, 0} BY DEF Finish
<1>2. Calm BY <1>1, CalmManager
<1>3. Ends(n) BY <1>2, FinishEnds
<1>4. call[n].pc # "rterm" BY Call DEF CallOK
<1> QED BY <1>3, <1>4, EndsMicro

\* A call other than js is over.
LEMMA ReturnStep ==
  ASSUME Typed, NEW n \in Calls, NEW answer \in Answers, Return(n, answer), call[n].kind # "js",
         call[n].pc # "rterm",
         UNCHANGED <<kernel, proc, active, child, startup, generation, shuttingDown,
                     metadata, moduleDirs>>,
         termination' \in {termination, 0},
         termination' # termination => termination' = 0 /\ Terminated(termination),
         call[n].kind = "reset" /\ answer = "ok" => call[n].pc = "got",
         call[n].kind = "close" /\ answer = "ok" =>
           call[n].pc = "cterm" /\ Terminated(call[n].watch),
         reading' = FALSE
  PROVE  Typed' /\ Micro(n)
<1>1. Calm BY CalmManager
<1>2. Ends(n) /\ call'[n].answer = answer BY <1>1, Answered DEF Return
<1>3. ~Catcher(n) BY DEF Catcher
<1> QED BY <1>2, <1>3, EndsMicro

LEMMA SendStep ==
  ASSUME Typed, NEW n \in Calls, Send(n), reading' = FALSE
  PROVE  Typed' /\ Micro(n)
<1> DEFINE k == call[n].at
           p == kernel[k].proc
           ready == proc[call[n].proc].ready = "resolved" /\ p # 0
<1>1. /\ call[n] \in CallRec /\ CallOK(call[n], Len(kernel), Len(proc)) /\ call[n].pc = "ready"
      /\ proc[call[n].proc].ready # "pending"
      /\ k # 0 /\ k \in 0 .. Len(kernel) /\ call[n].kind \in {"js", "dir"}
      /\ call[n].proc \in Procs
  BY Call DEF Send, CallOK, CallRec, Procs
<1>2. UNCHANGED <<kernel, child, startup, termination, generation, shuttingDown, metadata,
                  moduleDirs>>
  BY DEF Send
<1>3. k \in Kernels /\ p \in 0 .. Len(proc) /\ (p # 0 => p \in Procs) /\ p \in Nat
  <2>1. k \in Kernels BY <1>1 DEF Kernels
  <2> QED BY <2>1, Kernel
<1>4. proc[call[n].proc].ready \in {"resolved", "rejected"} BY <1>1, Proc DEF ProcRec
<1>5. CASE ~ready /\ call' = At(n, "threw", 0) /\ UNCHANGED <<proc, active>>
  <2>1. Calm BY <1>2, <1>5, CalmManager
  <2>2. call' = [call EXCEPT ![n] = Moved(call[n], "threw", 0, k, call[n].proc)] BY <1>5, AtForm
  <2>3. Legal(n, "threw", 0, k, call[n].proc) BY <1>1, <1>3, Sizes DEF Legal, Places, CallRec
  <2>4. Moves(n, "threw", 0, k, call[n].proc) BY <2>1, <2>2, <2>3, Move
  <2>5. Doomed(n) BY <1>4, <1>5 DEF Doomed
  <2> QED BY <1>1, <1>2, <2>4, <2>5 DEF Micro, Moves, Same
<1>6. CASE /\ ready /\ call' = [At(n, "running", 0) EXCEPT ![n].proc = p]
           /\ proc' = IF call[n].kind = "js" THEN [proc EXCEPT ![p].run = n] ELSE proc
           /\ UNCHANGED active
  <2>1. p \in Procs BY <1>3, <1>6
  <2>2. proc' \in Seq(ProcsFor(Len(kernel), Len(call))) /\ ProcsKept
    <3>1. CASE call[n].kind # "js" BY <1>6, <3>1 DEF Typed, ProcsKept
    <3>2. CASE call[n].kind = "js"
      <4> DEFINE q == [proc[p] EXCEPT !.run = n]
      <4>1. proc[p] \in ProcRec /\ proc[p] \in ProcsFor(Len(kernel), Len(call))
        BY <2>1 DEF Typed, Procs, ProcsFor
      <4>2. Len(call) \in Nat /\ n \in 1 .. Len(call) BY Sizes DEF Calls
      <4>3. /\ q \in ProcsFor(Len(kernel), Len(call)) /\ q.state = proc[p].state
            /\ q.kernel = proc[p].kernel /\ q.ready = proc[p].ready
        <5>1. proc[p].kernel \in 1 .. Len(kernel) BY <4>1 DEF ProcsFor
        <5>2. n \in Nat /\ n \in 0 .. Len(call) BY <4>2
        <5>3. /\ q \in ProcRec /\ q.run = n /\ q.state = proc[p].state
              /\ q.kernel = proc[p].kernel /\ q.ready = proc[p].ready
          BY <4>1, <5>2 DEF ProcRec
        <5> QED BY <5>1, <5>2, <5>3 DEF ProcsFor
      <4>4. proc' = [proc EXCEPT ![p] = q]
        <5>1. proc' = [proc EXCEPT ![p].run = n] BY <1>6, <3>2
        <5> QED BY <5>1
      <4> HIDE DEF q
      <4> QED
        <5>1. PICK S : S = ProcsFor(Len(kernel), Len(call)) OBVIOUS
        <5>2. proc \in Seq(S) /\ p \in 1 .. Len(proc) /\ q \in S
          BY <2>1, <4>3, <5>1 DEF Typed, Procs
        <5>3. /\ proc' \in Seq(S) /\ Len(proc') = Len(proc) /\ proc'[p] = q
              /\ \A m \in 1 .. Len(proc) : m # p => proc'[m] = proc[m]
          BY <4>4, <5>2, SMTT(30)
        <5>4. ProcsKept BY <4>3, <5>3, SMTT(30) DEF ProcsKept, Procs
        <5> QED BY <5>1, <5>3, <5>4
    <3> QED BY <3>1, <3>2
  <2>3. Calm BY <1>2, <1>6, <2>2 DEF Calm
  <2>4. call' = [call EXCEPT ![n] = Moved(call[n], "running", 0, k, p)]
    <3>1. PICK q : q = p OBVIOUS
    <3>2. call' = [At(n, "running", 0) EXCEPT ![n].proc = q] BY <1>6, <3>1
    <3>3. call' = [call EXCEPT ![n] = Moved(call[n], "running", 0, call[n].at, q)]
      BY <3>2, AtFormProc
    <3> QED BY <3>1, <3>3
  <2>5. Legal(n, "running", 0, k, p)
    <3>1. PICK q : q = p OBVIOUS
    <3>2. PICK j : j = k OBVIOUS
    <3>3. /\ q \in Nat /\ q \in 1 .. Len(proc) /\ j \in 0 .. Len(kernel) /\ j # 0
          /\ 0 \in 0 .. Len(kernel)
      BY <1>1, <1>3, <2>1, <3>1, <3>2, Sizes DEF Procs
    <3>4. call[n].kind \in {"js", "dir"} BY <1>1
    <3> HIDE DEF p, k, ready
    <3> QED BY <3>1, <3>2, <3>3, <3>4 DEF Legal, Places
  <2>6. Moves(n, "running", 0, k, p) BY <2>3, <2>4, <2>5, Move
  <2>7. ~Catcher(n) BY <1>1, <1>6 DEF Catcher, Doomed
  <2> QED BY <1>1, <1>2, <2>6, <2>7 DEF Micro, Moves
<1>7. CASE ready /\ call[n].kind = "js" /\ Finish(n, "ok") /\ UNCHANGED proc
  <2>1. ~Catcher(n) BY <1>1, <1>7 DEF Catcher, Doomed
  <2> QED BY <1>2, <1>7, <2>1, FinishStep DEF Answers
<1>8. \/ ~ready /\ call' = At(n, "threw", 0) /\ UNCHANGED <<proc, active>>
      \/ /\ ready /\ call' = [At(n, "running", 0) EXCEPT ![n].proc = p]
         /\ proc' = IF call[n].kind = "js" THEN [proc EXCEPT ![p].run = n] ELSE proc
         /\ UNCHANGED active
      \/ ready /\ call[n].kind = "js" /\ Finish(n, "ok") /\ UNCHANGED proc
  BY Zenon DEF Send
<1> QED
  <2> HIDE DEF ready, p, k
  <2> QED BY <1>5, <1>6, <1>7, <1>8

LEMMA FailStep ==
  ASSUME Typed, NEW n \in Calls, Fail(n), reading' = FALSE
  PROVE  Typed' /\ Micro(n)
<1>1. call[n].pc = "failing" /\ call[n].kind = "js" /\ Terminated(call[n].watch)
  BY Call DEF CallOK, Fail
<1>2. ~Catcher(n) BY <1>1 DEF Catcher
<1>3. Finish(n, "error") /\ Awaited(call[n].watch)
      /\ UNCHANGED <<kernel, proc, child, startup, generation, shuttingDown, metadata, moduleDirs>>
  BY DEF Fail
<1>4. /\ termination' \in {termination, 0}
      /\ termination' # termination => termination' = 0 /\ Terminated(termination)
  BY <1>1, <1>3, AwaitedFacts
<1> QED BY <1>1, <1>2, <1>3, <1>4, FinishStep DEF Answers

LEMMA CatchStep ==
  ASSUME Typed, NEW n \in Calls, Catch(n), UNCHANGED child, reading' = FALSE
  PROVE  Typed' /\ Micro(n)
<1>1. call[n].pc = "threw" /\ call[n].kind \in {"js", "reset", "dir"}
  BY Call DEF CallOK, CallRec, Catch
<1>2. UNCHANGED <<startup, generation, shuttingDown, metadata, moduleDirs>> BY DEF Catch
<1>3. CASE /\ call[n].kind = "js" /\ call[n].settled /\ call' = Ended(call, n)
           /\ UNCHANGED <<kernel, proc, active, child, termination>>
  <2>1. Calm BY <1>2, <1>3, CalmManager
  <2>2. Ends(n) /\ ~Catcher(n) BY <1>3, <2>1, End DEF Catcher
  <2> QED BY <1>1, <1>2, <1>3, <2>2, EndsMicro
<1>4. CASE call[n].at # 0 /\ child = call[n].at /\ child' = 0
  BY <1>4
<1>5. CASE /\ call[n].kind = "js" /\ ~call[n].settled
           /\ call[n].at # 0 => child # call[n].at
           /\ Finish(n, "error")
           /\ UNCHANGED <<kernel, proc, child, termination>>
  <2>1. ~Catcher(n) BY <1>5 DEF Catcher
  <2> QED BY <1>2, <1>5, <2>1, FinishStep DEF Answers
<1>6. CASE /\ call[n].kind # "js" /\ Return(n, "error")
           /\ UNCHANGED <<kernel, proc, active, child, termination>>
  BY <1>1, <1>2, <1>6, ReturnStep DEF Answers
<1>7. \/ /\ call[n].kind = "js" /\ call[n].settled /\ call' = Ended(call, n)
         /\ UNCHANGED <<kernel, proc, active, child, termination>>
      \/ call[n].at # 0 /\ child = call[n].at /\ child' = 0
      \/ /\ call[n].kind = "js" /\ ~call[n].settled
         /\ call[n].at # 0 => child # call[n].at
         /\ Finish(n, "error")
         /\ UNCHANGED <<kernel, proc, child, termination>>
      \/ /\ call[n].kind # "js" /\ Return(n, "error")
         /\ UNCHANGED <<kernel, proc, active, child, termination>>
  BY Zenon DEF Catch, DropChild
<1> QED BY <1>3, <1>4, <1>5, <1>6, <1>7

LEMMA NotUnkillable ==
  ASSUME Typed, NEW w \in 0 .. Len(kernel)
  PROVE  ~Unkillable(w)
BY Kernel, SMTT(30) DEF Unkillable, KernelRec, Kernels

LEMMA RestartStep ==
  ASSUME Typed, NEW n \in Calls, ResumeRestart(n), ~(call[n].pc = "rterm" /\ child # 0),
         reading' = FALSE
  PROVE  Typed' /\ Micro(n)
<1> DEFINE w == call[n].watch
<1>1. /\ call[n].pc \in {"rterm", "rstop"} /\ Terminated(w) /\ w \in 0 .. Len(kernel)
      /\ call[n].kind = "reset" /\ call[n].at = 0 /\ call[n].proc \in Nat
  BY Call DEF CallOK, CallRec, ResumeRestart
<1>2. ~Unkillable(w) BY <1>1, NotUnkillable
<1>3. /\ Awaited(w) /\ call' = At(n, "term", termination')
      /\ UNCHANGED <<kernel, proc, child, active, startup, generation, shuttingDown, metadata,
                     moduleDirs>>
  BY <1>2 DEF ResumeRestart
<1>4. /\ termination' \in {termination, 0}
      /\ termination' # termination => termination' = 0 /\ Terminated(termination)
  BY <1>1, <1>3, AwaitedFacts
<1>5. Calm BY <1>3, <1>4, CalmManager
<1>6. PICK t : t = termination' OBVIOUS
<1>7. t \in 0 .. Len(kernel) BY <1>4, <1>6, Sizes
<1>8. call' = [call EXCEPT ![n] = Moved(call[n], "term", t, 0, call[n].proc)]
  BY <1>1, <1>3, <1>6, AtForm
<1>9. Legal(n, "term", t, 0, call[n].proc) BY <1>1, <1>7, Sizes DEF Legal, Places
<1>10. Moves(n, "term", t, 0, call[n].proc) BY <1>5, <1>8, <1>9, Move
<1> QED BY <1>1, <1>3, <1>4, <1>6, <1>10 DEF Micro, Moves

LEMMA CloseStep ==
  ASSUME Typed, KInv, NEW n \in Calls, ResumeClose(n), reading' = FALSE
  PROVE  Typed' /\ (Micro(n) \/ Forgotten)
<1> DEFINE w == call[n].watch
<1>1. call[n].kind = "close" /\ w \in 0 .. Len(kernel) /\ call[n].at = 0 /\ call[n].proc \in Nat
  BY Call DEF CallOK, CallRec, ResumeClose
<1>2. UNCHANGED <<kernel, proc, active, child, generation, shuttingDown, metadata, moduleDirs>>
  BY DEF ResumeClose
<1>3. CASE /\ call[n].pc = "cstart" /\ (w # 0 => Over(w)) /\ startup' = 0
           /\ call' = At(n, "cterm", termination) /\ UNCHANGED termination
  <2>1. Calm BY <1>2, <1>3, CalmManager
  <2>2. startup # 0 => Over(startup) BY <1>3 DEF KInv, Waiters
  <2>3. call' = [call EXCEPT ![n] = Moved(call[n], "cterm", termination, 0, call[n].proc)]
    BY <1>1, <1>3, AtForm
  <2>4. Legal(n, "cterm", termination, 0, call[n].proc) BY <1>1, Sizes DEF Legal, Places
  <2>5. Moves(n, "cterm", termination, 0, call[n].proc) BY <2>1, <2>3, <2>4, Move
  <2>6. \A m \in Calls :
          /\ Same(m) /\ call'[m].settled = call[m].settled /\ call'[m].answer = call[m].answer
          /\ \/ call'[m].pc = call[m].pc /\ call'[m].watch = call[m].watch
             \/ call[m].pc = "cstart" /\ call'[m].pc = "cterm" /\ call'[m].watch = termination
    BY <1>1, <1>3, <2>5 DEF Moves, Only, Same
  <2> QED BY <1>2, <1>3, <2>2, <2>5, <2>6 DEF Forgotten, Moves, Only
<1>4. CASE /\ call[n].pc = "cterm" /\ Terminated(w) /\ Awaited(w) /\ UNCHANGED startup
           /\ Return(n, IF Unkillable(w) THEN "error" ELSE "ok")
  <2>1. Return(n, "ok") BY <1>1, <1>4, NotUnkillable
  <2>2. /\ termination' \in {termination, 0}
        /\ termination' # termination => termination' = 0 /\ Terminated(termination)
    BY <1>4, AwaitedFacts
  <2> QED BY <1>1, <1>2, <1>4, <2>1, <2>2, ReturnStep DEF Answers
<1> QED BY <1>3, <1>4 DEF ResumeClose

LEMMA TimeoutStep ==
  ASSUME Typed, NEW n \in Calls, ResumeTimeout(n), reading' = FALSE
  PROVE  Typed' /\ Micro(n)
<1> DEFINE w == call[n].timerWatch
           off == [call EXCEPT ![n].timer = "off"]
           c == [call[n] EXCEPT !.timer = "off"]
<1>1. /\ call[n] \in CallRec /\ CallOK(call[n], Len(kernel), Len(proc)) /\ w \in 0 .. Len(kernel)
      /\ Terminated(w)
  BY Call DEF CallOK, ResumeTimeout, TimerResumable
<1>2. /\ UNCHANGED <<kernel, proc, child, startup, generation, shuttingDown, metadata, moduleDirs>>
      /\ Awaited(w) /\ active' \in {active, 0}
  BY DEF ResumeTimeout
<1>3. /\ termination' \in {termination, 0}
      /\ termination' # termination => termination' = 0 /\ Terminated(termination)
  BY <1>1, <1>2, AwaitedFacts
<1>4. Calm BY <1>2, <1>3, CalmManager
<1>5. off = [call EXCEPT ![n] = c] /\ n \in DOMAIN call BY DEF Typed, Calls
<1>6. /\ c \in CallRec /\ c.kind = call[n].kind /\ c.pc = call[n].pc /\ c.watch = call[n].watch
      /\ c.at = call[n].at /\ c.proc = call[n].proc /\ c.settled = call[n].settled
      /\ c.timeoutPending = call[n].timeoutPending /\ c.answer = call[n].answer
      /\ c.timerWatch = call[n].timerWatch /\ c.since = call[n].since
  BY <1>1 DEF CallRec
<1> HIDE DEF c
<1>7. CASE call' = off
  <2>1. CallOK(c, Len(kernel), Len(proc)) BY <1>1, <1>6 DEF CallOK
  <2>2. call' = [call EXCEPT ![n] = c] BY <1>5, <1>7
  <2>3. Typed' /\ Only(n) /\ ProcsKept /\ call'[n] = c BY <1>4, <1>6, <2>1, <2>2, OneCallTyped
  <2> QED BY <1>2, <1>3, <1>6, <2>3 DEF Micro, Same
<1>8. CASE active = n /\ call[n].timeoutPending
  <2> DEFINE d == Cleared(c, "timeout")
  <2>0. call' = Settled(off, n, "timeout") BY <1>1, <1>8, NotUnkillable DEF ResumeTimeout
  <2> HIDE DEF off
  <2>1. off[n] = c BY <1>5
  <2>2. call' = [off EXCEPT ![n] = d] BY <2>0, <2>1, SettledFacts
  <2> HIDE DEF d
  <2>3. call' = [call EXCEPT ![n] = d] BY <1>5, <2>2
  <2>4. /\ d \in CallRec
        /\ d.kind = c.kind /\ d.pc = c.pc /\ d.watch = c.watch /\ d.at = c.at /\ d.proc = c.proc
        /\ d.settled /\ d.answer = "timeout" /\ ~d.timeoutPending
        /\ d.timerWatch = c.timerWatch /\ d.since = c.since
    BY <1>6, ClearedFacts DEF d, Answers
  <2>5. CallOK(d, Len(kernel), Len(proc)) BY <1>1, <1>6, <2>4 DEF CallOK
  <2>6. d.kind = call[n].kind BY <1>6, <2>4
  <2>7. Typed' /\ Only(n) /\ ProcsKept /\ call'[n] = d BY <1>4, <2>3, <2>4, <2>5, <2>6, OneCallTyped
  <2>8. call[n].settled /\ call[n].kind = "js" /\ call[n].settled \in BOOLEAN /\ d.settled = TRUE
    BY <1>1, <1>8, <2>4, Sizes DEF CallOK, Calls, CallRec
  <2>9. call[n].settled = TRUE BY <2>8
  <2> QED BY <1>2, <1>3, <1>6, <2>4, <2>7, <2>8, <2>9 DEF Micro, Same
<1> QED BY <1>7, <1>8 DEF ResumeTimeout

\* What terminate does with the calls c leaves them typed.
LEMMA RejectedTyped ==
  ASSUME NEW K, NEW P, NEW c \in Seq(CallsFor(K, P)), NEW k
  PROVE  /\ Rejected(c, k) \in Seq(CallsFor(K, P)) /\ Len(Rejected(c, k)) = Len(c)
         /\ \A m \in 1 .. Len(c) :
              LET r == Rejected(c, k)[m] IN
              /\ r.kind = c[m].kind /\ r.at = c[m].at /\ r.proc = c[m].proc
              /\ r.since = c[m].since /\ r.settled = c[m].settled /\ r.answer = c[m].answer
              /\ r.watch = c[m].watch
              /\ r.pc = IF c[m].at = k /\ c[m].pc = "running" THEN "threw" ELSE c[m].pc
<1> DEFINE d == Rejected(c, k)
           R(m) == [c[m] EXCEPT !.pc = "threw"]
<1>1. c \in Seq(CallRec)
  <2>1. CallsFor(K, P) \subseteq CallRec BY DEF CallsFor
  <2> QED BY <2>1, Wider
<1>2. /\ d \in Seq(CallRec) /\ Len(d) = Len(c)
      /\ \A m \in 1 .. Len(c) : d[m] = IF c[m].at = k /\ c[m].pc = "running" THEN R(m) ELSE c[m]
  BY <1>1, RejectedFacts
<1>3. ASSUME NEW m \in 1 .. Len(c)
      PROVE  /\ R(m).kind = c[m].kind /\ R(m).at = c[m].at /\ R(m).proc = c[m].proc
             /\ R(m).since = c[m].since /\ R(m).settled = c[m].settled
             /\ R(m).answer = c[m].answer /\ R(m).watch = c[m].watch /\ R(m).pc = "threw"
             /\ c[m].pc = "running" => R(m) \in CallsFor(K, P)
  <2>1. c[m] \in CallRec /\ CallOK(c[m], K, P) BY DEF CallsFor
  <2>2. /\ R(m) \in CallRec /\ R(m).kind = c[m].kind /\ R(m).at = c[m].at /\ R(m).proc = c[m].proc
        /\ R(m).since = c[m].since /\ R(m).settled = c[m].settled
        /\ R(m).answer = c[m].answer /\ R(m).watch = c[m].watch /\ R(m).pc = "threw"
        /\ R(m).timerWatch = c[m].timerWatch /\ R(m).timeoutPending = c[m].timeoutPending
    BY <2>1, ThrewFacts DEF CallRec
  <2> HIDE DEF R
  <2>3. c[m].pc = "running" => CallOK(R(m), K, P) BY <2>1, <2>2 DEF CallOK
  <2> QED BY <2>2, <2>3 DEF CallsFor
<1> HIDE DEF R, d
<1>4. \A m \in 1 .. Len(c) : d[m] \in CallsFor(K, P)
  <2>1. \A m \in 1 .. Len(c) : c[m] \in CallsFor(K, P) OBVIOUS
  <2> QED BY <1>2, <1>3, <2>1
<1>5. d \in Seq(CallsFor(K, P)) BY <1>2, <1>4
<1> QED BY <1>2, <1>3, <1>5 DEF d

\* What Unready makes of the processes, when there are C calls.
Unreadied(q, p, C) ==
  /\ q \in Seq(ProcsFor(Len(kernel), C)) /\ Len(q) = Len(proc)
  /\ \A r \in Procs :
       /\ q[r].state = proc[r].state /\ q[r].kernel = proc[r].kernel
       /\ q[r].ready = IF r = p /\ proc[r].ready = "pending" THEN "rejected" ELSE proc[r].ready

LEMMA UnreadyFacts ==
  ASSUME Typed, NEW p \in Procs, NEW C \in Nat, C >= Len(call)
  PROVE  Unreadied(Unready(p), p, C)
<1> DEFINE s == [proc[p] EXCEPT !.ready = IF proc[p].ready = "pending" THEN "rejected" ELSE proc[p].ready]
<1>1. Len(call) \in Nat /\ Len(kernel) \in Nat BY Sizes
<1>2. proc \in Seq(ProcsFor(Len(kernel), C))
  <2>1. Len(kernel) >= Len(kernel) BY <1>1
  <2>2. Seq(ProcsFor(Len(kernel), Len(call))) \subseteq Seq(ProcsFor(Len(kernel), C))
    BY <1>1, <2>1, GrownProcs
  <2> QED BY <2>2 DEF Typed
<1>3. proc[p] \in ProcsFor(Len(kernel), C) /\ p \in 1 .. Len(proc) BY <1>2 DEF Procs
<1>4. /\ s \in ProcsFor(Len(kernel), C) /\ s.state = proc[p].state /\ s.kernel = proc[p].kernel
      /\ s.ready = IF proc[p].ready = "pending" THEN "rejected" ELSE proc[p].ready
  BY <1>3 DEF ProcsFor, ProcRec
<1>5. PICK q : q = Unready(p) OBVIOUS
<1>6. q = [proc EXCEPT ![p] = s] BY <1>5 DEF Unready
<1> HIDE DEF s
<1>7. /\ q \in Seq(ProcsFor(Len(kernel), C)) /\ Len(q) = Len(proc) /\ q[p] = s
      /\ \A r \in Procs : r # p => q[r] = proc[r]
  BY <1>2, <1>3, <1>4, <1>6, Put DEF Procs
<1> QED BY <1>4, <1>5, <1>7 DEF Unreadied

LEMMA KernelPut ==
  ASSUME Typed, NEW k \in Kernels, NEW r \in KernelRec, r.proc \in 0 .. Len(proc),
         r.phase = "spawning" => r.boot \in 1 .. Len(proc), kernel' = [kernel EXCEPT ![k] = r]
  PROVE  /\ kernel' \in Seq(KernelsFor(Len(proc))) /\ Len(kernel') = Len(kernel)
         /\ kernel'[k] = r /\ \A j \in Kernels : j # k => kernel'[j] = kernel[j]
<1>1. r \in KernelsFor(Len(proc)) BY DEF KernelsFor
<1>2. kernel \in Seq(KernelsFor(Len(proc))) BY DEF Typed
<1> QED BY <1>1, <1>2, Put DEF Kernels

\* The calls that DropChild starts from.
DropsTo(c) ==
  /\ c \in Seq(CallsFor(Len(kernel), Len(proc)))
  /\ \A m \in Calls :
       /\ c[m].kind = call[m].kind /\ c[m].at = call[m].at
       /\ c[m].proc = call[m].proc /\ c[m].since = call[m].since
       /\ call[m].settled => c[m].settled
       /\ c[m].settled # call[m].settled => Quiet
       /\ call[m].kind \in {"reset", "close"} => c[m].answer = call[m].answer
       /\ \/ c[m].pc = call[m].pc /\ c[m].watch = call[m].watch
          \/ c[m].pc = "failing"
          \/ call[m].pc = "rterm" /\ c[m].pc = "rstop" /\ c[m].watch = child
  /\ \/ Len(c) = Len(call)
     \/ /\ Len(c) = Len(call) + 1
        /\ LET d == c[Len(call) + 1] IN
           /\ d.pc = "cstart" /\ d.watch = startup /\ shuttingDown' /\ d.at = 0
           /\ d.kind = "close" /\ d.answer = "none"

LEMMA DropStep ==
  ASSUME Typed, child # 0, NEW c, DropsTo(c), DropChild(c), NEW n,
         Quiet \/ (n \in Calls /\ Dropper(n)),
         active' \in {active, 0}, UNCHANGED <<startup, metadata, moduleDirs>>,
         generation' \in Nat, shuttingDown' # shuttingDown => shuttingDown',
         shuttingDown' \in BOOLEAN, reading' = FALSE
  PROVE  Typed' /\ Dropped(n)
<1> DEFINE k == child
           r == IF kernel[k].proc # 0
                  THEN [kernel[k] EXCEPT !.proc = 0, !.stop = "pending",
                                         !.victim = kernel[k].proc, !.term = "pending"]
                  ELSE [kernel[k] EXCEPT
                          !.term = IF kernel[k].stop = "pending" THEN "pending" ELSE "done"]
<1>1. /\ k \in Kernels /\ k \in 0 .. Len(kernel) /\ Len(kernel) \in Nat /\ Len(proc) \in Nat
      /\ Len(call) \in Nat /\ (active # 0 => active \in Calls /\ call[active].kind = "js")
      /\ active \in 0 .. Len(call) /\ startup \in 0 .. Len(kernel)
  BY Sizes
<1>2. /\ kernel[k] \in KernelRec /\ kernel[k].proc \in 0 .. Len(proc)
      /\ (kernel[k].proc # 0 => kernel[k].proc \in Procs)
      /\ (kernel[k].phase = "spawning" => kernel[k].boot \in Procs)
  BY <1>1, Kernel
<1>3. child' = 0 /\ termination' = k /\ Terminate(k, c, TRUE) BY DEF DropChild
<1>4. kernel' = [kernel EXCEPT ![k] = r]
  <2>1. CASE kernel[k].proc # 0 BY <1>3, <2>1 DEF Terminate
  <2>2. CASE kernel[k].proc = 0
    <3>1. kernel[k].stop \in {"none", "pending"} BY <1>2 DEF KernelRec
    <3>2. kernel' = [kernel EXCEPT ![k].term =
                              CASE kernel[k].stop = "none" -> "done"
                                [] kernel[k].stop = "pending" -> "pending"
                                [] OTHER -> "failed"]
      BY <1>3, <2>2 DEF Terminate
    <3> QED BY <2>2, <3>1, <3>2
  <2> QED BY <2>1, <2>2
<1>5. /\ r \in KernelRec /\ r.proc \in 0 .. Len(proc)
      /\ r.phase = "spawning" => r.boot \in 1 .. Len(proc)
  <2>1. kernel[k].proc \in Nat /\ 0 \in 0 .. Len(proc) BY <1>1, <1>2
  <2>2. kernel[k].phase = "spawning" => kernel[k].boot \in 1 .. Len(proc) BY <1>2 DEF Procs
  <2>3. CASE kernel[k].proc # 0 BY <1>2, <2>1, <2>2, <2>3 DEF KernelRec
  <2>4. CASE kernel[k].proc = 0 BY <1>2, <2>1, <2>2, <2>4 DEF KernelRec
  <2> QED BY <2>3, <2>4
<1>6. kernel' \in Seq(KernelsFor(Len(proc))) /\ Len(kernel') = Len(kernel)
  <2> HIDE DEF r
  <2> QED BY <1>1, <1>4, <1>5, KernelPut
<1>7. /\ call' \in Seq(CallsFor(Len(kernel), Len(proc))) /\ Len(call') = Len(c)
      /\ \A m \in 1 .. Len(c) :
           /\ call'[m].kind = c[m].kind /\ call'[m].at = c[m].at /\ call'[m].proc = c[m].proc
           /\ call'[m].since = c[m].since /\ call'[m].settled = c[m].settled
           /\ call'[m].answer = c[m].answer /\ call'[m].watch = c[m].watch
           /\ call'[m].pc = c[m].pc \/ (c[m].pc = "running" /\ call'[m].pc = "threw")
  <2>1. call' = Rejected(c, k) \/ call' = c BY <1>3 DEF Terminate
  <2>2. c \in Seq(CallsFor(Len(kernel), Len(proc))) BY DEF DropsTo
  <2> QED BY <2>1, <2>2, RejectedTyped
<1>8. Len(c) \in Nat /\ Len(c) >= Len(call) /\ \A m \in Calls : m \in 1 .. Len(c)
  BY <1>1 DEF DropsTo, Calls
<1>9. /\ proc' \in Seq(ProcsFor(Len(kernel), Len(c))) /\ Len(proc') = Len(proc)
      /\ \A p \in Procs :
           /\ proc'[p].state = proc[p].state /\ proc'[p].kernel = proc[p].kernel
           /\ proc'[p].ready = IF p = kernel[child].proc /\ proc[p].ready = "pending"
                                 THEN "rejected" ELSE proc[p].ready
  <2>1. CASE kernel[k].proc # 0
    <3>1. proc' = Unready(kernel[k].proc) BY <1>3, <2>1 DEF Terminate
    <3>2. kernel[k].proc \in Procs BY <1>2, <2>1
    <3>3. Unreadied(proc', kernel[k].proc, Len(c)) BY <1>8, <3>1, <3>2, UnreadyFacts
    <3> QED BY <3>3 DEF Unreadied
  <2>2. CASE kernel[k].proc = 0
    <3>1. proc' = proc BY <1>3, <2>2 DEF Terminate
    <3>2. proc \in Seq(ProcsFor(Len(kernel), Len(c))) BY <1>1, <1>8, GrownProcs DEF Typed
    <3> QED BY <2>2, <3>1, <3>2 DEF Procs
  <2> QED BY <2>1, <2>2
<1>10. ManagerOK'
  <2>1. ManagerOK BY DEF Typed
  <2>2. active' # 0 => call'[active'].kind = "js"
    <3>1. \A m \in Calls : c[m].kind = call[m].kind BY DEF DropsTo
    <3>2. \A m \in Calls : call'[m].kind = c[m].kind BY <1>7, <1>8
    <3> QED BY <1>1, <3>1, <3>2
  <2>3. active' \in 0 .. Len(call') /\ startup' \in 0 .. Len(kernel') BY <1>1, <1>6, <1>7, <1>8
  <2> QED BY <1>1, <1>3, <1>6, <2>1, <2>2, <2>3 DEF ManagerOK
<1>11. Typed' BY <1>6, <1>7, <1>9, <1>10 DEF Typed
<1>12. \A m \in Calls :
         /\ Same(m) /\ (call[m].settled => call'[m].settled)
         /\ call'[m].settled # call[m].settled => Quiet
         /\ call[m].kind \in {"reset", "close"} => call'[m].answer = call[m].answer
         /\ \/ call'[m].pc = call[m].pc /\ call'[m].watch = call[m].watch
            \/ call'[m].pc \in {"threw", "failing"}
            \/ call[m].pc = "rterm" /\ call'[m].pc = "rstop" /\ call'[m].watch = child
  BY <1>7, <1>8 DEF DropsTo, Same
<1>13. \/ Len(call') = Len(call)
       \/ /\ Len(call') = Len(call) + 1
          /\ LET d == call'[Len(call) + 1] IN
             /\ d.pc = "cstart" /\ d.watch = startup /\ shuttingDown' /\ d.at = 0
             /\ d.kind = "close" /\ d.answer = "none"
  <2>1. CASE Len(c) = Len(call) BY <1>7, <2>1
  <2>2. CASE Len(c) = Len(call) + 1
    <3>1. Len(call) + 1 \in 1 .. Len(c) BY <1>1, <2>2
    <3> QED BY <1>7, <2>2, <3>1 DEF DropsTo
  <2> QED BY <2>1, <2>2 DEF DropsTo
<1> QED BY <1>3, <1>4, <1>9, <1>11, <1>12, <1>13 DEF Dropped

\* The calls c differ from the present ones in answers and timers only.
Alike(c) ==
  /\ c \in Seq(CallsFor(Len(kernel), Len(proc))) /\ Len(c) = Len(call)
  /\ \A m \in Calls :
       /\ c[m].kind = call[m].kind /\ c[m].at = call[m].at /\ c[m].proc = call[m].proc
       /\ c[m].since = call[m].since /\ c[m].pc = call[m].pc /\ c[m].watch = call[m].watch
       /\ call[m].settled => c[m].settled
       /\ call[m].kind \in {"reset", "close"} => c[m].answer = call[m].answer

LEMMA AlikeItself ==
  ASSUME Typed
  PROVE  Alike(call)
BY DEF Alike, Typed

LEMMA AlikeOne ==
  ASSUME Typed, NEW n \in Calls, NEW r \in CallRec, CallOK(r, Len(kernel), Len(proc)),
         r.kind = call[n].kind, r.at = call[n].at, r.proc = call[n].proc,
         r.since = call[n].since, r.pc = call[n].pc, r.watch = call[n].watch,
         call[n].settled => r.settled,
         call[n].kind = "js"
  PROVE  Alike([call EXCEPT ![n] = r])
<1>1. r \in CallsFor(Len(kernel), Len(proc)) BY DEF CallsFor
<1>2. call \in Seq(CallsFor(Len(kernel), Len(proc))) /\ n \in 1 .. Len(call) BY DEF Typed, Calls
<1>3. PICK c : c = [call EXCEPT ![n] = r] OBVIOUS
<1>4. /\ c \in Seq(CallsFor(Len(kernel), Len(proc))) /\ Len(c) = Len(call) /\ c[n] = r
      /\ \A m \in Calls : m # n => c[m] = call[m]
  BY <1>1, <1>2, <1>3, Put DEF Calls
<1> QED BY <1>3, <1>4 DEF Alike

LEMMA SettledAlike ==
  ASSUME Typed, active # 0, NEW answer \in Answers
  PROVE  Alike(Settled(call, active, answer))
<1> DEFINE r == Cleared(call[active], answer)
<1>1. active \in Calls /\ call[active].kind = "js" BY Sizes
<1>2. call[active] \in CallRec /\ CallOK(call[active], Len(kernel), Len(proc)) BY <1>1, Call
<1>3. /\ r \in CallRec
      /\ r.kind = call[active].kind /\ r.pc = call[active].pc /\ r.watch = call[active].watch
      /\ r.at = call[active].at /\ r.proc = call[active].proc
      /\ r.settled /\ r.answer = answer /\ ~r.timeoutPending
      /\ r.timerWatch = call[active].timerWatch /\ r.since = call[active].since
  BY <1>2, ClearedFacts
<1>4. Settled(call, active, answer) = [call EXCEPT ![active] = r] BY SettledFacts
<1> HIDE DEF r
<1>5. CallOK(r, Len(kernel), Len(proc)) BY <1>2, <1>3 DEF CallOK
<1>6. Alike([call EXCEPT ![active] = r]) BY <1>1, <1>3, <1>5, AlikeOne
<1> QED BY <1>4, <1>6

LEMMA AlikeMore ==
  ASSUME Typed, NEW c, Alike(c), NEW d \in CallsFor(Len(kernel), Len(proc))
  PROVE  /\ Append(c, d) \in Seq(CallsFor(Len(kernel), Len(proc)))
         /\ Len(Append(c, d)) = Len(call) + 1 /\ Append(c, d)[Len(call) + 1] = d
         /\ \A m \in Calls : Append(c, d)[m] = c[m]
BY Add DEF Alike, Calls

LEMMA NewCallFacts ==
  ASSUME Typed, NEW kind \in {"js", "reset", "dir", "close"}, NEW id \in Ids \cup Dirs \cup {"none"},
         NEW pc \in {"term", "rterm", "cstart"}, NEW w \in 0 .. Len(kernel),
         pc = "rterm" => kind = "reset", pc = "cstart" <=> kind = "close"
  PROVE  LET d == NewCall(kind, id, pc, w) IN
         /\ d \in CallsFor(Len(kernel), Len(proc)) /\ d.kind = kind /\ d.pc = pc /\ d.watch = w
         /\ d.at = 0 /\ d.answer = "none" /\ d \in CallRec /\ d.timerWatch = 0 /\ d.proc = 0
         /\ d.since = Len(proc) /\ ~d.timeoutPending
<1>1. Len(kernel) \in Nat /\ Len(proc) \in Nat /\ w \in Nat BY Sizes
<1> DEFINE d == NewCall(kind, id, pc, w)
<1>2. d \in CallRec /\ d.kind = kind /\ d.pc = pc /\ d.watch = w
      /\ d.at = 0 /\ d.answer = "none" /\ d.timerWatch = 0 /\ d.proc = 0
      /\ d.since = Len(proc) /\ ~d.timeoutPending
  BY <1>1 DEF NewCall, CallRec, Places, Answers
<1> HIDE DEF d
<1>3. CallOK(d, Len(kernel), Len(proc)) BY <1>1, <1>2 DEF CallOK
<1>4. d \in CallsFor(Len(kernel), Len(proc)) BY <1>2, <1>3 DEF CallsFor
<1> QED BY <1>2, <1>4 DEF d

\* What commands and events do to the manager.
Steady ==
  /\ Quiet /\ ProcsKept /\ proc' \in Seq(ProcsFor(Len(kernel), Len(call)))
  /\ UNCHANGED <<kernel, child, startup, termination, metadata>>
  /\ shuttingDown' # shuttingDown => shuttingDown' /\ child = 0
  /\ shuttingDown' \in BOOLEAN /\ generation' \in Nat /\ moduleDirs' \subseteq Dirs
  /\ reading' = FALSE

LEMMA OuterSame ==
  ASSUME Typed, Steady, Alike(call'), active' \in {active, 0},
         child = 0 \/ \A m \in Calls : call'[m].settled = call[m].settled
  PROVE  Typed' /\ Outer
<1>1. /\ active \in 0 .. Len(call) /\ (active # 0 => active \in Calls /\ call[active].kind = "js")
      /\ Len(call) \in Nat
  BY Sizes
<1>2. ManagerOK'
  <2>1. ManagerOK BY DEF Typed
  <2>2. active' # 0 => call'[active'].kind = "js" BY <1>1 DEF Alike
  <2>3. active' \in 0 .. Len(call') BY <1>1 DEF Alike
  <2> QED BY <2>1, <2>2, <2>3 DEF ManagerOK, Steady
<1>3. Typed' BY <1>2 DEF Typed, Steady, Alike, ProcsKept
<1>4. Outer BY DEF Outer, Steady, Alike, Same
<1> QED BY <1>3, <1>4

NewOK(d) ==
  /\ d \in CallsFor(Len(kernel), Len(proc))
  /\ d.at = 0
  /\ d.kind \in {"reset", "close"} => d.answer = "none"
  /\ \/ d.pc = "done"
     \/ d.pc = "term" /\ d.kind \in {"js", "dir"} /\ d.watch = termination
     \/ d.pc = "rterm" /\ d.watch = termination
     \/ d.pc = "cstart" /\ d.watch = startup /\ shuttingDown'

LEMMA OuterMore ==
  ASSUME Typed, Steady, NEW c, Alike(c), NEW d, NewOK(d), call' = Append(c, d),
         active' \in {active, 0} \/ (active' = Len(call) + 1 /\ d.kind = "js"),
         \/ child = 0
         \/ d.pc = "rterm"
         \/ \A m \in Calls : c[m].settled = call[m].settled
  PROVE  Typed' /\ Outer
<1>1. /\ active \in 0 .. Len(call) /\ (active # 0 => active \in Calls /\ call[active].kind = "js")
      /\ Len(call) \in Nat /\ Len(kernel) \in Nat
  BY Sizes
<1>2. /\ call' \in Seq(CallsFor(Len(kernel), Len(proc))) /\ Len(call') = Len(call) + 1
      /\ call'[Len(call) + 1] = d /\ \A m \in Calls : call'[m] = c[m]
  BY AlikeMore DEF NewOK
<1>3. ManagerOK'
  <2>1. ManagerOK BY DEF Typed
  <2>2. active' # 0 => call'[active'].kind = "js" BY <1>1, <1>2 DEF Alike
  <2>3. active' \in 0 .. Len(call') BY <1>1, <1>2
  <2> QED BY <2>1, <2>2, <2>3 DEF ManagerOK, Steady
<1>4. proc' \in Seq(ProcsFor(Len(kernel), Len(call')))
  <2>1. Len(kernel) >= Len(kernel) /\ Len(call) + 1 \in Nat /\ Len(call) + 1 >= Len(call) BY <1>1
  <2>2. Seq(ProcsFor(Len(kernel), Len(call))) \subseteq Seq(ProcsFor(Len(kernel), Len(call) + 1))
    BY <1>1, <2>1, GrownProcs
  <2> QED BY <1>2, <2>2 DEF Steady
<1>5. Typed' BY <1>2, <1>3, <1>4 DEF Typed, Steady, ProcsKept
<1>6. \A m \in Calls :
        /\ Same(m) /\ call'[m].watch = call[m].watch
        /\ call[m].settled => call'[m].settled
        /\ call'[m].pc = call[m].pc
        /\ call[m].kind \in {"reset", "close"} => call'[m].answer = call[m].answer
        /\ call'[m].settled = c[m].settled
  BY <1>2, ZenonT(40) DEF Alike, Same
<1> QED BY <1>2, <1>5, <1>6, ZenonT(40) DEF Outer, Steady, NewOK

LEMMA LineFacts ==
  ASSUME Pipelined = {}, NEW name, Line(name)
  PROVE  Quiet /\ reading' = FALSE
<1>1. (name \in Pipelined) = FALSE OBVIOUS
<1>2. reading' = (name \in Pipelined) BY DEF Line
<1>3. Quiet BY <1>1 DEF Line
<1> QED BY <1>1, <1>2, <1>3

LEMMA SteadyFacts ==
  ASSUME Typed, Quiet, UNCHANGED <<kernel, proc, child, startup, termination, metadata>>,
         reading' = FALSE, generation' \in {generation, generation + 1},
         shuttingDown' = shuttingDown \/ (shuttingDown' = TRUE /\ child = 0),
         moduleDirs' \subseteq Dirs
  PROVE  Steady
<1>1. generation \in Nat /\ shuttingDown \in BOOLEAN BY DEF Typed, ManagerOK
<1>2. ProcsKept /\ proc' \in Seq(ProcsFor(Len(kernel), Len(call))) BY DEF ProcsKept, Typed
<1>3. generation' \in Nat BY <1>1
<1>4. /\ shuttingDown' # shuttingDown => shuttingDown' /\ child = 0
      /\ shuttingDown' \in BOOLEAN
  BY <1>1
<1> QED BY <1>2, <1>3, <1>4 DEF Steady

LEMMA ExecuteStep ==
  ASSUME Typed, Pipelined = {}, NEW id \in Ids, Execute(id)
  PROVE  Typed' /\ Outer
<1> DEFINE n == Len(call) + 1
           d == NewCall("js", id, "term", termination)
           e == [d EXCEPT !.pc = "done", !.settled = TRUE, !.answer = "cancelled"]
           f == [d EXCEPT !.timer = "armed"]
<1>1. Quiet /\ reading' = FALSE BY LineFacts DEF Execute
<1>2. UNCHANGED <<kernel, proc, child, startup, termination, generation, shuttingDown,
                 metadata, moduleDirs>>
  BY DEF Execute
<1>3. moduleDirs \subseteq Dirs BY DEF Typed, ManagerOK
<1>4. Steady BY <1>1, <1>2, <1>3, SteadyFacts
<1>5. termination \in 0 .. Len(kernel) BY Sizes
<1>6. /\ d \in CallsFor(Len(kernel), Len(proc)) /\ d.kind = "js" /\ d.pc = "term"
      /\ d.watch = termination /\ d.at = 0 /\ d \in CallRec /\ CallOK(d, Len(kernel), Len(proc))
      /\ d.timerWatch = 0 /\ d.proc = 0 /\ d.since = Len(proc) /\ ~d.timeoutPending
  <2>1. id \in Ids \cup Dirs \cup {"none"} OBVIOUS
  <2>2. d \in CallsFor(Len(kernel), Len(proc)) /\ d.kind = "js" /\ d.pc = "term"
        /\ d.watch = termination /\ d.at = 0 /\ d \in CallRec
        /\ d.timerWatch = 0 /\ d.proc = 0 /\ d.since = Len(proc) /\ ~d.timeoutPending
    BY <1>5, <2>1, NewCallFacts
  <2> HIDE DEF d
  <2> QED BY <2>2 DEF CallsFor
<1> HIDE DEF d
<1>7. NewOK(e)
  <2>1. /\ e \in CallRec /\ e.kind = d.kind /\ e.pc = "done" /\ e.watch = d.watch /\ e.at = d.at
        /\ e.proc = d.proc /\ e.settled /\ e.since = d.since /\ e.timerWatch = d.timerWatch
        /\ e.timeoutPending = d.timeoutPending
    BY <1>6 DEF CallRec, Places, Answers
  <2> HIDE DEF e
  <2>2. CallOK(e, Len(kernel), Len(proc)) BY <1>6, <2>1 DEF CallOK
  <2> QED BY <1>6, <2>1, <2>2 DEF NewOK, CallsFor
<1>8. NewOK(f) /\ f.kind = "js"
  <2>1. /\ f \in CallRec /\ f.kind = d.kind /\ f.pc = d.pc /\ f.watch = d.watch /\ f.at = d.at
        /\ f.proc = d.proc /\ f.settled = d.settled /\ f.since = d.since
        /\ f.timerWatch = d.timerWatch /\ f.timeoutPending = d.timeoutPending
    BY <1>6 DEF CallRec
  <2> HIDE DEF f
  <2>2. CallOK(f, Len(kernel), Len(proc)) BY <1>6, <2>1 DEF CallOK
  <2> QED BY <1>6, <2>1, <2>2 DEF NewOK, CallsFor
<1>9. \/ call' = Append(call, e) /\ active' = active
      \/ call' = Append(call, f) /\ active' = n
  BY DEF Execute, d
<1> HIDE DEF e, f
<1>10. CASE call' = Append(call, e) /\ active' = active
  BY <1>4, <1>7, <1>10, AlikeItself, OuterMore
<1>11. CASE call' = Append(call, f) /\ active' = n
  BY <1>4, <1>8, <1>11, AlikeItself, OuterMore
<1> QED BY <1>9, <1>10, <1>11

LEMMA ResetStep ==
  ASSUME Typed, Pipelined = {}, Reset
  PROVE  Typed' /\ Outer
<1> DEFINE c == IF Dismissed THEN Settled(call, active, "reset") ELSE call
           d == NewCall("reset", "none", "rterm", termination)
<1>1. Quiet /\ reading' = FALSE BY LineFacts DEF Reset
<1>2. UNCHANGED <<kernel, proc, child, startup, termination, shuttingDown, metadata, moduleDirs>>
      /\ generation' = generation + 1
  BY DEF Reset
<1>3. moduleDirs \subseteq Dirs BY DEF Typed, ManagerOK
<1>4. Steady BY <1>1, <1>2, <1>3, SteadyFacts
<1>5. Alike(c) BY AlikeItself, SettledAlike DEF Dismissed, Answers
<1>6. termination \in 0 .. Len(kernel) BY Sizes
<1>7. NewOK(d) /\ d.pc = "rterm"
  <2>1. /\ d \in CallsFor(Len(kernel), Len(proc)) /\ d.kind = "reset" /\ d.pc = "rterm"
        /\ d.watch = termination /\ d.at = 0 /\ d.answer = "none"
    BY <1>6, NewCallFacts
  <2> HIDE DEF d
  <2> QED BY <2>1 DEF NewOK
<1>8. call' = Append(c, d) /\ active' \in {active, 0} BY DEF Reset
<1> HIDE DEF c, d
<1> QED BY <1>4, <1>5, <1>7, <1>8, OuterMore

LEMMA DirStep ==
  ASSUME Typed, Pipelined = {}, NEW x \in Dirs, AddNodeModuleDir(x)
  PROVE  Typed' /\ Outer
<1> DEFINE d == NewCall("dir", x, "term", termination)
           e == [d EXCEPT !.pc = "done", !.settled = TRUE, !.answer = "ok"]
<1>1. Quiet /\ reading' = FALSE BY LineFacts DEF AddNodeModuleDir
<1>2. UNCHANGED <<kernel, proc, child, startup, termination, generation, shuttingDown,
                 metadata, active>>
      /\ moduleDirs' = moduleDirs \cup {x}
  BY DEF AddNodeModuleDir
<1>3. moduleDirs' \subseteq Dirs BY <1>2 DEF Typed, ManagerOK
<1>4. Steady BY <1>1, <1>2, <1>3, SteadyFacts
<1>5. termination \in 0 .. Len(kernel) BY Sizes
<1>6. /\ d \in CallsFor(Len(kernel), Len(proc)) /\ d.kind = "dir" /\ d.pc = "term"
      /\ d.watch = termination /\ d.at = 0 /\ d \in CallRec /\ CallOK(d, Len(kernel), Len(proc))
      /\ d.timerWatch = 0 /\ d.proc = 0 /\ d.since = Len(proc) /\ ~d.timeoutPending
  <2>1. x \in Ids \cup Dirs \cup {"none"} OBVIOUS
  <2>2. d \in CallsFor(Len(kernel), Len(proc)) /\ d.kind = "dir" /\ d.pc = "term"
        /\ d.watch = termination /\ d.at = 0 /\ d \in CallRec
        /\ d.timerWatch = 0 /\ d.proc = 0 /\ d.since = Len(proc) /\ ~d.timeoutPending
    BY <1>5, <2>1, NewCallFacts
  <2> HIDE DEF d
  <2> QED BY <2>2 DEF CallsFor
<1>7. call' = Append(call, e) \/ call' = Append(call, d) BY DEF AddNodeModuleDir
<1> HIDE DEF d
<1>8. NewOK(e)
  <2>1. /\ e \in CallRec /\ e.kind = d.kind /\ e.pc = "done" /\ e.watch = d.watch /\ e.at = d.at
        /\ e.proc = d.proc /\ e.settled /\ e.since = d.since /\ e.timerWatch = d.timerWatch
        /\ e.timeoutPending = d.timeoutPending
    BY <1>6 DEF CallRec, Places, Answers
  <2> HIDE DEF e
  <2>2. CallOK(e, Len(kernel), Len(proc)) BY <1>6, <2>1 DEF CallOK
  <2> QED BY <1>6, <2>1, <2>2 DEF NewOK, CallsFor
<1>9. NewOK(d) BY <1>6 DEF NewOK
<1> HIDE DEF e
<1>10. CASE call' = Append(call, e) BY <1>2, <1>4, <1>8, <1>10, AlikeItself, OuterMore
<1>11. CASE call' = Append(call, d) BY <1>2, <1>4, <1>9, <1>11, AlikeItself, OuterMore
<1> QED BY <1>7, <1>10, <1>11

LEMMA OuterDrop ==
  ASSUME Typed, Quiet, child # 0, NEW c, Alike(c), DropChild(c),
         active' \in {active, 0}, UNCHANGED <<startup, metadata, moduleDirs, shuttingDown>>,
         generation' = generation, reading' = FALSE
  PROVE  Typed' /\ Dropped(0)
<1>1. DropsTo(c) BY DEF DropsTo, Alike
<1>2. generation \in Nat /\ shuttingDown \in BOOLEAN BY DEF Typed, ManagerOK
<1> QED BY <1>1, <1>2, DropStep

\* A command that drops the child, if there is one.
LEMMA OuterOrDrop ==
  ASSUME Typed, Quiet, NEW c, Alike(c), DropChild(c),
         active' \in {active, 0},
         UNCHANGED <<startup, metadata, moduleDirs, shuttingDown, generation>>, reading' = FALSE
  PROVE  Typed' /\ (Outer \/ Dropped(0))
<1>1. CASE child # 0 BY <1>1, OuterDrop
<1>2. CASE child = 0
  <2>1. call' = c /\ UNCHANGED <<kernel, proc, child, termination>> BY <1>2 DEF DropChild
  <2>2. moduleDirs \subseteq Dirs BY DEF Typed, ManagerOK
  <2>3. Steady BY <2>1, <2>2, SteadyFacts
  <2> QED BY <1>2, <2>1, <2>3, OuterSame
<1> QED BY <1>1, <1>2

LEMMA CancelStep ==
  ASSUME Typed, Pipelined = {}, NEW id, Cancel(id)
  PROVE  Typed' /\ (Outer \/ Dropped(0))
<1>1. Quiet /\ reading' = FALSE BY LineFacts DEF Cancel
<1>2. UNCHANGED <<startup, generation, shuttingDown, metadata, moduleDirs>> BY DEF Cancel
<1>3. CASE UNCHANGED <<call, kernel, proc, active, child, termination>>
  <2>1. moduleDirs \subseteq Dirs BY DEF Typed, ManagerOK
  <2>2. Steady BY <1>1, <1>2, <1>3, <2>1, SteadyFacts
  <2>3. Alike(call') BY <1>3, AlikeItself
  <2>4. \A m \in Calls : call'[m].settled = call[m].settled BY <1>3
  <2> QED BY <1>3, <2>2, <2>3, <2>4, OuterSame
<1>4. CASE active # 0 /\ DropChild(Settled(call, active, "cancelled")) /\ active' = 0
  <2>1. PICK c : c = Settled(call, active, "cancelled") OBVIOUS
  <2>2. Alike(c) /\ DropChild(c) BY <1>4, <2>1, SettledAlike DEF Answers
  <2> QED BY <1>1, <1>2, <1>4, <2>2, OuterOrDrop
<1> QED BY <1>3, <1>4 DEF Cancel

LEMMA TimerStep ==
  ASSUME Typed, NEW n \in Calls, Timeout(n)
  PROVE  Typed' /\ (Outer \/ Dropped(0))
<1> DEFINE r == [call[n] EXCEPT !.settled = TRUE, !.timeoutPending = TRUE, !.timer = "waiting",
                                !.timerWatch = IF child # 0 THEN child ELSE termination]
           c == [call EXCEPT ![n] = r]
<1>1. Quiet /\ reading' = FALSE BY DEF Timeout, Event
<1>2. /\ UNCHANGED <<startup, generation, shuttingDown, metadata, moduleDirs, active>>
      /\ active = n /\ DropChild(c)
  BY DEF Timeout
<1>3. call[n] \in CallRec /\ CallOK(call[n], Len(kernel), Len(proc)) BY Call
<1>4. call[n].kind = "js" BY <1>2, Sizes DEF Calls
<1>5. PICK w \in 0 .. Len(kernel) : w = IF child # 0 THEN child ELSE termination BY Sizes
<1>6. w \in Nat BY <1>5, Sizes
<1>7. /\ r \in CallRec /\ r.kind = call[n].kind /\ r.at = call[n].at /\ r.proc = call[n].proc
      /\ r.since = call[n].since /\ r.pc = call[n].pc /\ r.watch = call[n].watch
      /\ r.settled /\ r.timerWatch = w /\ r.answer = call[n].answer
  BY <1>3, <1>5, <1>6 DEF CallRec
<1> HIDE DEF r
<1>8. CallOK(r, Len(kernel), Len(proc)) BY <1>3, <1>7 DEF CallOK
<1>9. Alike(c) BY <1>4, <1>7, <1>8, AlikeOne
<1> HIDE DEF c
<1> QED BY <1>1, <1>2, <1>9, OuterOrDrop

LEMMA CloseCommandStep ==
  ASSUME Typed, Pipelined = {}, Close
  PROVE  Typed' /\ (Outer \/ Dropped(0))
<1> DEFINE b == IF Dismissed THEN Settled(call, active, "shutdown") ELSE call
           d == NewCall("close", "none", "cstart", startup)
<1>1. Quiet /\ reading' = FALSE BY LineFacts DEF Close
<1>2. /\ UNCHANGED <<startup, metadata, moduleDirs>> /\ shuttingDown' = TRUE
      /\ generation' = generation + 1 /\ active' \in {active, 0}
      /\ DropChild(Append(b, d))
  BY DEF Close
<1>3. Alike(b) BY AlikeItself, SettledAlike DEF Dismissed, Answers
<1>4. startup \in 0 .. Len(kernel) BY Sizes
<1>5. /\ d \in CallsFor(Len(kernel), Len(proc)) /\ d.kind = "close" /\ d.pc = "cstart"
      /\ d.watch = startup /\ d.at = 0 /\ d.answer = "none"
  BY <1>4, NewCallFacts
<1>6. generation \in Nat /\ moduleDirs \subseteq Dirs BY DEF Typed, ManagerOK
<1>7. PICK c : c = Append(b, d) OBVIOUS
<1> HIDE DEF b, d
<1>8. /\ c \in Seq(CallsFor(Len(kernel), Len(proc))) /\ Len(c) = Len(call) + 1
      /\ c[Len(call) + 1] = d /\ \A m \in Calls : c[m] = b[m]
  BY <1>3, <1>5, <1>7, AlikeMore
<1>9. CASE child # 0
  <2>1. DropsTo(c) BY <1>1, <1>2, <1>3, <1>5, <1>8 DEF DropsTo, Alike
  <2>2. DropChild(c) /\ generation' \in Nat /\ shuttingDown' /\ shuttingDown' \in BOOLEAN
    BY <1>2, <1>6, <1>7
  <2> QED BY <1>1, <1>2, <1>9, <2>1, <2>2, DropStep
<1>10. CASE child = 0
  <2>1. call' = Append(b, d) /\ UNCHANGED <<kernel, proc, child, termination>>
    BY <1>2, <1>10 DEF DropChild
  <2>2. Steady BY <1>1, <1>2, <1>6, <1>10, <2>1, SteadyFacts
  <2>3. NewOK(d) BY <1>2, <1>5 DEF NewOK
  <2> QED BY <1>2, <1>3, <1>10, <2>1, <2>2, <2>3, OuterMore
<1> QED BY <1>9, <1>10

\* Call n is moved before the child is dropped.
LEMMA MovedDrops ==
  ASSUME Typed, NEW n \in Calls, NEW pc, Legal(n, pc, child, call[n].at, call[n].proc),
         pc = "failing" \/ (call[n].pc = "rterm" /\ pc = "rstop")
  PROVE  DropsTo(At(n, pc, child))
<1> DEFINE d == Moved(call[n], pc, child, call[n].at, call[n].proc)
<1>1. Len(kernel) \in Nat /\ Len(proc) \in Nat BY DEF Typed
<1>2. call[n] \in CallRec /\ CallOK(call[n], Len(kernel), Len(proc)) BY Call
<1>3. pc \in Places /\ child \in Nat /\ call[n].at \in Nat /\ call[n].proc \in Nat
  BY <1>1, Sizes DEF Legal
<1>4. d \in CallRec /\ d.pc = pc /\ d.watch = child /\ d.at = call[n].at /\ d.proc = call[n].proc
      /\ d.kind = call[n].kind /\ d.settled = call[n].settled /\ d.since = call[n].since
      /\ d.answer = call[n].answer
      /\ d.timerWatch = call[n].timerWatch /\ d.timeoutPending = call[n].timeoutPending
  BY <1>2, <1>3 DEF Moved, CallRec
<1>5. PICK c : c = At(n, pc, child) OBVIOUS
<1>6. c = [call EXCEPT ![n] = d] BY <1>5, AtForm
<1> HIDE DEF d
<1>7. CallOK(d, Len(kernel), Len(proc)) BY <1>2, <1>4 DEF CallOK, Legal
<1>8. d \in CallsFor(Len(kernel), Len(proc)) BY <1>4, <1>7 DEF CallsFor
<1>9. /\ c \in Seq(CallsFor(Len(kernel), Len(proc))) /\ Len(c) = Len(call) /\ c[n] = d
      /\ \A m \in Calls : m # n => c[m] = call[m]
  BY <1>6, <1>8, Put DEF Typed, Calls
<1> QED BY <1>4, <1>5, <1>9 DEF DropsTo

LEMMA CatchDropStep ==
  ASSUME Typed, NEW n \in Calls, Catch(n), child' # child, reading' = FALSE
  PROVE  Typed' /\ Dropped(n)
<1>1. /\ call[n].pc = "threw" /\ call[n].kind = "js" /\ ~call[n].settled /\ call[n].at # 0
      /\ child = call[n].at /\ DropChild(At(n, "failing", child))
      /\ UNCHANGED <<active, startup, generation, shuttingDown, metadata, moduleDirs>>
  BY DEF Catch
<1>2. Dropper(n) BY <1>1 DEF Dropper, Catcher
<1>3. call[n].proc \in Nat BY Call DEF CallRec
<1>4. Legal(n, "failing", child, call[n].at, call[n].proc) BY <1>1, <1>3, Sizes DEF Legal, Places
<1>5. DropsTo(At(n, "failing", child)) BY <1>4, MovedDrops
<1>6. generation \in Nat /\ shuttingDown \in BOOLEAN BY DEF Typed, ManagerOK
<1>7. PICK c : c = At(n, "failing", child) OBVIOUS
<1>8. DropsTo(c) /\ DropChild(c) BY <1>1, <1>5, <1>7
<1> QED BY <1>1, <1>2, <1>6, <1>8, DropStep

LEMMA RestartDropStep ==
  ASSUME Typed, NEW n \in Calls, ResumeRestart(n), call[n].pc = "rterm", child # 0, reading' = FALSE
  PROVE  Typed' /\ Dropped(n)
<1>1. /\ Terminated(call[n].watch) /\ call[n].watch \in 0 .. Len(kernel)
      /\ call[n].kind = "reset" /\ call[n].at = 0 /\ call[n].proc \in Nat
  BY Call DEF CallOK, CallRec, ResumeRestart
<1>2. ~Unkillable(call[n].watch) BY <1>1, NotUnkillable
<1>3. /\ DropChild(At(n, "rstop", child))
      /\ UNCHANGED <<active, startup, generation, shuttingDown, metadata, moduleDirs>>
  BY <1>2 DEF ResumeRestart
<1>4. Dropper(n) BY <1>1 DEF Dropper
<1>5. Legal(n, "rstop", child, call[n].at, call[n].proc) BY <1>1, Sizes DEF Legal, Places
<1>6. DropsTo(At(n, "rstop", child)) BY <1>5, MovedDrops
<1>7. generation \in Nat /\ shuttingDown \in BOOLEAN BY DEF Typed, ManagerOK
<1>8. PICK c : c = At(n, "rstop", child) OBVIOUS
<1>9. DropsTo(c) /\ DropChild(c) BY <1>3, <1>6, <1>8
<1> QED BY <1>3, <1>4, <1>7, <1>9, DropStep

\* An event that ends call n, or only its cell.
LEMMA EndsOuter ==
  ASSUME Typed, NEW n \in Calls, Quiet, Ends(n), call[n].pc = "running",
         UNCHANGED <<kernel, child, startup, termination, shuttingDown>>
  PROVE  Typed' /\ Outer
<1>1. call[n].kind \in {"js", "dir"} BY Call DEF CallOK, CallRec
<1>2. Only(n) /\ ProcsKept /\ Typed' /\ Same(n) /\ call'[n].pc = "done"
      /\ call'[n].watch = call[n].watch /\ (call[n].settled => call'[n].settled)
  BY DEF Ends
<1> QED BY <1>1, <1>2 DEF Outer, Only, Same

LEMMA ProcPut ==
  ASSUME Typed, NEW p \in Procs, NEW q \in ProcRec, q.state = proc[p].state,
         q.kernel = proc[p].kernel, q.ready = proc[p].ready, q.run \in 0 .. Len(call),
         proc' = [proc EXCEPT ![p] = q]
  PROVE  proc' \in Seq(ProcsFor(Len(kernel), Len(call))) /\ ProcsKept
<1>1. proc[p].kernel \in 1 .. Len(kernel) /\ p \in 1 .. Len(proc) BY Proc DEF Kernels, Procs
<1>2. q \in ProcsFor(Len(kernel), Len(call)) BY <1>1 DEF ProcsFor
<1> QED BY <1>1, <1>2, Put DEF Typed, ProcsKept, Procs

LEMMA ResultStep ==
  ASSUME Typed, NEW p \in Procs, Result(p)
  PROVE  Typed' /\ Outer
<1> DEFINE n == proc[p].run
           q == [proc[p] EXCEPT !.run = 0]
<1>1. proc[p] \in ProcRec /\ n \in 0 .. Len(call) /\ n # 0 /\ n \in Calls
  BY Proc DEF Result, Calls
<1>2. /\ Quiet /\ reading' = FALSE
      /\ UNCHANGED <<kernel, child, startup, termination, generation, shuttingDown, metadata,
                     moduleDirs>>
  BY DEF Result, Event
<1>3. proc' = [proc EXCEPT ![p] = q] BY DEF Result
<1>4. q \in ProcRec /\ q.state = proc[p].state /\ q.kernel = proc[p].kernel
      /\ q.ready = proc[p].ready /\ q.run = 0 /\ q.run \in 0 .. Len(call)
  BY <1>1 DEF ProcRec
<1> HIDE DEF q
<1>5. proc' \in Seq(ProcsFor(Len(kernel), Len(call))) /\ ProcsKept BY <1>3, <1>4, ProcPut
<1>6. CASE call[n].pc = "running" /\ Finish(n, "ok")
  <2>1. active' \in {active, 0} BY <1>6 DEF Finish
  <2>2. Calm BY <1>2, <1>5, <2>1 DEF Calm
  <2>3. Ends(n) BY <1>1, <1>6, <2>2, FinishEnds DEF Answers
  <2> QED BY <1>1, <1>2, <1>6, <2>3, EndsOuter
<1>7. CASE UNCHANGED <<call, active>>
  <2>1. Steady BY <1>2, <1>5 DEF Steady, Typed, ManagerOK
  <2>2. Alike(call') BY <1>7, AlikeItself
  <2>3. \A m \in Calls : call'[m].settled = call[m].settled BY <1>7
  <2> QED BY <1>7, <2>1, <2>2, <2>3, OuterSame
<1> QED BY <1>6, <1>7 DEF Result

LEMMA DirResultStep ==
  ASSUME Typed, NEW n \in Calls, DirResult(n)
  PROVE  Typed' /\ Outer
<1> DEFINE p == call[n].proc
           q == [proc[p] EXCEPT !.dirs = proc[p].dirs \cup {call[n].id}]
<1>1. /\ Quiet /\ reading' = FALSE /\ call[n].pc = "running" /\ Return(n, "ok")
      /\ call[n].kind = "dir" /\ UNCHANGED <<kernel, manager>>
  BY DEF DirResult, Event
<1>2. UNCHANGED <<active, child, startup, termination, generation, shuttingDown, metadata,
                  moduleDirs>>
  BY <1>1 DEF manager
<1>3. proc' = [proc EXCEPT ![p] = q] BY DEF DirResult
<1>4. proc' \in Seq(ProcsFor(Len(kernel), Len(call))) /\ ProcsKept
  <2>1. CASE p \in Procs
    <3>1. call[n].id \in Ids \cup Dirs \cup {"none"} BY Call DEF CallRec
    <3>2. proc[p] \in ProcRec /\ proc[p].run \in 0 .. Len(call) BY <2>1, Proc
    <3>3. /\ q \in ProcRec /\ q.state = proc[p].state /\ q.kernel = proc[p].kernel
          /\ q.ready = proc[p].ready /\ q.run = proc[p].run
      BY <3>1, <3>2 DEF ProcRec
    <3> HIDE DEF q, p
    <3> QED BY <1>3, <2>1, <3>2, <3>3, ProcPut
  <2>2. CASE p \notin Procs
    <3>1. proc' = proc BY <1>3, <2>2 DEF Typed, Procs
    <3> QED BY <3>1 DEF Typed, ProcsKept
  <2> QED BY <2>1, <2>2
<1>5. Calm BY <1>1, <1>2, <1>4 DEF Calm
<1>6. Ends(n) BY <1>1, <1>5, Answered DEF Return, Answers
<1> QED BY <1>1, <1>2, <1>6, EndsOuter

LEMMA SuspendStep ==
  ASSUME Typed, NEW p \in Procs, Suspend(p)
  PROVE  Typed' /\ Outer
<1> DEFINE n == proc[p].run
           r == [call[n] EXCEPT !.suspended = ~call[n].suspended,
                                !.timer = IF call[n].suspended THEN "armed" ELSE "off"]
<1>1. /\ Quiet /\ reading' = FALSE /\ active = n /\ n # 0
      /\ UNCHANGED <<kernel, proc, manager>> /\ call' = [call EXCEPT ![n] = r]
  BY DEF Suspend, Event
<1>2. UNCHANGED <<active, child, startup, termination, generation, shuttingDown, metadata,
                  moduleDirs>>
  BY <1>1 DEF manager
<1>3. n \in Calls /\ call[n].kind = "js" BY <1>1, Sizes
<1>4. call[n] \in CallRec /\ CallOK(call[n], Len(kernel), Len(proc)) BY <1>3, Call
<1>5. /\ r \in CallRec /\ r.kind = call[n].kind /\ r.at = call[n].at /\ r.proc = call[n].proc
      /\ r.since = call[n].since /\ r.pc = call[n].pc /\ r.watch = call[n].watch
      /\ r.settled = call[n].settled /\ r.timerWatch = call[n].timerWatch
      /\ r.answer = call[n].answer /\ r.timeoutPending = call[n].timeoutPending
  BY <1>4 DEF CallRec
<1> HIDE DEF r, n
<1>6. CallOK(r, Len(kernel), Len(proc)) BY <1>4, <1>5 DEF CallOK
<1>7. Alike(call') BY <1>1, <1>3, <1>5, <1>6, AlikeOne
<1>8. \A m \in Calls : call'[m].settled = call[m].settled
  BY <1>1, <1>3, <1>5 DEF Typed, Calls
<1>9. moduleDirs \subseteq Dirs BY DEF Typed, ManagerOK
<1>10. Steady BY <1>1, <1>2, <1>9, SteadyFacts
<1> QED BY <1>2, <1>7, <1>8, <1>10, OuterSame

\* The kernels, processes and calls are typed; the manager may have a child less.
LEMMA KernelTyped ==
  ASSUME Typed, call' \in Seq(CallsFor(Len(kernel), Len(proc))), Len(call') = Len(call),
         \A m \in Calls : call'[m].kind = call[m].kind,
         kernel' \in Seq(KernelsFor(Len(proc))), Len(kernel') = Len(kernel),
         proc' \in Seq(ProcsFor(Len(kernel), Len(call))), Len(proc') = Len(proc),
         child' \in {child, 0},
         UNCHANGED <<active, startup, termination, generation, shuttingDown, moduleDirs>>,
         metadata' \in BOOLEAN, reading' = FALSE
  PROVE  Typed'
<1>1. active # 0 => active \in Calls /\ call[active].kind = "js" BY Sizes
<1>2. ManagerOK'
  <2>1. ManagerOK BY DEF Typed
  <2>2. 0 \in 0 .. Len(kernel) BY Sizes
  <2> QED BY <1>1, <2>1, <2>2 DEF ManagerOK
<1> QED BY <1>2 DEF Typed

LEMMA PhaseFacts ==
  ASSUME Typed, NEW k \in Kernels, NEW phase \in {"failed", "ok"},
         kernel' = [kernel EXCEPT ![k].phase = phase],
         UNCHANGED <<call, proc, active, child, startup, termination, generation, shuttingDown,
                     moduleDirs>>,
         metadata' \in BOOLEAN, reading' = FALSE
  PROVE  Typed' /\ OnePhase(k, phase)
<1> DEFINE r == [kernel[k] EXCEPT !.phase = phase]
<1>1. kernel[k] \in KernelRec /\ kernel[k].proc \in 0 .. Len(proc) BY Kernel
<1>2. /\ r \in KernelRec /\ r.phase = phase /\ r.proc = kernel[k].proc /\ r.boot = kernel[k].boot
      /\ r.stop = kernel[k].stop /\ r.victim = kernel[k].victim /\ r.term = kernel[k].term
  BY <1>1 DEF KernelRec, Phases
<1>3. kernel' = [kernel EXCEPT ![k] = r] OBVIOUS
<1> HIDE DEF r
<1>4. kernel' \in Seq(KernelsFor(Len(proc))) /\ Len(kernel') = Len(kernel)
      /\ kernel'[k] = r /\ \A j \in Kernels : j # k => kernel'[j] = kernel[j]
  BY <1>1, <1>2, <1>3, KernelPut
<1>5. Typed' BY <1>4, KernelTyped DEF Typed
<1> QED BY <1>2, <1>4, <1>5 DEF OnePhase

LEMMA MetadataFailsStep ==
  ASSUME Typed, NEW k \in Kernels, MetadataFails(k)
  PROVE  Typed' /\ Abandoned(k)
<1>1. metadata \in BOOLEAN BY DEF Typed, ManagerOK
<1>2. UNCHANGED <<call, proc, active, child, startup, termination, generation, shuttingDown,
                  metadata, moduleDirs>>
  BY DEF MetadataFails, manager
<1>3. kernel[k].phase = "metadata" /\ kernel' = [kernel EXCEPT ![k].phase = "failed"]
      /\ reading' = FALSE
  BY DEF MetadataFails
<1>4. Typed' /\ OnePhase(k, "failed") BY <1>1, <1>2, <1>3, PhaseFacts
<1> QED BY <1>3, <1>4 DEF Abandoned

LEMMA StartFailedStep ==
  ASSUME Typed, NEW k \in Kernels, StartFailed(k), reading' = FALSE
  PROVE  Typed' /\ Abandoned(k)
<1>1. metadata \in BOOLEAN BY DEF Typed, ManagerOK
<1>2. UNCHANGED <<call, proc, active, child, startup, termination, generation, shuttingDown,
                  metadata, moduleDirs>>
  BY DEF StartFailed, manager
<1>3. kernel[k].phase = "stopping" /\ kernel[k].stop # "pending"
      /\ kernel' = [kernel EXCEPT ![k].phase = "failed"]
  BY DEF StartFailed
<1>4. Typed' /\ OnePhase(k, "failed") BY <1>1, <1>2, <1>3, PhaseFacts
<1> QED BY <1>3, <1>4 DEF Abandoned

LEMMA ClearStep ==
  ASSUME Typed, ClearStartup, reading' = FALSE
  PROVE  Typed' /\ Forgotten
<1>1. /\ startup # 0 /\ Over(startup) /\ startup' = 0
      /\ UNCHANGED <<call, kernel, proc, active, child, termination, generation, shuttingDown,
                     metadata, moduleDirs>>
  BY DEF ClearStartup
<1>2. 0 \in 0 .. Len(kernel) BY Sizes
<1>3. ManagerOK' BY <1>1, <1>2 DEF Typed, ManagerOK
<1>4. Typed' BY <1>1, <1>3 DEF Typed
<1>5. \A m \in Calls : Same(m) /\ call'[m].pc = call[m].pc /\ call'[m].watch = call[m].watch
        /\ call'[m].settled = call[m].settled /\ call'[m].answer = call[m].answer
  BY <1>1 DEF Same
<1> QED BY <1>1, <1>4, <1>5 DEF Forgotten

LEMMA SpawningStep ==
  ASSUME Typed, NEW k \in Kernels, Spawning(k), reading' = FALSE
  PROVE  Typed' /\ (Abandoned(k) \/ Booting(k))
<1>1. UNCHANGED <<call, active, startup, termination, generation, shuttingDown, moduleDirs>>
      /\ metadata' = TRUE /\ kernel[k].phase = "metadata"
  BY DEF Spawning
<1>2. CASE kernel' = [kernel EXCEPT ![k].phase = "failed"] /\ UNCHANGED <<proc, child>>
  <2>1. Typed' /\ OnePhase(k, "failed") BY <1>1, <1>2, PhaseFacts
  <2> QED BY <1>1, <2>1 DEF Abandoned
<1>3. CASE ~shuttingDown /\ ~(kernel' = [kernel EXCEPT ![k].phase = "failed"] /\ UNCHANGED <<proc, child>>)
  <2> DEFINE P == Len(proc) + 1
             r == [kernel[k] EXCEPT !.phase = "spawning", !.dirs = moduleDirs,
                                    !.proc = P, !.boot = P]
  <2>1. /\ kernel' = [kernel EXCEPT ![k] = r]
        /\ proc' = Append(proc, NewProc(k, moduleDirs)) /\ child' = k
    BY <1>3 DEF Spawning
  <2>2. /\ P \in Nat /\ Len(kernel) \in Nat /\ Len(proc) \in Nat /\ Len(call) \in Nat
        /\ k \in 0 .. Len(kernel) /\ moduleDirs \in SUBSET Dirs
        /\ (active # 0 => active \in Calls /\ call[active].kind = "js")
    <3>1. moduleDirs \in SUBSET Dirs BY DEF Typed, ManagerOK
    <3>2. k \in 0 .. Len(kernel) /\ Len(kernel) \in Nat /\ Len(proc) \in Nat /\ Len(call) \in Nat
      BY Sizes DEF Kernels
    <3>3. active # 0 => active \in Calls /\ call[active].kind = "js" BY Sizes
    <3> QED BY <3>1, <3>2, <3>3
  <2>3. /\ r \in KernelRec /\ r.proc = P /\ r.phase = "spawning" /\ r.boot = P
        /\ r.stop = kernel[k].stop /\ r.victim = kernel[k].victim /\ r.term = kernel[k].term
        /\ r.proc \in 0 .. P /\ r.boot \in 1 .. P
    <3>1. kernel[k] \in KernelRec BY Kernel
    <3>2. /\ r \in KernelRec /\ r.proc = P /\ r.phase = "spawning" /\ r.boot = P
          /\ r.stop = kernel[k].stop /\ r.victim = kernel[k].victim /\ r.term = kernel[k].term
      BY <2>2, <3>1 DEF KernelRec, Phases
    <3>3. P \in 0 .. P /\ P \in 1 .. P BY <2>2
    <3> QED BY <3>2, <3>3
  <2> HIDE DEF r
  <2>4. /\ proc' \in Seq(ProcsFor(Len(kernel), Len(call))) /\ Len(proc') = Len(proc) + 1
        /\ kernel' \in Seq(KernelsFor(Len(proc) + 1)) /\ Len(kernel') = Len(kernel)
        /\ kernel'[k] = r /\ \A j \in Kernels : j # k => kernel'[j] = kernel[j]
        /\ \A p \in Procs : proc'[p] = proc[p]
        /\ proc'[Len(proc) + 1].state = "booting" /\ proc'[Len(proc) + 1].kernel = k
        /\ proc'[Len(proc) + 1].ready = "pending"
    BY <2>1, <2>2, <2>3, SpawnFacts
  <2>5. call' \in Seq(CallsFor(Len(kernel), P))
    <3>1. Len(kernel) >= Len(kernel) /\ P >= Len(proc) BY <2>2
    <3>2. Seq(CallsFor(Len(kernel), Len(proc))) \subseteq Seq(CallsFor(Len(kernel), P))
      <4> HIDE DEF P
      <4> QED BY <2>2, <3>1, GrownCalls
    <3> QED BY <1>1, <3>2 DEF Typed
  <2>6. ManagerOK'
    <3>1. ManagerOK BY DEF Typed
    <3> QED BY <1>1, <2>1, <2>2, <2>4, <3>1 DEF ManagerOK
  <2>7. Typed' BY <1>1, <2>4, <2>5, <2>6 DEF Typed
  <2>8. OneMore(k) BY <2>3, <2>4 DEF OneMore
  <2> QED BY <1>1, <1>3, <2>1, <2>3, <2>4, <2>7, <2>8 DEF Booting
<1>4. \/ kernel' = [kernel EXCEPT ![k].phase = "failed"] /\ UNCHANGED <<proc, child>>
      \/ ~shuttingDown
  BY DEF Spawning
<1> QED BY <1>2, <1>3, <1>4

\* Kernel k loses its process, and is in the phase from then on.
Loses(k, kill, phase) ==
  /\ phase = kernel[k].phase \/ phase = "stopping"
  /\ kernel' = [kernel EXCEPT ![k] =
       [kernel[k] EXCEPT !.phase = phase, !.proc = 0,
                         !.stop = IF kill THEN "pending" ELSE @,
                         !.victim = IF kill THEN kernel[k].proc ELSE @]]
  /\ call' = Rejected(call, k) \/ call' = call
  /\ proc' \in Seq(ProcsFor(Len(kernel), Len(call))) /\ Len(proc') = Len(proc)
  /\ \A p \in Procs :
       /\ proc'[p].kernel = proc[p].kernel
       /\ proc'[p].ready = IF p = kernel[k].proc /\ proc[p].ready = "pending"
                             THEN "rejected" ELSE proc[p].ready
  /\ child' \in {child, 0}
  /\ UNCHANGED <<active, startup, termination, generation, shuttingDown, moduleDirs, metadata>>
  /\ reading' = FALSE

LEMMA LostTyped ==
  ASSUME Typed, NEW k \in Kernels, NEW kill \in BOOLEAN, NEW phase \in Phases, Loses(k, kill, phase)
  PROVE  Typed' /\ Lost(k, kill) /\ kernel'[k].phase = phase
<1> USE DEF Loses
<1> DEFINE r == [kernel[k] EXCEPT !.phase = phase, !.proc = 0,
                             !.stop = IF kill THEN "pending" ELSE kernel[k].stop,
                             !.victim = IF kill THEN kernel[k].proc ELSE kernel[k].victim]
<1>1. /\ kernel[k] \in KernelRec /\ kernel[k].proc \in 0 .. Len(proc) /\ Len(proc) \in Nat
      /\ (kernel[k].phase = "spawning" => kernel[k].boot \in 1 .. Len(proc))
  BY Kernel, Sizes DEF Procs
<1>2. kernel[k].proc \in Nat /\ 0 \in 0 .. Len(proc) BY <1>1
<1>3. /\ r \in KernelRec /\ r.phase = phase /\ r.proc = 0 /\ r.boot = kernel[k].boot
      /\ r.stop = (IF kill THEN "pending" ELSE kernel[k].stop)
      /\ r.victim = (IF kill THEN kernel[k].proc ELSE kernel[k].victim)
      /\ r.term = kernel[k].term
  BY <1>1, <1>2 DEF KernelRec
<1>4. kernel' = [kernel EXCEPT ![k] = r] OBVIOUS
<1> HIDE DEF r
<1>5. kernel' \in Seq(KernelsFor(Len(proc))) /\ Len(kernel') = Len(kernel)
      /\ kernel'[k] = r /\ \A j \in Kernels : j # k => kernel'[j] = kernel[j]
  <2>1. r.proc \in 0 .. Len(proc) /\ (r.phase = "spawning" => r.boot \in 1 .. Len(proc))
    BY <1>1, <1>2, <1>3
  <2> QED BY <1>3, <1>4, <2>1, KernelPut, ZenonT(40)
<1>6. /\ call' \in Seq(CallsFor(Len(kernel), Len(proc))) /\ Len(call') = Len(call)
      /\ \A m \in Calls :
           /\ Same(m) /\ call'[m].watch = call[m].watch /\ call'[m].settled = call[m].settled
           /\ call'[m].answer = call[m].answer
           /\ \/ call'[m].pc = call[m].pc
              \/ call[m].at = k /\ call[m].pc = "running" /\ call'[m].pc = "threw"
  <2>1. call \in Seq(CallsFor(Len(kernel), Len(proc))) BY DEF Typed
  <2>2. CASE call' = Rejected(call, k) BY <2>1, <2>2, RejectedTyped DEF Same, Calls
  <2>3. CASE call' # Rejected(call, k) BY <2>1, <2>3 DEF Same, Calls
  <2> QED BY <2>2, <2>3
<1>7. Typed'
  <2>1. \A m \in Calls : call'[m].kind = call[m].kind BY <1>6 DEF Same
  <2>2. metadata' \in BOOLEAN BY DEF Typed, ManagerOK
  <2> QED BY <1>5, <1>6, <2>1, <2>2, KernelTyped
<1> QED BY <1>3, <1>5, <1>6, <1>7 DEF Lost

LEMMA SpawnedStep ==
  ASSUME Typed, NEW k \in Kernels, Spawned(k), reading' = FALSE
  PROVE  Typed' /\ (Booted(k) \/ Undone(k))
<1> DEFINE up == proc[kernel[k].boot].ready = "resolved"
           wanted == ~shuttingDown /\ kernel[k].gen = generation /\ child = k
           gone == kernel[k].proc # 0
<1>1. /\ UNCHANGED <<active, startup, termination, generation, shuttingDown, metadata, moduleDirs>>
      /\ kernel[k].phase = "spawning" /\ metadata \in BOOLEAN
  BY DEF Spawned, Typed, ManagerOK
<1>2. CASE up /\ wanted
  <2>1. kernel' = [kernel EXCEPT ![k].phase = "ok"] /\ UNCHANGED <<call, proc, child>>
    BY <1>2 DEF Spawned
  <2>2. Typed' /\ OnePhase(k, "ok") BY <1>1, <2>1, PhaseFacts
  <2> QED BY <1>1, <1>2, <2>2 DEF Booted
<1>3. CASE ~(up /\ wanted)
  <2>1. /\ child' = (IF child = k THEN 0 ELSE child)
        /\ kernel' = [kernel EXCEPT ![k] =
             [kernel[k] EXCEPT !.phase = "stopping", !.proc = 0,
                               !.stop = IF gone THEN "pending" ELSE @,
                               !.victim = IF gone THEN kernel[k].proc ELSE @]]
        /\ call' = (IF gone THEN Rejected(call, k) ELSE call)
        /\ proc' = (IF gone THEN Unready(kernel[k].proc) ELSE proc)
    BY <1>3 DEF Spawned
  <2>2. /\ proc' \in Seq(ProcsFor(Len(kernel), Len(call))) /\ Len(proc') = Len(proc)
        /\ \A p \in Procs :
             /\ proc'[p].kernel = proc[p].kernel /\ proc'[p].state = proc[p].state
             /\ proc'[p].ready = IF p = kernel[k].proc /\ proc[p].ready = "pending"
                                 THEN "rejected" ELSE proc[p].ready
    <3>1. CASE gone
      <4>1. kernel[k].proc \in Procs BY <3>1, Kernel
      <4>2. Len(call) \in Nat /\ Len(call) >= Len(call) BY Sizes
      <4>3. Unreadied(proc', kernel[k].proc, Len(call)) BY <2>1, <3>1, <4>1, <4>2, UnreadyFacts
      <4> QED BY <4>3 DEF Unreadied
    <3>2. CASE ~gone
      <4>1. proc' = proc /\ kernel[k].proc = 0 BY <2>1, <3>2
      <4> QED BY <4>1 DEF Typed, Procs
    <3> QED BY <3>1, <3>2
  <2>3. PICK kill \in BOOLEAN : kill = gone OBVIOUS
  <2>4. kernel' = [kernel EXCEPT ![k] =
             [kernel[k] EXCEPT !.phase = "stopping", !.proc = 0,
                               !.stop = IF kill THEN "pending" ELSE @,
                               !.victim = IF kill THEN kernel[k].proc ELSE @]]
    BY <2>1, <2>3
  <2>5. call' = Rejected(call, k) \/ call' = call BY <2>1
  <2>6. "stopping" \in Phases BY DEF Phases
  <2>7. child' \in {child, 0} BY <2>1
  <2>8. Typed' /\ Lost(k, kill) /\ kernel'[k].phase = "stopping"
    <3>1. Loses(k, kill, "stopping") BY <1>1, <2>2, <2>4, <2>5, <2>7 DEF Loses
    <3> QED BY <2>6, <3>1, LostTyped
  <2> QED BY <1>1, <2>1, <2>2, <2>3, <2>8 DEF Undone
<1> QED BY <1>2, <1>3

LEMMA FailedStep ==
  ASSUME Typed, Quiet, NEW p \in Procs, Alive(p), NEW k \in Kernels, k = proc[p].kernel,
         kernel[k].proc = p, NEW kill \in BOOLEAN,
         kill \/ "idle_crash" \notin Faults => ~Idle(k),
         kernel' = [kernel EXCEPT ![k] =
            [kernel[k] EXCEPT !.proc = 0,
                              !.stop = IF kill THEN "pending" ELSE @,
                              !.victim = IF kill THEN kernel[k].proc ELSE @]],
         call' = Rejected(call, k),
         proc' = [proc EXCEPT ![p] =
                   [proc[p] EXCEPT !.state = IF kill THEN @ ELSE "dead",
                                   !.run = IF kill THEN @ ELSE 0,
                                   !.ready = IF @ = "pending" THEN "rejected" ELSE @]],
         UNCHANGED manager, reading' = FALSE
  PROVE  Typed' /\ Failed(p, kill)
<1> DEFINE q == [proc[p] EXCEPT !.state = IF kill THEN proc[p].state ELSE "dead",
                                   !.run = IF kill THEN proc[p].run ELSE 0,
                                   !.ready = IF proc[p].ready = "pending" THEN "rejected" ELSE proc[p].ready]
<1>1. /\ proc[p] \in ProcRec /\ proc[p].run \in 0 .. Len(call) /\ proc[p].kernel \in 1 .. Len(kernel)
      /\ Len(call) \in Nat
  BY Proc, Sizes DEF Kernels
<1>2. /\ q \in ProcRec /\ q.kernel = proc[p].kernel /\ q.run \in 0 .. Len(call)
      /\ q.state = (IF kill THEN proc[p].state ELSE "dead")
      /\ q.ready = (IF proc[p].ready = "pending" THEN "rejected" ELSE proc[p].ready)
  <2>1. /\ proc[p].state \in {"booting", "up", "dead"} /\ proc[p].run \in Nat
        /\ proc[p].ready \in {"pending", "resolved", "rejected"}
    BY <1>1 DEF ProcRec
  <2>2. PICK s \in {"booting", "up", "dead"} : s = IF kill THEN proc[p].state ELSE "dead" BY <2>1
  <2>3. PICK n \in Nat : n = IF kill THEN proc[p].run ELSE 0 BY <2>1
  <2>4. PICK u \in {"pending", "resolved", "rejected"} :
          u = IF proc[p].ready = "pending" THEN "rejected" ELSE proc[p].ready
    BY <2>1
  <2>5. q = [proc[p] EXCEPT !.state = s, !.run = n, !.ready = u] BY <2>2, <2>3, <2>4
  <2>6. n \in 0 .. Len(call) BY <1>1, <2>3
  <2> HIDE DEF q
  <2>7. q \in ProcRec /\ q.kernel = proc[p].kernel /\ q.run = n /\ q.state = s /\ q.ready = u
    BY <1>1, <2>5 DEF ProcRec
  <2> QED BY <2>2, <2>4, <2>6, <2>7
<1>3. proc' = [proc EXCEPT ![p] = q] OBVIOUS
<1> HIDE DEF q
<1>4. q \in ProcsFor(Len(kernel), Len(call)) BY <1>1, <1>2 DEF ProcsFor
<1>5. /\ proc' \in Seq(ProcsFor(Len(kernel), Len(call))) /\ Len(proc') = Len(proc) /\ proc'[p] = q
      /\ \A r \in Procs : r # p => proc'[r] = proc[r]
  <2>1. proc \in Seq(ProcsFor(Len(kernel), Len(call))) /\ p \in 1 .. Len(proc) BY DEF Typed, Procs
  <2>2. PICK b : b = [proc EXCEPT ![p] = q] OBVIOUS
  <2>3. /\ b \in Seq(ProcsFor(Len(kernel), Len(call))) /\ Len(b) = Len(proc) /\ b[p] = q
        /\ \A r \in Procs : r # p => b[r] = proc[r]
    BY <1>4, <2>1, <2>2, Put DEF Procs
  <2> QED BY <1>3, <2>2, <2>3
<1>6. PICK phase \in Phases : phase = kernel[k].phase BY Kernel DEF KernelRec
<1>7. kernel' = [kernel EXCEPT ![k] =
           [kernel[k] EXCEPT !.phase = phase, !.proc = 0,
                             !.stop = IF kill THEN "pending" ELSE @,
                             !.victim = IF kill THEN kernel[k].proc ELSE @]]
  <2>1. kernel[k] \in KernelRec BY Kernel
  <2>2. [kernel[k] EXCEPT !.phase = phase, !.proc = 0,
                             !.stop = IF kill THEN "pending" ELSE kernel[k].stop,
                             !.victim = IF kill THEN kernel[k].proc ELSE kernel[k].victim]
        = [kernel[k] EXCEPT !.proc = 0,
                             !.stop = IF kill THEN "pending" ELSE kernel[k].stop,
                             !.victim = IF kill THEN kernel[k].proc ELSE kernel[k].victim]
    BY <1>6, <2>1 DEF KernelRec
  <2> QED BY <2>2
<1>8. UNCHANGED <<active, child, startup, termination, generation, shuttingDown, moduleDirs, metadata>>
  BY DEF manager
<1>9. /\ \A r \in Procs :
           /\ proc'[r].kernel = proc[r].kernel
           /\ proc'[r].ready = IF r = kernel[k].proc /\ proc[r].ready = "pending"
                                 THEN "rejected" ELSE proc[r].ready
           /\ proc'[r].state = IF r = p /\ ~kill THEN "dead" ELSE proc[r].state
  BY <1>2, <1>5
<1>10. /\ child' \in {child, 0} /\ (phase = kernel[k].phase \/ phase = "stopping")
       /\ (call' = Rejected(call, k) \/ call' = call)
       /\ \A r \in Procs :
           /\ proc'[r].kernel = proc[r].kernel
           /\ proc'[r].ready = IF r = kernel[k].proc /\ proc[r].ready = "pending"
                                 THEN "rejected" ELSE proc[r].ready
  BY <1>6, <1>8, <1>9
<1>11. Typed' /\ Lost(k, kill) /\ kernel'[k].phase = phase
  <2>1. Loses(k, kill, phase) BY <1>5, <1>7, <1>8, <1>10 DEF Loses
  <2> QED BY <2>1, LostTyped
<1>12. \A m \in Calls : call[m].at = k /\ call[m].pc = "running" => call'[m].pc = "threw"
  <2>1. call \in Seq(CallsFor(Len(kernel), Len(proc))) BY DEF Typed
  <2>2. \A m \in 1 .. Len(call) : call[m].at = k /\ call[m].pc = "running" =>
          Rejected(call, k)[m].pc = "threw"
    BY <2>1, RejectedTyped
  <2> QED BY <2>2 DEF Calls
<1> QED BY <1>6, <1>8, <1>9, <1>11, <1>12 DEF Failed

LEMMA ProtocolStep ==
  ASSUME Typed, "idle_protocol" \notin Faults, NEW p \in Procs, ProtocolError(p)
  PROVE  Typed' /\ Failed(p, TRUE)
<1>1. PICK k : k = proc[p].kernel OBVIOUS
<1>2. k \in Kernels BY <1>1, Proc
<1>3. Quiet /\ reading' = FALSE /\ Alive(p) /\ kernel[k].proc = p /\ UNCHANGED manager
  BY <1>1 DEF ProtocolError, Event
<1>4. ~Idle(k) BY <1>1 DEF ProtocolError, Fault
<1>5. HandleExit(k, TRUE, proc) BY <1>1 DEF ProtocolError
<1>6. /\ kernel' = [kernel EXCEPT ![k] =
            [kernel[k] EXCEPT !.proc = 0, !.stop = "pending", !.victim = kernel[k].proc]]
      /\ proc' = [proc EXCEPT ![p].ready = IF @ = "pending" THEN "rejected" ELSE @]
      /\ call' = Rejected(call, k)
  BY <1>3, <1>5 DEF HandleExit
<1>7. PICK kill \in BOOLEAN : kill = TRUE OBVIOUS
<1>8. proc' = [proc EXCEPT ![p] =
                   [proc[p] EXCEPT !.state = IF kill THEN @ ELSE "dead",
                                   !.run = IF kill THEN @ ELSE 0,
                                   !.ready = IF @ = "pending" THEN "rejected" ELSE @]]
  <2>1. proc[p] \in ProcRec BY Proc
  <2>2. [proc[p] EXCEPT !.state = IF kill THEN proc[p].state ELSE "dead",
                        !.run = IF kill THEN proc[p].run ELSE 0,
                        !.ready = IF proc[p].ready = "pending" THEN "rejected" ELSE proc[p].ready]
        = [proc[p] EXCEPT !.ready = IF proc[p].ready = "pending" THEN "rejected" ELSE proc[p].ready]
    BY <1>7, <2>1 DEF ProcRec
  <2> QED BY <1>6, <2>2
<1>9. kernel' = [kernel EXCEPT ![k] =
            [kernel[k] EXCEPT !.proc = 0,
                              !.stop = IF kill THEN "pending" ELSE @,
                              !.victim = IF kill THEN kernel[k].proc ELSE @]]
  BY <1>6, <1>7
<1>10. Typed' /\ Failed(p, kill) BY <1>1, <1>2, <1>3, <1>4, <1>6, <1>8, <1>9, FailedStep, ZenonT(40)
<1> QED BY <1>7, <1>10

LEMMA ExitStep ==
  ASSUME Typed, KInv, Victims, NEW p \in Procs, Exit(p)
  PROVE  Typed' /\ (Buried(p) \/ Failed(p, FALSE))
<1> DEFINE q == [proc[p] EXCEPT !.state = "dead", !.run = 0]
           dead == [proc EXCEPT ![p] = q]
<1>1. PICK k : k = proc[p].kernel OBVIOUS
<1>2. k \in Kernels BY <1>1, Proc
<1>3. Quiet /\ reading' = FALSE /\ Alive(p) /\ UNCHANGED manager BY DEF Exit, Event
<1>4. kernel[k].proc = p \/ (kernel[k].victim = p /\ kernel[k].stop = "pending")
  BY <1>1, <1>3 DEF KInv, Held
<1>5. p # 0 BY DEF Procs
<1>6. CASE kernel[k].victim = p /\ kernel[k].stop = "pending"
  <2> DEFINE r == [kernel[k] EXCEPT !.stop = "none",
                                    !.term = IF kernel[k].term = "pending" THEN "done" ELSE kernel[k].term]
  <2>1. /\ kernel' = [kernel EXCEPT ![k] = r] /\ proc' = dead /\ UNCHANGED call
    BY <1>1, <1>6 DEF Exit
  <2>2. /\ kernel[k] \in KernelRec /\ kernel[k].proc \in 0 .. Len(proc)
        /\ (kernel[k].phase = "spawning" => kernel[k].boot \in 1 .. Len(proc))
    BY <1>2, Kernel DEF Procs
  <2>3. /\ r \in KernelRec /\ r.proc = kernel[k].proc /\ r.phase = kernel[k].phase
        /\ r.boot = kernel[k].boot /\ r.stop = "none" /\ r.victim = kernel[k].victim
        /\ r.term = IF kernel[k].term = "pending" THEN "done" ELSE kernel[k].term
    BY <2>2 DEF KernelRec
  <2>4. /\ proc[p] \in ProcRec /\ proc[p].kernel \in 1 .. Len(kernel) /\ Len(call) \in Nat
    BY Proc, Sizes DEF Kernels
  <2>5. /\ q \in ProcRec /\ q.kernel = proc[p].kernel /\ q.run = 0 /\ q.state = "dead"
        /\ q.ready = proc[p].ready
    BY <2>4 DEF ProcRec
  <2> HIDE DEF r, q
  <2>6. kernel' \in Seq(KernelsFor(Len(proc))) /\ Len(kernel') = Len(kernel)
        /\ kernel'[k] = r /\ \A j \in Kernels : j # k => kernel'[j] = kernel[j]
    BY <1>2, <2>1, <2>2, <2>3, KernelPut
  <2>7. q \in ProcsFor(Len(kernel), Len(call)) BY <2>4, <2>5 DEF ProcsFor
  <2>8. /\ proc' \in Seq(ProcsFor(Len(kernel), Len(call))) /\ Len(proc') = Len(proc) /\ proc'[p] = q
        /\ \A s \in Procs : s # p => proc'[s] = proc[s]
    BY <2>1, <2>7, Put DEF Typed, Procs
  <2>9. UNCHANGED <<active, child, startup, termination, generation, shuttingDown, moduleDirs, metadata>>
    BY <1>3 DEF manager
  <2>10. Typed' BY <1>3, <2>1, <2>6, <2>8, <2>9, KernelTyped DEF Typed, ManagerOK
  <2>11. \A s \in Procs : /\ proc'[s].kernel = proc[s].kernel /\ proc'[s].ready = proc[s].ready
                          /\ proc'[s].state = IF s = p THEN "dead" ELSE proc[s].state
    BY <2>5, <2>8
  <2>12. Buried(p) BY <1>1, <1>3, <1>6, <2>1, <2>3, <2>6, <2>8, <2>9, <2>11 DEF Buried
  <2> QED BY <2>10, <2>12
<1>7. CASE kernel[k].proc = p /\ ~(kernel[k].victim = p /\ kernel[k].stop = "pending")
  <2>1. HandleExit(k, FALSE, dead) BY <1>1, <1>5, <1>7 DEF Exit
  <2>2. /\ kernel' = [kernel EXCEPT ![k] = [kernel[k] EXCEPT !.proc = 0, !.stop = @, !.victim = @]]
        /\ proc' = [dead EXCEPT ![p].ready = IF @ = "pending" THEN "rejected" ELSE @]
        /\ call' = Rejected(call, k)
    BY <1>7, <2>1 DEF HandleExit
  <2>3. PICK kill \in BOOLEAN : kill = FALSE OBVIOUS
  <2>4. proc' = [proc EXCEPT ![p] =
                   [proc[p] EXCEPT !.state = IF kill THEN @ ELSE "dead",
                                   !.run = IF kill THEN @ ELSE 0,
                                   !.ready = IF @ = "pending" THEN "rejected" ELSE @]]
    <3>1. proc[p] \in ProcRec /\ p \in DOMAIN proc BY Proc DEF Typed, Procs
    <3>2. q.ready = proc[p].ready BY <3>1 DEF ProcRec
    <3>3. [q EXCEPT !.ready = IF q.ready = "pending" THEN "rejected" ELSE q.ready]
          = [proc[p] EXCEPT !.state = IF kill THEN proc[p].state ELSE "dead",
                        !.run = IF kill THEN proc[p].run ELSE 0,
                        !.ready = IF proc[p].ready = "pending" THEN "rejected" ELSE proc[p].ready]
      BY <2>3, <3>1, <3>2 DEF ProcRec
    <3> HIDE DEF q
    <3>4. proc' = [proc EXCEPT ![p] =
                     [q EXCEPT !.ready = IF q.ready = "pending" THEN "rejected" ELSE q.ready]]
      BY <2>2, <3>1
    <3> QED BY <3>3, <3>4
  <2>5. kernel' = [kernel EXCEPT ![k] =
            [kernel[k] EXCEPT !.proc = 0,
                              !.stop = IF kill THEN "pending" ELSE @,
                              !.victim = IF kill THEN kernel[k].proc ELSE @]]
    BY <2>2, <2>3
  <2>6. kernel[k].proc = p /\ (kill \/ "idle_crash" \notin Faults => ~Idle(k))
    <3>1. kernel[k].victim # p BY <1>2, <1>5, <1>7 DEF Victims
    <3>2. Fault(p, "crash", "idle_crash") BY <1>1, <3>1 DEF Exit
    <3> QED BY <1>1, <1>7, <2>3, <3>2 DEF Fault
  <2>7. Typed' /\ Failed(p, kill) BY <1>1, <1>2, <1>3, <2>2, <2>4, <2>5, <2>6, FailedStep, ZenonT(40)
  <2> QED BY <2>3, <2>7
<1> QED BY <1>4, <1>6, <1>7

LEMMA HandshakeStep ==
  ASSUME Typed, NEW p \in Procs, Handshake(p)
  PROVE  Typed' /\ Shaken(p)
<1> DEFINE up == [proc[p] EXCEPT !.state = "up"]
           booted == [proc EXCEPT ![p] = up]
<1>1. PICK q : q = kernel[proc[p].kernel].proc OBVIOUS
<1>2. /\ Quiet /\ reading' = FALSE /\ proc[p].state = "booting" /\ UNCHANGED <<call, kernel, manager>>
      /\ proc' = IF q = 0 THEN booted
                 ELSE [booted EXCEPT ![q].ready = IF @ = "pending" THEN "resolved" ELSE @]
  BY <1>1 DEF Handshake, Event
<1>3. q = 0 \/ q \in Procs BY <1>1, Proc, Kernel
<1>4. proc[p] \in ProcRec /\ proc \in Seq(ProcsFor(Len(kernel), Len(call)))
      /\ proc[p] \in ProcsFor(Len(kernel), Len(call)) /\ p \in 1 .. Len(proc)
  BY Proc DEF Typed, Procs
<1>5. /\ up \in ProcRec /\ up.kernel = proc[p].kernel /\ up.run = proc[p].run /\ up.state = "up"
      /\ up.ready = proc[p].ready
  BY <1>4 DEF ProcRec
<1> HIDE DEF up
<1>6. up \in ProcsFor(Len(kernel), Len(call)) BY <1>4, <1>5 DEF ProcsFor
<1>7. PICK b : b = booted OBVIOUS
<1>8. /\ b \in Seq(ProcsFor(Len(kernel), Len(call))) /\ Len(b) = Len(proc) /\ b[p] = up
      /\ \A s \in Procs : s # p => b[s] = proc[s]
  BY <1>4, <1>6, <1>7, Put DEF Procs
<1>9. \A s \in Procs : /\ b[s].kernel = proc[s].kernel /\ b[s].ready = proc[s].ready
                       /\ b[s].state = "dead" <=> proc[s].state = "dead"
  BY <1>2, <1>5, <1>8
<1>10. /\ proc' \in Seq(ProcsFor(Len(kernel), Len(call))) /\ Len(proc') = Len(proc)
       /\ \A s \in Procs :
            /\ proc'[s].kernel = proc[s].kernel /\ (proc'[s].state = "dead" <=> proc[s].state = "dead")
            /\ proc'[s].ready = IF s = q /\ proc[s].ready = "pending" THEN "resolved" ELSE proc[s].ready
  <2>1. CASE q = 0
    <3>1. proc' = b BY <1>2, <1>7, <2>1
    <3> QED BY <1>8, <1>9, <2>1, <3>1 DEF Procs
  <2>2. CASE q \in Procs
    <3> DEFINE r == [b[q] EXCEPT !.ready = IF b[q].ready = "pending" THEN "resolved" ELSE b[q].ready]
    <3>1. proc' = [b EXCEPT ![q] = r] BY <1>2, <1>7, <2>2 DEF Procs
    <3>2. b[q] \in ProcsFor(Len(kernel), Len(call)) BY <1>8, <2>2 DEF Procs
    <3>3. /\ r \in ProcRec /\ r.kernel = b[q].kernel /\ r.run = b[q].run /\ r.state = b[q].state
          /\ r.ready = IF b[q].ready = "pending" THEN "resolved" ELSE b[q].ready
      BY <3>2 DEF ProcsFor, ProcRec
    <3> HIDE DEF r
    <3>4. r \in ProcsFor(Len(kernel), Len(call)) BY <3>2, <3>3 DEF ProcsFor
    <3>5. /\ proc' \in Seq(ProcsFor(Len(kernel), Len(call))) /\ Len(proc') = Len(proc) /\ proc'[q] = r
          /\ \A s \in Procs : s # q => proc'[s] = b[s]
      BY <1>8, <2>2, <3>1, <3>4, Put DEF Procs
    <3> QED BY <1>9, <2>2, <3>3, <3>5
  <2> QED BY <1>3, <2>1, <2>2
<1>11. UNCHANGED <<active, child, startup, termination, generation, shuttingDown, moduleDirs, metadata>>
  BY <1>2 DEF manager
<1>12. Typed' BY <1>2, <1>10, <1>11 DEF Typed, ManagerOK
<1>13. proc[p].state # "dead" BY <1>2
<1> QED BY <1>1, <1>2, <1>10, <1>11, <1>12, <1>13 DEF Shaken

\* Every step is one of these.
Step ==
  \/ \E n \in Calls : Micro(n) \/ Created(n) \/ Again(n)
  \/ \E n : Dropped(n)
  \/ \E k \in Kernels : Booting(k) \/ Booted(k) \/ Undone(k) \/ Abandoned(k)
  \/ \E p \in Procs : Shaken(p) \/ Buried(p) \/ \E kill \in BOOLEAN : Failed(p, kill)
  \/ Outer
  \/ Forgotten

\* The client waits for the answer to a command before it issues the next one;
\* a killed process does go, and no kernel breaks the protocol while it is idle
\* (one that boots or runs a cell may).
Orderly ==
  /\ Pipelined = {}
  /\ "stuck" \notin Faults /\ "idle_protocol" \notin Faults

LEMMA ResumeStep ==
  ASSUME Typed, KInv, NEW n \in Calls, Resume(n), reading' = FALSE
  PROVE  Typed' /\ Step
<1>1. CASE ResumeEnsureChild(n)
  <2>1. CASE kernel' = kernel BY <1>1, <2>1, EnsureStep DEF Step
  <2>2. CASE kernel' # kernel BY <1>1, <2>2, CreateStep DEF Step
  <2> QED BY <2>1, <2>2
<1>2. CASE ResumeStartup(n) BY <1>2, StartupStep DEF Step
<1>3. CASE Start(n) BY <1>3, StartStep DEF Step
<1>4. CASE Restart(n)
  <2>1. call[n].pc = "stopping" BY <1>4 DEF Restart
  <2> QED BY <2>1, Call DEF CallOK
<1>5. CASE Send(n) BY <1>5, SendStep DEF Step
<1>6. CASE Catch(n)
  <2>1. CASE child' = child BY <1>6, <2>1, CatchStep DEF Step
  <2>2. CASE child' # child BY <1>6, <2>2, CatchDropStep DEF Step
  <2> QED BY <2>1, <2>2
<1>7. CASE Fail(n) BY <1>7, FailStep DEF Step
<1>8. CASE ResumeRestart(n)
  <2>1. CASE call[n].pc = "rterm" /\ child # 0 BY <1>8, <2>1, RestartDropStep DEF Step
  <2>2. CASE ~(call[n].pc = "rterm" /\ child # 0) BY <1>8, <2>2, RestartStep DEF Step
  <2> QED BY <2>1, <2>2
<1>9. CASE ResumeClose(n) BY <1>9, CloseStep DEF Step
<1>10. CASE ResumeTimeout(n) BY <1>10, TimeoutStep DEF Step
<1> QED BY <1>1, <1>2, <1>3, <1>4, <1>5, <1>6, <1>7, <1>8, <1>9, <1>10 DEF Resume

LEMMA StartUpStep ==
  ASSUME Typed, NEW k \in Kernels, StartUp(k), reading' = FALSE
  PROVE  Typed' /\ Step
<1>1. CASE Spawning(k) BY <1>1, SpawningStep DEF Step
<1>2. CASE Spawned(k) BY <1>2, SpawnedStep DEF Step
<1>3. CASE StartFailed(k) BY <1>3, StartFailedStep DEF Step
<1> QED BY <1>1, <1>2, <1>3 DEF StartUp

LEMMA CommandStep ==
  ASSUME Typed, Orderly, Command
  PROVE  Typed' /\ Step
<1>0. Pipelined = {} BY DEF Orderly
<1>1. ASSUME NEW id \in Ids, Execute(id) PROVE Typed' /\ Step BY <1>0, <1>1, ExecuteStep DEF Step
<1>2. ASSUME NEW id \in Ids, Cancel(id) PROVE Typed' /\ Step BY <1>0, <1>2, CancelStep DEF Step
<1>3. ASSUME NEW d \in Dirs, AddNodeModuleDir(d) PROVE Typed' /\ Step
  BY <1>0, <1>3, DirStep DEF Step
<1>4. CASE Reset BY <1>0, <1>4, ResetStep DEF Step
<1>5. CASE Close BY <1>0, <1>5, CloseCommandStep DEF Step
<1> QED BY <1>1, <1>2, <1>3, <1>4, <1>5 DEF Command

LEMMA EventStep ==
  ASSUME Typed, KInv, Victims, Orderly, NEW p \in Procs, ProcessEvent(p)
  PROVE  Typed' /\ Step
<1>1. CASE Handshake(p) BY <1>1, HandshakeStep DEF Step
<1>2. CASE Result(p) BY <1>2, ResultStep DEF Step
<1>3. CASE Suspend(p) BY <1>3, SuspendStep DEF Step
<1>4. CASE Exit(p)
  <2>1. Typed' /\ (Buried(p) \/ Failed(p, FALSE)) BY <1>4, ExitStep
  <2> QED BY <2>1 DEF Step
<1>5. CASE ProtocolError(p)
  <2>1. Typed' /\ Failed(p, TRUE) BY <1>5, ProtocolStep DEF Orderly
  <2> QED BY <2>1 DEF Step
<1> QED BY <1>1, <1>2, <1>3, <1>4, <1>5 DEF ProcessEvent

LEMMA NextStep ==
  ASSUME Typed, KInv, Victims, Orderly, Next
  PROVE  Typed' /\ Step
<1>1. CASE Command BY <1>1, CommandStep
<1>2. CASE Microtask
  <2>1. reading' = FALSE BY <1>2 DEF Microtask
  <2>2. ASSUME NEW n \in Calls, Resume(n) PROVE Typed' /\ Step BY <2>1, <2>2, ResumeStep
  <2>3. ASSUME NEW k \in Kernels, StartUp(k) PROVE Typed' /\ Step BY <2>1, <2>3, StartUpStep
  <2>4. CASE ClearStartup BY <2>1, <2>4, ClearStep DEF Step
  <2> QED BY <1>2, <2>2, <2>3, <2>4 DEF Microtask
<1>3. ASSUME NEW p \in Procs, ProcessEvent(p) PROVE Typed' /\ Step BY <1>3, EventStep
<1>4. ASSUME NEW n \in Calls, DirResult(n) PROVE Typed' /\ Step BY <1>4, DirResultStep DEF Step
<1>5. ASSUME NEW n \in Calls, Timeout(n) PROVE Typed' /\ Step BY <1>5, TimerStep DEF Step
<1>6. ASSUME NEW k \in Kernels, MetadataFails(k) PROVE Typed' /\ Step
  BY <1>6, MetadataFailsStep DEF Step
<1>7. ASSUME NEW k \in Kernels, KillDeadline(k) PROVE FALSE BY <1>7 DEF KillDeadline, Orderly
<1> QED BY <1>1, <1>2, <1>3, <1>4, <1>5, <1>6, <1>7 DEF Next

LEMMA KInvStep ==
  ASSUME Typed, KInv, Step
  PROVE  KInv'
<1>1. ASSUME NEW n \in Calls, Micro(n) PROVE KInv' BY <1>1, MicroInv
<1>2. ASSUME NEW n \in Calls, Created(n) PROVE KInv' BY <1>2, CreatedInv
<1>3. ASSUME NEW n \in Calls, Again(n) PROVE KInv' BY <1>3, AgainInv
<1>4. ASSUME NEW n, Dropped(n) PROVE KInv' BY <1>4, DroppedInv
<1>5. ASSUME NEW k \in Kernels, Booting(k) PROVE KInv' BY <1>5, BootingInv
<1>6. ASSUME NEW k \in Kernels, Booted(k) PROVE KInv' BY <1>6, BootedInv
<1>7. ASSUME NEW k \in Kernels, Undone(k) PROVE KInv' BY <1>7, UndoneInv
<1>8. ASSUME NEW k \in Kernels, Abandoned(k) PROVE KInv' BY <1>8, AbandonedInv
<1>9. ASSUME NEW p \in Procs, Shaken(p) PROVE KInv' BY <1>9, ShakenInv
<1>10. ASSUME NEW p \in Procs, Buried(p) PROVE KInv' BY <1>10, BuriedInv
<1>11. ASSUME NEW p \in Procs, NEW kill \in BOOLEAN, Failed(p, kill) PROVE KInv'
  BY <1>11, FailedInv
<1>12. CASE Outer BY <1>12, OuterInv
<1>13. CASE Forgotten BY <1>13, ForgottenInv
<1> QED BY <1>1, <1>2, <1>3, <1>4, <1>5, <1>6, <1>7, <1>8, <1>9, <1>10, <1>11, <1>12, <1>13 DEF Step

LEMMA VictimsStep ==
  ASSUME Typed, KInv, Victims, Step
  PROVE  Victims'
<1>1. /\ Len(proc) \in Nat
      /\ \A k \in Kernels : kernel[k].proc \in 0 .. Len(proc) /\ kernel[k].victim \in 0 .. Len(proc)
  BY Sizes, Kernel DEF Victims
<1>2. ASSUME UNCHANGED kernel, Len(proc') = Len(proc) PROVE Victims'
  BY <1>2 DEF Victims, Kernels
<1>3. ASSUME NEW k, OneMore(k) PROVE Victims' BY <1>1, <1>3 DEF OneMore, Victims, Kernels
<1>4. ASSUME NEW k, NEW phase, OnePhase(k, phase) PROVE Victims'
  BY <1>4 DEF OnePhase, Victims, Kernels
<1>5. ASSUME NEW k, NEW kill, Lost(k, kill) PROVE Victims'
  BY <1>1, <1>5 DEF Lost, Victims, Kernels
<1>6. ASSUME NEW n, Created(n) PROVE Victims'
  BY <1>1, <1>6, Sizes DEF Created, ProcsKept, Victims, Kernels
<1>7. ASSUME NEW n, Dropped(n) PROVE Victims'
  <2>1. Len(proc') = Len(proc) /\ child # 0 BY <1>7 DEF Dropped
  <2> QED BY <1>1, <1>7, <2>1, DroppedFacts DEF Victims, Kernels
<1>8. ASSUME NEW p, Buried(p) PROVE Victims'
  <2>1. proc[p].kernel \in Kernels BY <1>8, Proc DEF Buried
  <2> QED BY <1>1, <1>8, <2>1 DEF Buried, Victims, Kernels
<1>9. \A n \in Calls : /\ Micro(n) => UNCHANGED kernel /\ Len(proc') = Len(proc)
                       /\ Again(n) => OneMore(child)
  BY DEF Micro, ProcsKept, Again
<1>10. \A k \in Kernels : /\ Booting(k) => OneMore(k)
                          /\ Booted(k) => OnePhase(k, "ok")
                          /\ Undone(k) => Lost(k, kernel[k].proc # 0)
                          /\ Abandoned(k) => OnePhase(k, "failed")
  BY DEF Booting, Booted, Undone, Abandoned
<1>11. \A p \in Procs : /\ Shaken(p) => UNCHANGED kernel /\ Len(proc') = Len(proc)
                        /\ \A kill : Failed(p, kill) => Lost(proc[p].kernel, kill)
  BY DEF Shaken, Failed
<1>12. Outer \/ Forgotten => UNCHANGED kernel /\ Len(proc') = Len(proc)
  BY DEF Outer, ProcsKept, Forgotten
<1> QED BY <1>2, <1>3, <1>4, <1>5, <1>6, <1>7, <1>8, <1>9, <1>10, <1>11, <1>12 DEF Step

-----------------------------------------------------------------------------
\* Nothing is left, nothing runs late: the steps, one description after the other.

LEMMA AliveFacts ==
  ASSUME Typed, KInv, NEW p \in Procs, Alive(p)
  PROVE  /\ proc[p].kernel \in Kernels /\ proc[p].kernel # 0 /\ Busy(proc[p].kernel)
         /\ kernel[proc[p].kernel].proc = p \/ kernel[proc[p].kernel].victim = p
         /\ kernel[proc[p].kernel].stop = "pending" =>
              kernel[proc[p].kernel].proc = 0 /\ kernel[proc[p].kernel].victim = p
<1>1. proc[p].kernel \in Kernels /\ p # 0 BY Proc DEF Procs
<1> QED BY <1>1 DEF KInv, Held, Busy, Kernels

\* With a child, what is alive is the child's, which nobody waits for.
LEMMA ChildAlive ==
  ASSUME Typed, KInv, child # 0, NEW p \in Procs, Alive(p)
  PROVE  /\ proc[p].kernel = child /\ kernel[child].term = "none"
         /\ kernel[child].phase # "stopping" /\ startup \in {0, child} /\ ~shuttingDown
BY AliveFacts DEF KInv, Owned

LEMMA ChildOld ==
  ASSUME Typed, KInv, Fresh, child # 0, NEW n \in Calls, call[n].kind = "reset",
         call[n].pc \in {"rstop", "term", "startup", "got"} \/ call[n].answer = "ok"
  PROVE  \A p \in Procs : ~Old(n, p)
<1>1. \A p \in Procs : Alive(p) =>
        /\ proc[p].kernel = child /\ kernel[child].term = "none"
        /\ kernel[child].phase # "stopping" /\ startup \in {0, child}
  BY ChildAlive
<1> QED BY <1>1 DEF Fresh, Old

LEMMA NoneGone ==
  ASSUME KInv, Gone, ~shuttingDown, NEW n \in Calls, call[n].kind = "close"
  PROVE  call[n].pc # "cterm" /\ call[n].answer # "ok"
BY DEF Gone, KInv, Waiters

LEMMA QuietLate ==
  ASSUME Typed, KInv, Late, Quiet, NEW n \in Calls, call[n].kind = "js", call[n].pc = "ready"
  PROVE  ~call[n].settled
BY DEF Late, Quiet, Resumable

LEMMA MicroSafe ==
  ASSUME Typed, KInv, PInv, NEW n, Micro(n)
  PROVE  PInv'
<1> USE DEF PInv
<1>1. /\ Calls' = Calls /\ Procs' = Procs /\ n \in Calls
      /\ \A m \in Calls : m # n => call'[m] = call[m]
      /\ UNCHANGED <<kernel, child, startup, shuttingDown>>
      /\ call'[n].kind = call[n].kind /\ call'[n].since = call[n].since
      /\ \A p \in Procs : /\ proc'[p].kernel = proc[p].kernel /\ proc'[p].ready = proc[p].ready
                          /\ Alive(p)' = Alive(p)
  BY DEF Micro, Only, ProcsKept, Calls, Procs, Alive
<1>2. \A m \in Calls, p \in Procs : Old(m, p)' = Old(m, p) BY <1>1 DEF Old
<1>3. ASSUME call[n].kind = "reset"
      PROVE  /\ call'[n].pc = "rstop" => call[n].pc = "rstop" /\ call'[n].watch = call[n].watch
             /\ call'[n].pc = "term" => \A p \in Procs : Old(n, p) =>
                  \/ startup = proc[p].kernel /\ kernel[startup].phase = "stopping"
                  \/ call'[n].watch = proc[p].kernel /\ kernel[call'[n].watch].term = "pending"
             /\ call'[n].pc = "startup" => \A p \in Procs : Old(n, p) =>
                  proc[p].kernel = call'[n].watch /\ kernel[call'[n].watch].phase = "stopping"
             /\ call'[n].pc \in {"got"} \/ call'[n].answer = "ok" => \A p \in Procs : ~Old(n, p)
  <2>1. \A p \in Procs : Old(n, p) =>
          /\ proc[p].kernel # 0 /\ proc[p].kernel \in Kernels
          /\ child = 0 =>
               \/ startup = proc[p].kernel /\ kernel[startup].phase = "stopping"
               \/ termination' = proc[p].kernel /\ kernel[proc[p].kernel].term = "pending"
    BY AliveFacts DEF Old, Micro, KInv, Owned, Terminated
  <2>2. call'[n].pc = "rstop" => call[n].pc = "rstop" /\ call'[n].watch = call[n].watch
    BY DEF Micro
  <2>3. call'[n].pc = "term" => \A p \in Procs : Old(n, p) =>
                  \/ startup = proc[p].kernel /\ kernel[startup].phase = "stopping"
                  \/ call'[n].watch = proc[p].kernel /\ kernel[call'[n].watch].term = "pending"
    BY <1>1, <1>3, <2>1 DEF Micro, Fresh, Terminated, Over
  <2>4. call'[n].pc = "startup" => \A p \in Procs : Old(n, p) =>
                  proc[p].kernel = call'[n].watch /\ kernel[call'[n].watch].phase = "stopping"
    BY <1>1, <1>3, <2>1 DEF Micro, Fresh, Terminated
  <2>5. call'[n].pc = "got" => \A p \in Procs : ~Old(n, p)
    BY <1>1, <1>3, ChildOld DEF Micro, Fresh
  <2>6. call'[n].answer = "ok" => \A p \in Procs : ~Old(n, p)
    <3>1. CASE call'[n].answer = call[n].answer BY <1>1, <1>3, <3>1 DEF Fresh
    <3>2. CASE call'[n].answer # call[n].answer
      <4>1. call'[n].answer = "ok" => call[n].pc = "got" BY <1>1, <1>3, <3>2 DEF Micro
      <4> QED BY <1>1, <1>3, <4>1 DEF Fresh
    <3> QED BY <3>1, <3>2
  <2> QED BY <2>2, <2>3, <2>4, <2>5, <2>6
<1>4. Fresh'
  <2>1. ASSUME NEW m \in Calls, m # n, call[m].kind = "reset"
        PROVE  /\ call[m].pc = "rstop" => \A p \in Procs : Old(m, p) =>
                    proc[p].kernel = call[m].watch /\ kernel[call[m].watch].term = "pending"
               /\ call[m].pc = "term" => \A p \in Procs : Old(m, p) =>
                    \/ startup = proc[p].kernel /\ kernel[startup].phase = "stopping"
                    \/ call[m].watch = proc[p].kernel /\ kernel[call[m].watch].term = "pending"
               /\ call[m].pc = "startup" => \A p \in Procs : Old(m, p) =>
                    proc[p].kernel = call[m].watch /\ kernel[call[m].watch].phase = "stopping"
               /\ call[m].pc \in {"got"} \/ call[m].answer = "ok" => \A p \in Procs : ~Old(m, p)
    BY <2>1 DEF Fresh
  <2>2. call[n].kind = "reset" /\ call'[n].pc = "rstop" => \A p \in Procs : Old(n, p) =>
                    proc[p].kernel = call'[n].watch /\ kernel[call'[n].watch].term = "pending"
    <3> SUFFICES ASSUME call[n].kind = "reset", call'[n].pc = "rstop"
                 PROVE  \A p \in Procs : Old(n, p) =>
                    proc[p].kernel = call'[n].watch /\ kernel[call'[n].watch].term = "pending"
      OBVIOUS
    <3>1. call[n].pc = "rstop" /\ call'[n].watch = call[n].watch BY <1>3
    <3> QED BY <1>1, <3>1 DEF Fresh
  <2> QED BY <1>1, <1>2, <1>3, <2>1, <2>2 DEF Fresh
<1>5. Gone'
  <2>1. call[n].kind = "close" /\ call'[n].pc = "cterm" =>
          call[n].pc = "cterm" /\ call'[n].watch = call[n].watch
    BY DEF Micro
  <2>2. call[n].kind = "close" /\ call'[n].answer = "ok" =>
          shuttingDown /\ \A p \in Procs : ~Alive(p)
    BY <1>1, AliveFacts DEF Micro, Gone, KInv, Waiters, Terminated
  <2> QED BY <1>1, <2>1, <2>2 DEF Gone
<1>6. Late'
  <2>1. ASSUME NEW m \in Calls, call'[m].kind = "js", call'[m].pc = "ready", call'[m].settled
        PROVE  /\ proc'[call'[m].proc].ready # "resolved"
               /\ proc'[call'[m].proc].ready = "pending" =>
                    \E x \in Calls : call'[x].pc = "rterm" /\ Terminated(call[x].watch)'
    <3>1. /\ call[m].kind = "js" /\ call[m].pc = "ready" /\ call[m].settled
          /\ call'[m].proc = call[m].proc /\ call'[m].at = call[m].at
      BY <1>1, <2>1 DEF Micro, Same
    <3>2. call[m].proc \in Procs BY <3>1, Call DEF CallOK, Procs
    <3>3. proc[call[m].proc].ready # "resolved" BY <3>1 DEF Late
    <3>4. ASSUME proc[call[m].proc].ready = "pending"
          PROVE  \E x \in Calls : call'[x].pc = "rterm" /\ Terminated(call[x].watch)'
      <4>1. PICK x \in Calls : call[x].pc = "rterm" /\ Terminated(call[x].watch)
        BY <3>1, <3>4 DEF Late
      <4>2. child # 0
        <5>1. kernel[call[m].at].proc = call[m].proc BY <3>1, <3>4 DEF KInv, Waiters
        <5>2. call[m].at \in Kernels BY <3>1, Call DEF CallOK, Kernels
        <5> QED BY <3>2, <5>1, <5>2 DEF KInv, Owned, Procs
      <4>3. call'[x].pc = "rterm" /\ call'[x].watch = call[x].watch
        BY <1>1, <4>1, <4>2 DEF Micro
      <4> QED BY <1>1, <4>1, <4>3 DEF Terminated
    <3> QED BY <1>1, <3>1, <3>2, <3>3, <3>4
  <2> QED BY <1>1, <2>1 DEF Late
<1> QED BY <1>4, <1>5, <1>6

OldOK(n) ==
  /\ call[n].pc = "rstop" => \A p \in Procs : Old(n, p) =>
       proc[p].kernel = call[n].watch /\ kernel[call[n].watch].term = "pending"
  /\ call[n].pc = "term" => \A p \in Procs : Old(n, p) =>
       \/ startup = proc[p].kernel /\ kernel[startup].phase = "stopping"
       \/ call[n].watch = proc[p].kernel /\ kernel[call[n].watch].term = "pending"
  /\ call[n].pc = "startup" => \A p \in Procs : Old(n, p) =>
       proc[p].kernel = call[n].watch /\ kernel[call[n].watch].phase = "stopping"
  /\ call[n].pc \in {"got"} \/ call[n].answer = "ok" => \A p \in Procs : ~Old(n, p)

LEMMA FreshOld == Fresh <=> \A n \in Calls : call[n].kind = "reset" => OldOK(n)
BY DEF Fresh, OldOK

\* What a step leaves of a kernel that has a process.
StillStopping ==
  \A p \in Procs : Alive(p)' =>
    LET k == proc[p].kernel IN
    /\ Alive(p) /\ proc'[p].kernel = k
    /\ kernel[k].term = "pending" => kernel'[k].term = "pending"
    /\ kernel[k].phase = "stopping" => kernel'[k].phase = "stopping"
    /\ startup = k /\ kernel[k].phase = "stopping" => startup' = k

LEMMA FreshKept ==
  ASSUME Typed, Fresh, StillStopping,
         \A m \in Calls' : call'[m].kind = "reset" =>
           \/ OldOK(m)'
           \/ /\ call'[m].pc \notin {"rstop", "term", "startup", "got"}
              /\ call'[m].answer # "ok"
           \/ /\ m \in Calls /\ call[m].kind = "reset" /\ call'[m].since = call[m].since
              /\ call'[m].answer = call[m].answer
              /\ \/ call'[m].pc \notin {"rstop", "term", "startup", "got"}
                 \/ call'[m].pc = call[m].pc /\ call'[m].watch = call[m].watch
  PROVE  Fresh'
<1>1. ASSUME NEW m \in Calls, call[m].kind = "reset", call'[m].since = call[m].since,
             call'[m].answer = call[m].answer,
             \/ call'[m].pc \notin {"rstop", "term", "startup", "got"}
             \/ call'[m].pc = call[m].pc /\ call'[m].watch = call[m].watch
      PROVE  OldOK(m)'
  <2>1. OldOK(m) BY <1>1, FreshOld
  <2>2. ASSUME NEW p \in Procs', Old(m, p)' PROVE p \in Procs /\ Old(m, p) /\ Alive(p)'
    <3>1. call[m].since \in Nat /\ call[m].since <= Len(proc) /\ Len(proc) \in Nat
      BY Sizes, Call DEF CallOK, CallRec
    <3>2. p \in Nat /\ p >= 1 /\ p <= call[m].since /\ Alive(p)' BY <1>1, <2>2 DEF Old, Procs
    <3>3. p \in Procs BY <3>1, <3>2 DEF Procs
    <3> QED BY <3>2, <3>3 DEF StillStopping, Old
  <2>3. ASSUME NEW p \in Procs', Old(m, p)'
        PROVE  LET k == proc[p].kernel IN
               /\ p \in Procs /\ Old(m, p) /\ proc'[p].kernel = k
               /\ kernel[k].term = "pending" => kernel'[k].term = "pending"
               /\ kernel[k].phase = "stopping" => kernel'[k].phase = "stopping"
               /\ startup = k /\ kernel[k].phase = "stopping" => startup' = k
    BY <2>2, <2>3 DEF StillStopping
  <2> QED BY <1>1, <2>1, <2>3 DEF OldOK
<1>2. \A m \in Calls' : call'[m].kind = "reset" => OldOK(m)' BY <1>1 DEF OldOK
<1> QED BY <1>2 DEF Fresh, OldOK

LEMMA GoneKept ==
  ASSUME Typed, KInv, Gone, shuttingDown => StillStopping /\ shuttingDown' /\ Len(proc') = Len(proc),
         \A m \in Calls' : call'[m].kind = "close" =>
           \/ call'[m].pc # "cterm" /\ call'[m].answer # "ok"
           \/ /\ m \in Calls /\ call[m].kind = "close"
              /\ call'[m].answer = call[m].answer
              /\ \/ call'[m].pc = call[m].pc /\ call'[m].watch = call[m].watch
                 \/ call'[m].pc # "cterm"
                 \/ \A p \in Procs' : Alive(p)' =>
                      proc'[p].kernel = call'[m].watch /\ kernel'[call'[m].watch].term = "pending"
  PROVE  Gone'
<1>1. ASSUME NEW m \in Calls, call[m].kind = "close", call'[m].answer = call[m].answer,
             call[m].answer = "ok"
      PROVE  shuttingDown' /\ \A p \in Procs' : ~Alive(p)'
  <2>1. shuttingDown /\ \A p \in Procs : ~Alive(p) BY <1>1 DEF Gone
  <2> QED BY <2>1 DEF StillStopping, Procs
<1>2. ASSUME NEW m \in Calls, call[m].kind = "close", call[m].pc = "cterm",
             call'[m].pc = call[m].pc, call'[m].watch = call[m].watch
      PROVE  \A p \in Procs' : Alive(p)' =>
                proc'[p].kernel = call'[m].watch /\ kernel'[call'[m].watch].term = "pending"
  <2>1. /\ shuttingDown
        /\ \A p \in Procs : Alive(p) =>
             proc[p].kernel = call[m].watch /\ kernel[call[m].watch].term = "pending"
    BY <1>2, NoneGone DEF Gone
  <2> QED BY <1>2, <2>1 DEF StillStopping, Procs
<1>3. ASSUME NEW m \in Calls', call'[m].kind = "close"
      PROVE  /\ call'[m].pc = "cterm" => \A p \in Procs' : Alive(p)' =>
                  proc'[p].kernel = call'[m].watch /\ kernel'[call'[m].watch].term = "pending"
             /\ call'[m].answer = "ok" => shuttingDown' /\ \A p \in Procs' : ~Alive(p)'
  BY <1>1, <1>2, <1>3
<1> QED BY <1>3 DEF Gone

LEMMA LateKept ==
  ASSUME Late,
         \A m \in Calls' : call'[m].kind = "js" /\ call'[m].pc = "ready" /\ call'[m].settled =>
           /\ m \in Calls /\ call[m].kind = "js" /\ call[m].pc = "ready" /\ call[m].settled
           /\ call'[m].proc = call[m].proc
           /\ proc'[call[m].proc].ready \in {proc[call[m].proc].ready, "rejected"},
         \A x \in Calls : call[x].pc = "rterm" /\ Terminated(call[x].watch) =>
           x \in Calls' /\ call'[x].pc = "rterm" /\ Terminated(call[x].watch)'
  PROVE  Late'
<1>1. ASSUME NEW m \in Calls', call'[m].kind = "js", call'[m].pc = "ready", call'[m].settled
      PROVE  /\ proc'[call'[m].proc].ready # "resolved"
             /\ proc'[call'[m].proc].ready = "pending" =>
                  \E x \in Calls' : call'[x].pc = "rterm" /\ Terminated(call[x].watch)'
  BY <1>1 DEF Late
<1> QED BY <1>1 DEF Late

LEMMA BootingSafe ==
  ASSUME Typed, KInv, PInv, NEW k, Booting(k)
  PROVE  PInv'
<1> USE DEF PInv
<1>1. /\ Len(proc) \in Nat /\ Calls' = Calls /\ Len(proc') = Len(proc) + 1 /\ UNCHANGED call
      /\ \A p \in Procs : proc'[p] = proc[p] /\ p \in Procs'
      /\ \A j : kernel[j].term = "pending" /\ j \in Kernels => kernel'[j].term = "pending"
      /\ \A j \in Kernels : kernel[j].phase = "stopping" => kernel'[j].phase = "stopping"
  BY Sizes, SMTT(30) DEF Booting, OneMore, Calls, Procs
<1>2. StillStopping BY <1>1, Proc DEF StillStopping, Alive, Booting
<1>3. Fresh' BY <1>1, <1>2, FreshKept
<1>4. Gone'
  <2>1. ~shuttingDown BY DEF Booting
  <2>2. \A m \in Calls : call[m].kind = "close" => call[m].pc # "cterm" /\ call[m].answer # "ok"
    BY <2>1, NoneGone
  <2> QED BY <1>1, <2>1, <2>2, GoneKept
<1>5. Late'
  <2>1. ASSUME NEW m \in Calls, call[m].pc = "ready" PROVE proc'[call[m].proc] = proc[call[m].proc]
    BY <1>1, <2>1, Call DEF CallOK, Procs
  <2>2. ASSUME NEW x \in Calls, Terminated(call[x].watch), call[x].pc = "rterm"
        PROVE  Terminated(call[x].watch)'
    <3>1. call[x].watch \in 0 .. Len(kernel) BY Call DEF CallOK
    <3>2. call[x].watch # 0 => call[x].watch \in Kernels BY <3>1 DEF Kernels
    <3> QED BY <1>1, <2>2, <3>2 DEF Terminated, Booting, OneMore
  <2> QED BY <1>1, <2>1, <2>2, LateKept
<1> QED BY <1>3, <1>4, <1>5

LEMMA OnePhaseSafe ==
  ASSUME Typed, KInv, PInv, NEW k, NEW phase, OnePhase(k, phase),
         kernel[k].phase # "stopping" \/ \A p \in Procs : Alive(p) => proc[p].kernel # k
  PROVE  PInv'
<1> USE DEF PInv
<1>1. /\ Calls' = Calls /\ Procs' = Procs /\ UNCHANGED <<call, proc, startup, shuttingDown>>
      /\ \A j \in Kernels : /\ kernel'[j].term = kernel[j].term
                            /\ j # k => kernel'[j].phase = kernel[j].phase
  BY DEF OnePhase, Calls, Procs
<1>2. StillStopping BY <1>1, Proc DEF StillStopping, Alive
<1>3. Fresh' BY <1>1, <1>2, FreshKept
<1>4. Gone' BY <1>1, <1>2, GoneKept
<1>5. Late'
  <2>1. ASSUME NEW x \in Calls PROVE Terminated(call[x].watch)' = Terminated(call[x].watch)
    <3>1. call[x].watch \in 0 .. Len(kernel) BY Call DEF CallOK
    <3>2. call[x].watch # 0 => call[x].watch \in Kernels BY <3>1 DEF Kernels
    <3> QED BY <1>1, <3>2 DEF Terminated
  <2> QED BY <1>1, <2>1, LateKept
<1> QED BY <1>3, <1>4, <1>5

LEMMA BootedSafe ==
  ASSUME Typed, KInv, PInv, NEW k, Booted(k)
  PROVE  PInv'
BY OnePhaseSafe DEF Booted

LEMMA AbandonedSafe ==
  ASSUME Typed, KInv, PInv, NEW k, Abandoned(k)
  PROVE  PInv'
<1>1. /\ OnePhase(k, "failed") /\ k \in Kernels
      /\ kernel[k].phase = "stopping" => kernel[k].stop # "pending"
  BY DEF Abandoned, OnePhase
<1>2. kernel[k].phase = "stopping" => ~Busy(k) BY <1>1 DEF KInv, PhasesOK, Busy
<1>3. kernel[k].phase = "stopping" => \A p \in Procs : Alive(p) => proc[p].kernel # k
  BY <1>2, AliveFacts
<1> QED BY <1>1, <1>3, OnePhaseSafe

\* A kernel loses its process: nobody new is ready.
LEMMA LostSafe ==
  ASSUME Typed, KInv, PInv, NEW k \in Kernels, NEW kill, Lost(k, kill),
         kernel'[k].phase \in {kernel[k].phase, "stopping"},
         \A p \in Procs : Alive(p)' => Alive(p)
  PROVE  PInv'
<1> USE DEF PInv
<1>1. /\ Calls' = Calls /\ Procs' = Procs /\ UNCHANGED <<startup, shuttingDown>>
      /\ Len(proc') = Len(proc) /\ Len(call') = Len(call)
      /\ \A j \in Kernels : /\ kernel'[j].term = kernel[j].term
                            /\ kernel'[j].phase \in {kernel[j].phase, "stopping"}
      /\ \A p \in Procs : /\ proc'[p].kernel = proc[p].kernel
                          /\ proc'[p].ready \in {proc[p].ready, "rejected"}
      /\ \A m \in Calls :
           /\ call'[m].kind = call[m].kind /\ call'[m].proc = call[m].proc
           /\ call'[m].since = call[m].since /\ call'[m].watch = call[m].watch
           /\ call'[m].settled = call[m].settled /\ call'[m].answer = call[m].answer
           /\ call'[m].pc # call[m].pc => call[m].pc = "running" /\ call'[m].pc = "threw"
  BY DEF Lost, Calls, Procs, Same
<1>2. StillStopping BY <1>1, Proc DEF StillStopping
<1>3. Fresh'
  <2>1. \A m \in Calls : \/ call'[m].pc \notin {"rstop", "term", "startup", "got"}
                         \/ call'[m].pc = call[m].pc /\ call'[m].watch = call[m].watch
    BY <1>1
  <2> QED BY <1>1, <1>2, <2>1, FreshKept
<1>4. Gone'
  <2>1. \A m \in Calls : \/ call'[m].pc # "cterm"
                         \/ call'[m].pc = call[m].pc /\ call'[m].watch = call[m].watch
    BY <1>1
  <2> QED BY <1>1, <1>2, <2>1, GoneKept
<1>5. Late'
  <2>1. ASSUME NEW m \in Calls, call'[m].pc = "ready"
        PROVE  call[m].pc = "ready" /\ call[m].proc \in Procs
    BY <1>1, <2>1, Call DEF CallOK, Procs
  <2>2. ASSUME NEW x \in Calls, call[x].pc = "rterm", Terminated(call[x].watch)
        PROVE  call'[x].pc = "rterm" /\ Terminated(call[x].watch)'
    <3>1. call[x].watch \in 0 .. Len(kernel) BY Call DEF CallOK
    <3>2. call[x].watch # 0 => call[x].watch \in Kernels BY <3>1 DEF Kernels
    <3> QED BY <1>1, <2>2, <3>2 DEF Terminated
  <2> QED BY <1>1, <2>1, <2>2, LateKept
<1> QED BY <1>3, <1>4, <1>5

LEMMA UndoneSafe ==
  ASSUME Typed, KInv, PInv, NEW k, Undone(k)
  PROVE  PInv'
<1>1. \A p \in Procs : Alive(p)' => Alive(p) BY DEF Undone, Alive
<1> QED BY <1>1, LostSafe DEF Undone

LEMMA FailedSafe ==
  ASSUME Typed, KInv, PInv, NEW p, NEW kill, Failed(p, kill)
  PROVE  PInv'
<1>1. proc[p].kernel \in Kernels BY Proc DEF Failed
<1>2. \A q \in Procs : Alive(q)' => Alive(q) BY DEF Failed, Alive
<1> QED BY <1>1, <1>2, LostSafe DEF Failed

\* Processes gone or ready, the rest as it was.
LEMMA BuriedSafe ==
  ASSUME Typed, KInv, PInv, NEW p, Buried(p)
  PROVE  PInv'
<1> USE DEF PInv
<1> DEFINE k == proc[p].kernel
<1>1. /\ Calls' = Calls /\ Procs' = Procs /\ UNCHANGED <<call, startup, shuttingDown>>
      /\ Quiet /\ p \in Procs /\ Len(proc') = Len(proc)
      /\ \A j \in Kernels : /\ j # k => kernel'[j] = kernel[j]
                            /\ kernel'[j].phase = kernel[j].phase
      /\ kernel[k].victim = p /\ kernel[k].stop = "pending"
      /\ kernel'[k].term = IF kernel[k].term = "pending" THEN "done" ELSE kernel[k].term
      /\ \A q \in Procs : /\ proc'[q].kernel = proc[q].kernel /\ proc'[q].ready = proc[q].ready
                          /\ proc'[q].state = IF q = p THEN "dead" ELSE proc[q].state
  BY DEF Buried, Calls, Procs
<1>2. k \in Kernels BY <1>1, Proc
<1>3. ASSUME NEW q \in Procs, Alive(q)' PROVE Alive(q) /\ proc[q].kernel # k
  <2>1. Alive(q) /\ q # p BY <1>1, <1>3 DEF Alive
  <2> QED BY <1>1, <2>1, AliveFacts
<1>4. StillStopping BY <1>1, <1>3, Proc DEF StillStopping
<1>5. Fresh' BY <1>1, <1>4, FreshKept
<1>6. Gone' BY <1>1, <1>4, GoneKept
<1>7. Late'
  <2>1. ASSUME NEW x \in Calls, Terminated(call[x].watch) PROVE Terminated(call[x].watch)'
    <3>1. call[x].watch \in 0 .. Len(kernel) BY Call DEF CallOK
    <3>2. call[x].watch # 0 => call[x].watch \in Kernels BY <3>1 DEF Kernels
    <3> QED BY <1>1, <2>1, <3>2 DEF Terminated
  <2>2. \A m \in Calls : call[m].kind = "js" /\ call[m].pc = "ready" => ~call[m].settled
    BY <1>1, QuietLate
  <2> QED BY <1>1, <2>1, <2>2, LateKept
<1> QED BY <1>5, <1>6, <1>7

LEMMA ShakenSafe ==
  ASSUME Typed, KInv, PInv, NEW p, Shaken(p)
  PROVE  PInv'
<1> USE DEF PInv
<1>1. /\ Calls' = Calls /\ Procs' = Procs /\ Quiet /\ Len(proc') = Len(proc)
      /\ UNCHANGED <<call, kernel, startup, shuttingDown>>
      /\ \A q \in Procs : proc'[q].kernel = proc[q].kernel /\ Alive(q)' = Alive(q)
  BY DEF Shaken, Calls, Procs, Alive
<1>2. StillStopping BY <1>1 DEF StillStopping
<1>3. Fresh' BY <1>1, <1>2, FreshKept
<1>4. Gone' BY <1>1, <1>2, GoneKept
<1>5. Late'
  <2>1. \A x \in Calls : Terminated(call[x].watch)' = Terminated(call[x].watch)
    BY <1>1 DEF Terminated
  <2>2. \A m \in Calls : call[m].kind = "js" /\ call[m].pc = "ready" => ~call[m].settled
    BY <1>1, QuietLate
  <2> QED BY <1>1, <2>1, <2>2, LateKept
<1> QED BY <1>3, <1>4, <1>5

LEMMA CreatedSafe ==
  ASSUME Typed, KInv, PInv, NEW n, Created(n)
  PROVE  PInv'
<1> USE DEF PInv
<1>1. /\ Calls' = Calls /\ Procs' = Procs /\ n \in Calls /\ Len(proc') = Len(proc)
      /\ \A m \in Calls : m # n => call'[m] = call[m]
      /\ UNCHANGED <<child, shuttingDown>> /\ child = 0 /\ startup = 0 /\ ~shuttingDown
      /\ \A j \in Kernels : kernel'[j] = kernel[j]
      /\ call[n].pc = "term" /\ Terminated(call[n].watch) /\ call'[n].pc = "startup"
      /\ call'[n].kind = call[n].kind /\ call'[n].answer = call[n].answer
      /\ call'[n].since = call[n].since
      /\ \A p \in Procs : /\ proc'[p].kernel = proc[p].kernel /\ proc'[p].ready = proc[p].ready
                          /\ Alive(p)' = Alive(p)
  BY DEF Created, Only, ProcsKept, Calls, Procs, Alive
<1>2. \A p \in Procs : proc[p].kernel \in Kernels /\ proc[p].kernel # 0
  BY Proc DEF Kernels
<1>3. StillStopping BY <1>1, <1>2 DEF StillStopping
<1>4. Fresh'
  <2>1. ASSUME call[n].kind = "reset" PROVE OldOK(n)'
    <3>1. \A p \in Procs : ~Old(n, p)
      BY <1>1, <1>2, <2>1 DEF Fresh, Terminated
    <3>2. \A p \in Procs' : ~Old(n, p)' BY <1>1, <3>1 DEF Old
    <3> QED BY <3>2 DEF OldOK
  <2> QED BY <1>1, <1>3, <2>1, FreshKept
<1>5. Gone'
  <2>1. \A m \in Calls : call'[m].kind = "close" => call'[m].pc # "cterm" /\ call'[m].answer # "ok"
    BY <1>1, NoneGone
  <2> QED BY <1>1, <2>1, GoneKept
<1>6. Late'
  <2>1. ASSUME NEW m \in Calls, call'[m].pc = "ready"
        PROVE  call'[m] = call[m] /\ call[m].proc \in Procs
    BY <1>1, <2>1, Call DEF CallOK, Procs
  <2>2. ASSUME NEW x \in Calls, call[x].pc = "rterm", Terminated(call[x].watch)
        PROVE  call'[x].pc = "rterm" /\ Terminated(call[x].watch)'
    <3>1. call[x].watch \in 0 .. Len(kernel) BY Call DEF CallOK
    <3>2. call[x].watch # 0 => call[x].watch \in Kernels BY <3>1 DEF Kernels
    <3> QED BY <1>1, <2>2, <3>2 DEF Terminated
  <2> QED BY <1>1, <2>1, <2>2, LateKept
<1> QED BY <1>4, <1>5, <1>6

LEMMA AgainSafe ==
  ASSUME Typed, KInv, PInv, NEW n, Again(n)
  PROVE  PInv'
<1> USE DEF PInv
<1>1. /\ Len(proc) \in Nat /\ Calls' = Calls /\ n \in Calls /\ Len(proc') = Len(proc) + 1
      /\ \A m \in Calls : m # n => call'[m] = call[m]
      /\ UNCHANGED <<child, startup, shuttingDown>> /\ child # 0
      /\ \A p \in Procs : proc'[p] = proc[p] /\ p \in Procs'
      /\ \A j \in Kernels : kernel'[j].term = kernel[j].term /\ kernel'[j].phase = kernel[j].phase
      /\ call[n].pc = "got" /\ call[n].kind # "reset" /\ call'[n].pc = "ready"
      /\ call'[n].kind = call[n].kind /\ call'[n].answer = call[n].answer
      /\ (call[n].kind = "js" => ~call'[n].settled)
  <2>1. /\ Len(proc) \in Nat /\ Calls' = Calls /\ n \in Calls /\ Len(proc') = Len(proc) + 1
        /\ \A m \in Calls : m # n => call'[m] = call[m]
        /\ UNCHANGED <<child, startup, shuttingDown>> /\ child # 0
    BY Sizes DEF Again, OneMore, Only, Calls, Procs
  <2>2. \A p \in Procs : proc'[p] = proc[p] /\ p \in Procs'
    BY <2>1 DEF Again, OneMore, Procs
  <2>3. \A j \in Kernels : kernel'[j].term = kernel[j].term /\ kernel'[j].phase = kernel[j].phase
    BY DEF Again, OneMore
  <2>4. /\ call[n].pc = "got" /\ call[n].kind # "reset" /\ call'[n].pc = "ready"
        /\ call'[n].kind = call[n].kind /\ call'[n].answer = call[n].answer
        /\ (call[n].kind = "js" => ~call'[n].settled)
    BY DEF Again
  <2> QED BY <2>1, <2>2, <2>3, <2>4
<1>2. \A p \in Procs : proc[p].kernel \in Kernels BY Proc
<1>3. StillStopping BY <1>1, <1>2 DEF StillStopping, Alive
<1>4. Fresh' BY <1>1, <1>3, FreshKept
<1>5. Gone'
  <2>1. ~shuttingDown BY <1>1 DEF KInv, Owned
  <2>2. \A m \in Calls : call[m].kind = "close" => call[m].pc # "cterm" /\ call[m].answer # "ok"
    BY <2>1, NoneGone
  <2> QED BY <1>1, <2>1, <2>2, GoneKept
<1>6. Late'
  <2>1. ASSUME NEW m \in Calls, call[m].pc = "ready" PROVE proc'[call[m].proc] = proc[call[m].proc]
    BY <1>1, <2>1, Call DEF CallOK, Procs
  <2>2. ASSUME NEW x \in Calls, call[x].pc = "rterm", Terminated(call[x].watch)
        PROVE  call'[x].pc = "rterm" /\ Terminated(call[x].watch)'
    <3>1. call[x].watch \in 0 .. Len(kernel) BY Call DEF CallOK
    <3>2. call[x].watch # 0 => call[x].watch \in Kernels BY <3>1 DEF Kernels
    <3> QED BY <1>1, <2>2, <3>2 DEF Terminated
  <2> QED BY <1>1, <2>1, <2>2, LateKept
<1> QED BY <1>4, <1>5, <1>6

LEMMA ForgottenSafe ==
  ASSUME Typed, KInv, PInv, Forgotten
  PROVE  PInv'
<1> USE DEF PInv
<1>1. /\ Calls' = Calls /\ Procs' = Procs /\ UNCHANGED <<kernel, proc, child, shuttingDown>>
      /\ startup # 0 => Over(startup)
      /\ \A m \in Calls :
           /\ call'[m].kind = call[m].kind /\ call'[m].proc = call[m].proc
           /\ call'[m].since = call[m].since
           /\ call'[m].settled = call[m].settled /\ call'[m].answer = call[m].answer
           /\ \/ call'[m].pc = call[m].pc /\ call'[m].watch = call[m].watch
              \/ call[m].pc = "cstart" /\ call'[m].pc = "cterm" /\ call'[m].watch = termination
  BY DEF Forgotten, Calls, Procs, Same
<1>2. \A p \in Procs : proc[p].kernel # 0 BY Proc DEF Kernels
<1>3. StillStopping BY <1>1, <1>2 DEF StillStopping, Alive, Over
<1>4. Fresh' BY <1>1, <1>3, FreshKept
<1>5. Gone'
  <2>1. ASSUME NEW m \in Calls, call[m].pc = "cstart", NEW p \in Procs, Alive(p)
        PROVE  proc[p].kernel = termination /\ kernel[termination].term = "pending"
    <3>1. child = 0 BY <2>1 DEF KInv, Waiters, Owned
    <3>2. Busy(proc[p].kernel) /\ proc[p].kernel \in Kernels BY <2>1, AliveFacts
    <3> QED BY <1>1, <1>2, <3>1, <3>2 DEF KInv, Owned, Over
  <2>2. \A p \in Procs : Alive(p)' = Alive(p) BY <1>1 DEF Alive
  <2> QED BY <1>1, <1>3, <2>1, <2>2, GoneKept
<1>6. Late'
  <2>1. \A x \in Calls : call[x].pc = "rterm" =>
          call'[x].pc = "rterm" /\ Terminated(call[x].watch)' = Terminated(call[x].watch)
    BY <1>1 DEF Terminated
  <2> QED BY <1>1, <2>1, LateKept
<1> QED BY <1>4, <1>5, <1>6

LEMMA OuterSafe ==
  ASSUME Typed, KInv, PInv, Outer
  PROVE  PInv'
<1> USE DEF PInv
<1> DEFINE N == Len(call) + 1
           d == call'[N]
<1>1. /\ Procs' = Procs /\ Quiet /\ Len(proc') = Len(proc)
      /\ UNCHANGED <<kernel, child, startup, termination>>
      /\ shuttingDown => shuttingDown'
      /\ \A p \in Procs : /\ proc'[p].kernel = proc[p].kernel /\ proc'[p].ready = proc[p].ready
                          /\ Alive(p)' = Alive(p)
      /\ \A m \in Calls :
           /\ call'[m].kind = call[m].kind /\ call'[m].proc = call[m].proc
           /\ call'[m].at = call[m].at
           /\ call'[m].since = call[m].since /\ call'[m].watch = call[m].watch
           /\ call'[m].pc # call[m].pc => call[m].pc = "running" /\ call'[m].pc = "done"
           /\ call[m].kind \in {"reset", "close"} => call'[m].answer = call[m].answer
           /\ call'[m].settled # call[m].settled /\ call'[m].pc = "ready" =>
                child = 0 \/ (Len(call') = N /\ d.pc = "rterm" /\ d.watch = termination)
  <2>1. shuttingDown => shuttingDown' BY DEF Outer, Typed, ManagerOK
  <2>2. Len(call') = N /\ d.pc = "rterm" => d.watch = termination BY Sizes DEF Outer
  <2> QED BY <2>1, <2>2 DEF Outer, ProcsKept, Same, Procs, Alive
<1>2. \A m \in Calls' : m \in Calls \/ (m = N /\ Len(call') = N)
  BY Sizes DEF Outer, Calls
<1>3. \A m \in Calls : m \in Calls' BY Sizes DEF Outer, Calls
<1>4. Len(call') = N =>
        /\ N \in Calls'
        /\ d.pc \in {"done", "term", "rterm", "cstart"}
        /\ d.pc = "term" => d.kind \in {"js", "dir"}
        /\ d.kind \in {"reset", "close"} => d.answer = "none"
        /\ d.pc = "rterm" => d.watch = termination
  BY Sizes DEF Outer, Calls
<1> HIDE DEF d, N
<1>5. StillStopping BY <1>1 DEF StillStopping
<1>6. Fresh'
  <2>1. \A m \in Calls : \/ call'[m].pc \notin {"rstop", "term", "startup", "got"}
                         \/ call'[m].pc = call[m].pc /\ call'[m].watch = call[m].watch
    BY <1>1
  <2>2. Len(call') = N /\ d.kind = "reset" =>
          d.pc \notin {"rstop", "term", "startup", "got"} /\ d.answer # "ok"
    BY <1>4
  <2> QED BY <1>1, <1>2, <1>5, <2>1, <2>2, FreshKept DEF d
<1>7. Gone'
  <2>1. \A m \in Calls : \/ call'[m].pc # "cterm"
                         \/ call'[m].pc = call[m].pc /\ call'[m].watch = call[m].watch
    BY <1>1
  <2>2. Len(call') = N /\ d.kind = "close" => d.pc # "cterm" /\ d.answer # "ok"
    BY <1>4
  <2> QED BY <1>1, <1>2, <1>5, <2>1, <2>2, GoneKept DEF d
<1>8. Late'
  <2>1. ASSUME NEW m \in Calls', call'[m].kind = "js", call'[m].pc = "ready", call'[m].settled
        PROVE  /\ proc'[call'[m].proc].ready # "resolved"
               /\ proc'[call'[m].proc].ready = "pending" =>
                    \E x \in Calls' : call'[x].pc = "rterm" /\ Terminated(call[x].watch)'
    <3>1. m \in Calls BY <1>2, <1>4, <2>1 DEF d
    <3>2. call[m].pc = "ready" /\ call[m].kind = "js" /\ call'[m].proc = call[m].proc
      BY <1>1, <2>1, <3>1
    <3>3. /\ call[m].proc \in Procs /\ call[m].at \in Kernels
          /\ call[m].proc # 0
      BY <3>1, <3>2, Call DEF CallOK, Procs, Kernels
    <3>4. proc'[call'[m].proc].ready = "pending"
      BY <1>1, <3>1, <3>2, <3>3, QuietFacts
    <3>5. kernel[call[m].at].proc = call[m].proc
      BY <1>1, <3>1, <3>2, QuietFacts DEF KInv, Waiters
    <3>6. child # 0 BY <3>3, <3>5 DEF KInv, Owned
    <3>7. ~call[m].settled BY <1>1, <3>1, <3>2, QuietLate
    <3>8. Len(call') = N /\ d.pc = "rterm" /\ d.watch = termination
      BY <1>1, <2>1, <3>1, <3>6, <3>7
    <3>9. Terminated(termination)
      <4>1. termination # 0 => termination \in Kernels BY Sizes DEF Kernels
      <4>2. ASSUME termination # 0, kernel[termination].term = "pending" PROVE FALSE
        <5>1. Busy(termination) BY <4>1, <4>2 DEF KInv, Held, Busy
        <5>2. termination = child BY <3>6, <4>1, <4>2, <5>1 DEF KInv, Owned
        <5>3. kernel[child].term = "none" BY <3>6 DEF KInv, Owned
        <5> QED BY <4>2, <5>2, <5>3
      <4> QED BY <4>2 DEF Terminated
    <3>10. PICK x : x = N OBVIOUS
    <3>11. x \in Calls' /\ call'[x].pc = "rterm" /\ call'[x].watch = termination
      BY <1>4, <3>8, <3>10 DEF d
    <3>12. Terminated(call[x].watch)' BY <1>1, <3>9, <3>11 DEF Terminated
    <3> QED BY <3>4, <3>11, <3>12
  <2> QED BY <2>1 DEF Late
<1> QED BY <1>6, <1>7, <1>8

LEMMA DroppedSafe ==
  ASSUME Typed, KInv, PInv, NEW n, Dropped(n)
  PROVE  PInv'
<1> USE DEF PInv
<1> DEFINE N == Len(call) + 1
           d == call'[N]
           k == kernel[child]
<1>1. /\ Procs' = Procs /\ Len(proc') = Len(proc) /\ child # 0 /\ child \in Kernels
      /\ UNCHANGED startup
      /\ kernel'[child].term = IF k.proc # 0 \/ k.stop = "pending" THEN "pending" ELSE "done"
      /\ kernel'[child].phase = k.phase
      /\ \A j \in Kernels : j # child => kernel'[j] = kernel[j]
      /\ \A p \in Procs :
           /\ proc'[p].kernel = proc[p].kernel /\ Alive(p)' = Alive(p)
           /\ proc'[p].ready = IF p = k.proc /\ proc[p].ready = "pending"
                                 THEN "rejected" ELSE proc[p].ready
      /\ \A m \in Calls :
           /\ call'[m].kind = call[m].kind /\ call'[m].proc = call[m].proc
           /\ call'[m].at = call[m].at /\ call'[m].since = call[m].since
           /\ call'[m].settled # call[m].settled => Quiet
           /\ call[m].kind \in {"reset", "close"} => call'[m].answer = call[m].answer
           /\ \/ call'[m].pc = call[m].pc /\ call'[m].watch = call[m].watch
              \/ call'[m].pc \in {"threw", "failing"}
              \/ call[m].pc = "rterm" /\ call'[m].pc = "rstop" /\ call'[m].watch = child
  <2>1. kernel \in Seq(KernelsFor(Len(proc))) BY DEF Typed
  <2>2. child \in Kernels /\ child \in DOMAIN kernel BY <2>1, Sizes DEF Dropped, Kernels
  <2>3. k \in KernelRec BY <2>2, Kernel
  <2>4. k = [k EXCEPT !.term = k.term] BY <2>3 DEF KernelRec
  <2>5. \A j \in Kernels : j # child => kernel'[j] = kernel[j]
    BY <2>1, <2>2 DEF Dropped, Kernels
  <2>6. /\ kernel'[child].term = IF k.proc # 0 \/ k.stop = "pending" THEN "pending" ELSE "done"
        /\ kernel'[child].phase = k.phase
    BY <2>2, <2>3 DEF Dropped, KernelRec
  <2> QED BY <2>2, <2>5, <2>6 DEF Dropped, Same, Procs, Alive
<1>2. \A m \in Calls' : m \in Calls \/ (m = N /\ Len(call') = N)
  BY Sizes DEF Dropped, Calls
<1>3. Len(call') = N => d.pc = "cstart" /\ d.kind = "close" /\ d.answer = "none"
  BY Sizes DEF Dropped
<1> HIDE DEF d, N
<1>4. \A p \in Procs : Alive(p) =>
        /\ proc[p].kernel = child /\ Busy(child) /\ k.phase # "stopping"
  BY <1>1, ChildAlive, AliveFacts
<1>5. ~shuttingDown BY <1>1 DEF KInv, Owned
<1>6. StillStopping
  <2>1. \A p \in Procs : Alive(p)' => kernel'[child].term = "pending"
    BY <1>1, <1>4 DEF Busy
  <2> QED BY <1>1, <1>4, <2>1 DEF StillStopping
<1>7. Fresh'
  <2>1. ASSUME NEW m \in Calls, call'[m].kind = "reset", call'[m].pc = "rstop",
               call[m].pc = "rterm", call'[m].watch = child
        PROVE  OldOK(m)' \/ call'[m].answer = "ok"
    BY <1>1, <1>4, <2>1 DEF OldOK, Old, Busy
  <2>2. ASSUME NEW m \in Calls, call'[m].kind = "reset", call'[m].answer = "ok" PROVE OldOK(m)'
    <3>1. \A p \in Procs : ~Old(m, p) BY <1>1, <2>2 DEF Fresh
    <3>2. \A p \in Procs' : ~Old(m, p)' BY <1>1, <3>1 DEF Old
    <3> QED BY <3>2 DEF OldOK
  <2>3. ASSUME NEW m \in Calls, call'[m].kind = "reset"
        PROVE  \/ OldOK(m)'
               \/ /\ m \in Calls /\ call[m].kind = "reset" /\ call'[m].since = call[m].since
                  /\ call'[m].answer = call[m].answer
                  /\ \/ call'[m].pc \notin {"rstop", "term", "startup", "got"}
                     \/ call'[m].pc = call[m].pc /\ call'[m].watch = call[m].watch
    BY <1>1, <2>1, <2>2, <2>3
  <2>4. Len(call') = N => call'[N].kind # "reset" BY <1>3 DEF d
  <2> QED BY <1>2, <1>6, <2>3, <2>4, FreshKept
<1>8. Gone'
  <2>1. \A m \in Calls : call[m].kind = "close" => call[m].pc # "cterm" /\ call[m].answer # "ok"
    BY <1>5, NoneGone
  <2>2. \A m \in Calls' : call'[m].kind = "close" => call'[m].pc # "cterm" /\ call'[m].answer # "ok"
    BY <1>1, <1>2, <1>3, <2>1 DEF d
  <2> QED BY <1>5, <2>2, GoneKept
<1>9. Late'
  <2>1. ASSUME NEW m \in Calls', call'[m].kind = "js", call'[m].pc = "ready", call'[m].settled
        PROVE  proc'[call'[m].proc].ready = "rejected"
    <3>1. m \in Calls BY <1>2, <1>3, <2>1 DEF d
    <3>2. call[m].pc = "ready" /\ call[m].kind = "js" /\ call'[m].proc = call[m].proc
      BY <1>1, <2>1, <3>1
    <3>3. /\ call[m].proc \in Procs /\ call[m].at \in Kernels /\ call[m].proc # 0
      BY <3>1, <3>2, Call DEF CallOK, Procs, Kernels
    <3>4. proc[call[m].proc].ready \in {"pending", "resolved", "rejected"} BY <3>3, Proc DEF ProcRec
    <3>5. proc[call[m].proc].ready # "resolved"
      <4>1. CASE call[m].settled BY <3>1, <3>2, <4>1 DEF Late
      <4>2. CASE ~call[m].settled BY <1>1, <2>1, <3>1, <3>2, <4>2, QuietFacts
      <4> QED BY <4>1, <4>2
    <3>6. ASSUME proc[call[m].proc].ready = "pending" PROVE call[m].proc = k.proc
      <4>1. kernel[call[m].at].proc = call[m].proc BY <3>1, <3>2, <3>6 DEF KInv, Waiters
      <4>2. Busy(call[m].at) BY <3>3, <4>1 DEF Busy
      <4> QED BY <1>1, <3>3, <4>1, <4>2 DEF KInv, Owned
    <3> QED BY <1>1, <3>2, <3>3, <3>4, <3>5, <3>6
  <2> QED BY <2>1 DEF Late
<1> QED BY <1>7, <1>8, <1>9

LEMMA PInvStep ==
  ASSUME Typed, KInv, PInv, Step
  PROVE  PInv'
<1>1. ASSUME NEW n \in Calls, Micro(n) PROVE PInv' BY <1>1, MicroSafe
<1>2. ASSUME NEW n \in Calls, Created(n) PROVE PInv' BY <1>2, CreatedSafe
<1>3. ASSUME NEW n \in Calls, Again(n) PROVE PInv' BY <1>3, AgainSafe
<1>4. ASSUME NEW n, Dropped(n) PROVE PInv' BY <1>4, DroppedSafe
<1>5. ASSUME NEW k \in Kernels, Booting(k) PROVE PInv' BY <1>5, BootingSafe
<1>6. ASSUME NEW k \in Kernels, Booted(k) PROVE PInv' BY <1>6, BootedSafe
<1>7. ASSUME NEW k \in Kernels, Undone(k) PROVE PInv' BY <1>7, UndoneSafe
<1>8. ASSUME NEW k \in Kernels, Abandoned(k) PROVE PInv' BY <1>8, AbandonedSafe
<1>9. ASSUME NEW p \in Procs, Shaken(p) PROVE PInv' BY <1>9, ShakenSafe
<1>10. ASSUME NEW p \in Procs, Buried(p) PROVE PInv' BY <1>10, BuriedSafe
<1>11. ASSUME NEW p \in Procs, NEW kill \in BOOLEAN, Failed(p, kill) PROVE PInv'
  BY <1>11, FailedSafe
<1>12. CASE Outer BY <1>12, OuterSafe
<1>13. CASE Forgotten BY <1>13, ForgottenSafe
<1> QED BY <1>1, <1>2, <1>3, <1>4, <1>5, <1>6, <1>7, <1>8, <1>9, <1>10, <1>11, <1>12, <1>13 DEF Step
-----------------------------------------------------------------------------
\* No process is given another cell.
RunsKept ==
  \A p \in Procs' : proc'[p].run = 0 \/ (p \in Procs /\ proc'[p].run = proc[p].run)

\* A kernel without a process is given one, with the directories that it knows.
Respawning ==
  \E n \in Calls : \/ call[n].pc = "stopping"
                   \/ call[n].pc = "got" /\ child = call[n].at /\ kernel[child].proc = 0

\* No process loses a directory, and a new one has all of them.
DirsKept ==
  \A p \in Procs' :
    /\ p \in Procs => proc[p].dirs \subseteq proc'[p].dirs /\ (Alive(p)' => Alive(p))
    /\ p \notin Procs => proc'[p].dirs = moduleDirs \/ Respawning

\* Process r is no less than process p.
Keeps(r, p) == p.dirs \subseteq r.dirs /\ (r.state # "dead" => p.state # "dead")

LEMMA DirPut ==
  ASSUME Typed, NEW q, NEW r, q \in Procs => Keeps(r, proc[q]),
         proc' = [proc EXCEPT ![q] = r]
  PROVE  DirsKept
<1>1. /\ Procs' = Procs /\ (q \in Procs => proc'[q] = r)
      /\ \A p \in Procs : p # q => proc'[p] = proc[p]
  BY DEF Typed, Procs
<1> QED BY <1>1 DEF DirsKept, Keeps, Alive

LEMMA RunPut ==
  ASSUME Typed, NEW q \in Procs, NEW r \in ProcRec, r.run \in {0, proc[q].run},
         Keeps(r, proc[q]), proc' = [proc EXCEPT ![q] = r]
  PROVE  RunsKept /\ DirsKept
<1>1. /\ Procs' = Procs /\ proc'[q] = r
      /\ \A p \in Procs : p # q => proc'[p] = proc[p]
  BY DEF Typed, Procs
<1> QED BY <1>1, DirPut DEF RunsKept

LEMMA SameRuns ==
  ASSUME UNCHANGED proc
  PROVE  RunsKept /\ DirsKept
BY DEF RunsKept, DirsKept, Procs, Alive

LEMMA RunUnready ==
  ASSUME Typed, NEW q, proc' = Unready(q)
  PROVE  RunsKept /\ DirsKept
<1> DEFINE r == [proc[q] EXCEPT !.ready = IF proc[q].ready = "pending" THEN "rejected"
                                          ELSE proc[q].ready]
<1>1. CASE q \in Procs
  <2>1. proc[q] \in ProcRec BY <1>1, Proc
  <2>2. r \in ProcRec /\ r.run = proc[q].run /\ Keeps(r, proc[q]) BY <2>1 DEF ProcRec, Keeps
  <2>3. proc' = [proc EXCEPT ![q] = r] BY DEF Unready
  <2> HIDE DEF r
  <2> QED BY <1>1, <2>2, <2>3, RunPut
<1>2. CASE q \notin Procs
  <2>1. proc' = proc BY <1>2 DEF Unready, Typed, Procs
  <2> QED BY <2>1, SameRuns
<1> QED BY <1>1, <1>2

LEMMA RunMore ==
  ASSUME Typed, NEW k, NEW dirs, proc' = Append(proc, NewProc(k, dirs)),
         dirs = moduleDirs \/ Respawning
  PROVE  RunsKept /\ DirsKept
<1> DEFINE q == NewProc(k, dirs)
<1>1. q.run = 0 /\ q.dirs = dirs BY DEF NewProc
<1> HIDE DEF q
<1>2. /\ Len(proc) \in Nat /\ Len(proc') = Len(proc) + 1 /\ proc'[Len(proc) + 1] = q
      /\ \A p \in Procs : proc'[p] = proc[p]
  BY DEF Typed, Procs, q
<1>3. \A p \in Procs' : p \in Procs \/ p = Len(proc) + 1 BY <1>2 DEF Procs
<1> QED BY <1>1, <1>2, <1>3 DEF RunsKept, DirsKept, Alive

LEMMA RunDrop ==
  ASSUME Typed, NEW c, DropChild(c)
  PROVE  RunsKept /\ DirsKept
<1>1. proc' = proc \/ \E q : proc' = Unready(q) BY DEF DropChild, Terminate
<1> QED BY <1>1, SameRuns, RunUnready

\* The process is killed, or gone as p2 says.
LEMMA RunExit ==
  ASSUME Typed, NEW k \in Kernels, kernel[k].proc # 0, NEW kill,
         NEW p2 \in Seq(ProcRec), Len(p2) = Len(proc), HandleExit(k, kill, p2),
         \A p \in Procs : p2[p].run \in {0, proc[p].run} /\ Keeps(p2[p], proc[p])
  PROVE  RunsKept /\ DirsKept
<1> DEFINE q == kernel[k].proc
           r == [p2[q] EXCEPT !.ready = IF p2[q].ready = "pending" THEN "rejected"
                                        ELSE p2[q].ready]
<1>1. q \in Procs /\ q \in 1 .. Len(p2) BY Kernel DEF Procs
<1>2. p2[q] \in ProcRec BY <1>1
<1>3. r \in ProcRec /\ r.run = p2[q].run /\ r.dirs = p2[q].dirs /\ r.state = p2[q].state
  BY <1>2 DEF ProcRec
<1>4. proc' = [p2 EXCEPT ![q] = r] BY DEF HandleExit
<1> HIDE DEF r, q
<1>5. /\ Len(proc') = Len(proc) /\ proc'[q] = r
      /\ \A p \in Procs : p # q => proc'[p] = p2[p]
  BY <1>1, <1>3, <1>4, Put DEF Procs
<1>6. Procs' = Procs BY <1>5 DEF Procs
<1>7. RunsKept BY <1>1, <1>3, <1>5, <1>6 DEF RunsKept
<1>8. DirsKept BY <1>1, <1>3, <1>5, <1>6 DEF DirsKept, Keeps, Alive
<1> QED BY <1>7, <1>8

LEMMA CommandRuns ==
  ASSUME Typed, Command
  PROVE  RunsKept /\ DirsKept
<1>1. ASSUME NEW id \in Ids, Execute(id) PROVE RunsKept /\ DirsKept BY <1>1, SameRuns DEF Execute
<1>2. ASSUME NEW id \in Ids, Cancel(id) PROVE RunsKept /\ DirsKept
  <2>1. UNCHANGED proc \/ DropChild(Settled(call, active, "cancelled")) BY <1>2 DEF Cancel
  <2> QED BY <2>1, SameRuns, RunDrop
<1>3. ASSUME NEW d \in Dirs, AddNodeModuleDir(d) PROVE RunsKept /\ DirsKept
  BY <1>3, SameRuns DEF AddNodeModuleDir
<1>4. CASE Reset BY <1>4, SameRuns DEF Reset
<1>5. CASE Close
  <2>1. \E c : DropChild(c) BY <1>5 DEF Close
  <2> QED BY <2>1, RunDrop
<1> QED BY <1>1, <1>2, <1>3, <1>4, <1>5 DEF Command

LEMMA ResumeRuns ==
  ASSUME Typed, NEW n \in Calls, Resume(n)
  PROVE  DirsKept /\ (RunsKept \/ Send(n))
<1>1. CASE ResumeEnsureChild(n) BY <1>1, SameRuns DEF ResumeEnsureChild
<1>2. CASE ResumeStartup(n) BY <1>2, SameRuns DEF ResumeStartup
<1>3. CASE Start(n)
  <2>1. UNCHANGED proc \/ (Spawn(call[n].at) /\ Respawning) BY <1>3 DEF Start, Respawning
  <2> QED BY <2>1, SameRuns, RunMore DEF Spawn
<1>4. CASE Restart(n)
  <2>1. UNCHANGED proc \/ (Spawn(call[n].at) /\ Respawning) BY <1>4 DEF Restart, Respawning
  <2> QED BY <2>1, SameRuns, RunMore DEF Spawn
<1>5. CASE Send(n)
  <2> DEFINE q == kernel[call[n].at].proc
             r == [proc[q] EXCEPT !.run = n]
  <2>1. UNCHANGED proc \/ proc' = [proc EXCEPT ![q] = r] BY <1>5 DEF Send
  <2>2. q \in Procs => Keeps(r, proc[q])
    <3>1. q \in Procs => proc[q] \in ProcRec BY Proc
    <3> QED BY <3>1 DEF ProcRec, Keeps
  <2> HIDE DEF q, r
  <2>3. DirsKept BY <2>1, <2>2, SameRuns, DirPut
  <2> QED BY <1>5, <2>3
<1>6. CASE Catch(n)
  <2>1. UNCHANGED proc \/ DropChild(At(n, "failing", child)) BY <1>6 DEF Catch
  <2> QED BY <2>1, SameRuns, RunDrop
<1>7. CASE Fail(n) BY <1>7, SameRuns DEF Fail
<1>8. CASE ResumeRestart(n)
  <2>1. UNCHANGED proc \/ DropChild(At(n, "rstop", child)) BY <1>8 DEF ResumeRestart
  <2> QED BY <2>1, SameRuns, RunDrop
<1>9. CASE ResumeClose(n) BY <1>9, SameRuns DEF ResumeClose
<1>10. CASE ResumeTimeout(n) BY <1>10, SameRuns DEF ResumeTimeout
<1> QED BY <1>1, <1>2, <1>3, <1>4, <1>5, <1>6, <1>7, <1>8, <1>9, <1>10 DEF Resume

LEMMA StartUpRuns ==
  ASSUME Typed, NEW k \in Kernels, StartUp(k)
  PROVE  RunsKept /\ DirsKept
<1>1. CASE Spawning(k)
  <2>1. UNCHANGED proc \/ proc' = Append(proc, NewProc(k, moduleDirs)) BY <1>1 DEF Spawning
  <2> QED BY <2>1, SameRuns, RunMore
<1>2. CASE Spawned(k)
  <2>1. UNCHANGED proc \/ proc' = Unready(kernel[k].proc) BY <1>2 DEF Spawned
  <2> QED BY <2>1, SameRuns, RunUnready
<1>3. CASE StartFailed(k) BY <1>3, SameRuns DEF StartFailed
<1> QED BY <1>1, <1>2, <1>3 DEF StartUp

LEMMA EventRuns ==
  ASSUME Typed, NEW p \in Procs, ProcessEvent(p)
  PROVE  RunsKept /\ DirsKept
<1>1. /\ proc[p] \in ProcRec /\ proc[p].kernel \in Kernels /\ proc \in Seq(ProcRec)
      /\ p \in 1 .. Len(proc)
  <2>1. proc \in Seq(ProcRec)
    <3>1. ProcsFor(Len(kernel), Len(call)) \subseteq ProcRec BY DEF ProcsFor
    <3> QED BY <3>1, Wider DEF Typed
  <2> QED BY <2>1, Proc DEF Procs
<1>2. CASE Handshake(p)
  <2> DEFINE q == kernel[proc[p].kernel].proc
             r == [proc[p] EXCEPT !.state = "up"]
             booted == [proc EXCEPT ![p] = r]
             s == [booted[q] EXCEPT !.ready = IF booted[q].ready = "pending" THEN "resolved"
                                              ELSE booted[q].ready]
  <2>1. r \in ProcRec /\ r.run = proc[p].run /\ Keeps(r, proc[p])
    <3>1. proc[p].state # "dead" BY <1>2 DEF Handshake
    <3> QED BY <1>1, <3>1 DEF ProcRec, Keeps
  <2>2. proc' = booted \/ (q # 0 /\ proc' = [booted EXCEPT ![q] = s]) BY <1>2 DEF Handshake
  <2> HIDE DEF r
  <2>3. /\ booted \in Seq(ProcRec) /\ Len(booted) = Len(proc) /\ booted[p] = r
        /\ \A x \in 1 .. Len(proc) : x # p => booted[x] = proc[x]
    BY <1>1, <2>1, Put
  <2> HIDE DEF booted
  <2>4. \A x \in Procs : booted[x].run = proc[x].run /\ Keeps(booted[x], proc[x])
    BY <2>1, <2>3 DEF Procs, Keeps
  <2>5. CASE proc' = booted
    <3>1. Procs' = Procs BY <2>3, <2>5 DEF Procs
    <3>2. RunsKept BY <2>4, <2>5, <3>1 DEF RunsKept
    <3>3. DirsKept BY <2>4, <2>5, <3>1 DEF DirsKept, Keeps, Alive
    <3> QED BY <3>2, <3>3
  <2>6. CASE q # 0 /\ proc' = [booted EXCEPT ![q] = s]
    <3>1. q \in Procs /\ q \in 1 .. Len(booted) BY <1>1, <2>3, <2>6, Kernel DEF Procs
    <3>2. booted[q] \in ProcRec BY <2>3, <3>1
    <3>3. /\ s \in ProcRec /\ s.run = booted[q].run
          /\ s.dirs = booted[q].dirs /\ s.state = booted[q].state
      BY <3>2 DEF ProcRec
    <3> HIDE DEF s, q
    <3>4. /\ Len(proc') = Len(proc) /\ proc'[q] = s
          /\ \A x \in Procs : x # q => proc'[x] = booted[x]
      BY <2>3, <2>6, <3>1, <3>3, Put DEF Procs
    <3>5. Procs' = Procs BY <3>4 DEF Procs
    <3>6. RunsKept BY <2>4, <3>1, <3>3, <3>4, <3>5 DEF RunsKept
    <3>7. DirsKept BY <2>4, <3>1, <3>3, <3>4, <3>5 DEF DirsKept, Keeps, Alive
    <3> QED BY <3>6, <3>7
  <2> QED BY <2>2, <2>5, <2>6
<1>3. CASE Result(p)
  <2> DEFINE r == [proc[p] EXCEPT !.run = 0]
  <2>1. 0 \in Nat OBVIOUS
  <2>2. r \in ProcRec /\ r.run = 0 /\ Keeps(r, proc[p]) BY <1>1, <2>1 DEF ProcRec, Keeps
  <2>3. proc' = [proc EXCEPT ![p] = r] BY <1>3 DEF Result
  <2> HIDE DEF r
  <2> QED BY <2>2, <2>3, RunPut
<1>4. CASE Suspend(p) BY <1>4, SameRuns DEF Suspend
<1>5. CASE Exit(p)
  <2> DEFINE k == proc[p].kernel
             r == [proc[p] EXCEPT !.state = "dead", !.run = 0]
             dead == [proc EXCEPT ![p] = r]
  <2>1. r \in ProcRec /\ r.run = 0 /\ Keeps(r, proc[p])
    <3>1. 0 \in Nat OBVIOUS
    <3> QED BY <1>1, <3>1 DEF ProcRec, Keeps
  <2>2. proc' = dead \/ (kernel[k].proc # 0 /\ HandleExit(k, FALSE, dead)) BY <1>5 DEF Exit
  <2> HIDE DEF r
  <2>3. CASE proc' = dead BY <2>1, <2>3, RunPut
  <2>4. CASE kernel[k].proc # 0 /\ HandleExit(k, FALSE, dead)
    <3>1. /\ dead \in Seq(ProcRec) /\ Len(dead) = Len(proc) /\ dead[p] = r
          /\ \A x \in 1 .. Len(proc) : x # p => dead[x] = proc[x]
      BY <1>1, <2>1, Put
    <3> HIDE DEF dead
    <3>2. \A x \in Procs : dead[x].run \in {0, proc[x].run} /\ Keeps(dead[x], proc[x])
      BY <2>1, <3>1 DEF Procs, Keeps
    <3> QED BY <1>1, <2>4, <3>1, <3>2, RunExit
  <2> QED BY <2>2, <2>3, <2>4
<1>6. CASE ProtocolError(p)
  <2>1. kernel[proc[p].kernel].proc = p /\ HandleExit(proc[p].kernel, TRUE, proc)
    BY <1>6 DEF ProtocolError
  <2>2. p # 0 BY <1>1
  <2>3. \A x \in Procs : Keeps(proc[x], proc[x]) BY DEF Keeps
  <2> QED BY <1>1, <2>1, <2>2, <2>3, RunExit
<1> QED BY <1>2, <1>3, <1>4, <1>5, <1>6 DEF ProcessEvent

LEMMA DirRuns ==
  ASSUME Typed, NEW n \in Calls, DirResult(n)
  PROVE  RunsKept /\ DirsKept
<1> DEFINE p == call[n].proc
           r == [proc[p] EXCEPT !.dirs = proc[p].dirs \cup {call[n].id}]
<1>1. proc' = [proc EXCEPT ![p] = r] BY DEF DirResult
<1>2. CASE p \in Procs
  <2>1. proc[p] \in ProcRec /\ call[n].id \in Ids \cup Dirs \cup {"none"}
    BY <1>2, Proc, Call DEF CallRec
  <2>2. r \in ProcRec /\ r.run = proc[p].run /\ Keeps(r, proc[p])
    BY <1>2, <2>1 DEF ProcRec, Keeps
  <2> HIDE DEF r, p
  <2> QED BY <1>1, <1>2, <2>2, RunPut
<1>3. CASE p \notin Procs
  <2>1. proc' = proc BY <1>1, <1>3 DEF Typed, Procs
  <2> QED BY <2>1, SameRuns
<1> QED BY <1>2, <1>3

LEMMA NextRuns ==
  ASSUME Typed, Next
  PROVE  DirsKept /\ (RunsKept \/ \E n \in Calls : Send(n))
<1>1. CASE Command BY <1>1, CommandRuns
<1>2. CASE Microtask
  <2>1. CASE ClearStartup BY <2>1, SameRuns DEF ClearStartup
  <2> QED BY <1>2, <2>1, ResumeRuns, StartUpRuns DEF Microtask
<1>3. ASSUME NEW p \in Procs, ProcessEvent(p) PROVE RunsKept /\ DirsKept BY <1>3, EventRuns
<1>4. ASSUME NEW n \in Calls, DirResult(n) PROVE RunsKept /\ DirsKept BY <1>4, DirRuns
<1>5. ASSUME NEW n \in Calls, Timeout(n) PROVE RunsKept /\ DirsKept
  <2>1. \E c : DropChild(c) BY <1>5 DEF Timeout
  <2> QED BY <2>1, RunDrop
<1>6. ASSUME NEW k \in Kernels, MetadataFails(k) PROVE RunsKept /\ DirsKept
  BY <1>6, SameRuns DEF MetadataFails
<1>7. ASSUME NEW k \in Kernels, KillDeadline(k) PROVE RunsKept /\ DirsKept BY <1>7, SameRuns DEF KillDeadline
<1> QED BY <1>1, <1>2, <1>3, <1>4, <1>5, <1>6, <1>7 DEF Next
-----------------------------------------------------------------------------
IInv == Typed /\ KInv /\ Victims /\ PInv

LEMMA InitInv ==
  ASSUME Init
  PROVE  IInv
<1>1. /\ call = <<>> /\ kernel = <<>> /\ proc = <<>> /\ Calls = {} /\ Kernels = {} /\ Procs = {}
      /\ Len(call) = 0 /\ Len(kernel) = 0 /\ Len(proc) = 0
  BY DEF Init, Calls, Kernels, Procs
<1>2. /\ active = 0 /\ child = 0 /\ startup = 0 /\ termination = 0
      /\ generation = 0 /\ shuttingDown = FALSE /\ metadata = FALSE
      /\ moduleDirs = {} /\ reading = FALSE
  BY DEF Init
<1>3. Typed
  <2>1. /\ call \in Seq(CallsFor(Len(kernel), Len(proc)))
        /\ kernel \in Seq(KernelsFor(Len(proc)))
        /\ proc \in Seq(ProcsFor(Len(kernel), Len(call)))
    BY <1>1
  <2>2. 0 \in 0 .. Len(call) /\ 0 \in 0 .. Len(kernel) /\ 0 \in Nat BY <1>1
  <2>3. shuttingDown \in BOOLEAN /\ metadata \in BOOLEAN /\ moduleDirs \subseteq Dirs
    BY <1>2
  <2>4. ManagerOK BY <1>2, <2>2, <2>3 DEF ManagerOK
  <2> QED BY <2>1, <2>4 DEF Typed
<1>4. KInv
  BY <1>1, <1>2 DEF KInv, Held, PhasesOK, Owned, Patient, Waiters, Drops, Broken
<1>5. PInv /\ Victims BY <1>1 DEF PInv, Fresh, Gone, Late, Victims
<1> QED BY <1>3, <1>4, <1>5 DEF IInv

LEMMA NextInv ==
  ASSUME IInv, Orderly, [Next]_vars
  PROVE  IInv'
<1>1. CASE Next BY <1>1, NextStep, KInvStep, VictimsStep, PInvStep DEF IInv
<1>2. CASE UNCHANGED vars
  <2>1. UNCHANGED <<call, kernel, proc, active, child, startup, termination, generation,
                    shuttingDown, metadata, moduleDirs, reading>>
    BY <1>2 DEF vars, manager
  <2>2. Typed' BY <2>1 DEF IInv, Typed, ManagerOK
  <2>3. Held' BY <2>1 DEF IInv, KInv, Held, Alive, Procs, Kernels
  <2>4. PhasesOK' BY <2>1 DEF IInv, KInv, PhasesOK, Busy, Alive, Procs, Kernels, Calls
  <2>5. Broken'
    BY <2>1 DEF IInv, KInv, Broken, Bereft, Catcher, Doomed, Terminated, Busy, Procs, Kernels, Calls
  <2>6. Owned' /\ Patient'
    BY <2>1 DEF IInv, KInv, Owned, Patient, Busy, Procs, Kernels, Calls, Terminated
  <2>7. Waiters' BY <2>1 DEF IInv, KInv, Waiters, Busy, Procs, Kernels, Calls, Terminated
  <2>8. Drops'
    BY <2>1 DEF IInv, KInv, Drops, Doomed, Catcher, Dropper, Mover, Terminated, Busy, Procs,
                Kernels, Calls
  <2>9. PInv'
    BY <2>1 DEF IInv, PInv, Fresh, Gone, Late, Calls, Kernels, Procs, Alive, Busy, Doomed,
                Catcher, Dropper, Mover, Terminated, Old
  <2>10. Victims' BY <2>1 DEF IInv, Victims, Kernels
  <2> QED BY <2>2, <2>3, <2>4, <2>5, <2>6, <2>7, <2>8, <2>9, <2>10 DEF IInv, KInv
<1> QED BY <1>1, <1>2

LEMMA OneAlive ==
  ASSUME Typed, KInv
  PROVE  OneKernel
<1> SUFFICES ASSUME NEW p \in Procs, NEW q \in Procs, Alive(p), Alive(q) PROVE p = q
  BY DEF OneKernel
<1>1. /\ proc[p].kernel \in Kernels /\ Busy(proc[p].kernel)
      /\ proc[q].kernel \in Kernels /\ Busy(proc[q].kernel)
  BY AliveFacts
<1>2. proc[p].kernel = proc[q].kernel
  <2>1. CASE child # 0 BY <1>1, <2>1 DEF KInv, Owned
  <2>2. CASE startup # 0 BY <1>1, <2>2 DEF KInv, Owned
  <2>3. CASE child = 0 /\ startup = 0
    <3>1. proc[p].kernel # 0 /\ proc[q].kernel # 0 BY <1>1 DEF Kernels
    <3> QED BY <1>1, <2>3, <3>1 DEF KInv, Owned
  <2> QED BY <2>1, <2>2, <2>3
<1>3. p # 0 /\ q # 0 BY DEF Procs
<1> QED BY <1>1, <1>2, <1>3 DEF KInv, Held

LEMMA RunsInTime ==
  ASSUME IInv, Next
  PROVE  \A p \in Procs' :
           proc'[p].run # 0 /\ (p \in Procs => proc'[p].run # proc[p].run) =>
             ~call[proc'[p].run].settled
<1>1. CASE RunsKept BY <1>1 DEF RunsKept
<1>2. ASSUME NEW n \in Calls, Send(n)
      PROVE  \A p \in Procs' :
               proc'[p].run # 0 /\ (p \in Procs => proc'[p].run # proc[p].run) =>
                 ~call[proc'[p].run].settled
  <2> DEFINE q == kernel[call[n].at].proc
  <2>1. CASE UNCHANGED proc BY <2>1 DEF Procs
  <2>2. CASE /\ call[n].kind = "js" /\ proc' = [proc EXCEPT ![q].run = n]
             /\ proc[call[n].proc].ready = "resolved" /\ call[n].pc = "ready"
    <3>1. ~call[n].settled BY <2>2 DEF IInv, PInv, Late
    <3>2. Procs' = Procs /\ \A p \in Procs : p # q => proc'[p] = proc[p]
      BY <2>2 DEF IInv, Typed, Procs
    <3>3. q \in Procs => proc'[q].run = n
      <4>1. q \in Procs => proc[q] \in ProcRec BY Proc DEF IInv
      <4> QED BY <2>2, <4>1, SMTT(30) DEF IInv, Typed, Procs, ProcRec
    <3> QED BY <3>1, <3>2, <3>3
  <2>3. UNCHANGED proc
        \/ /\ call[n].kind = "js" /\ proc' = [proc EXCEPT ![q].run = n]
           /\ proc[call[n].proc].ready = "resolved" /\ call[n].pc = "ready"
    BY <1>2 DEF Send
  <2> HIDE DEF q
  <2> QED BY <2>1, <2>2, <2>3
<1> QED BY <1>1, <1>2, NextRuns DEF IInv

\* The invariant holds: a process that is alive is answered for by the child, by
\* a startup that is being undone or by the last termination, by one of them only.
THEOREM IInvHolds ==
  ASSUME Orderly
  PROVE  Spec => []IInv
<1>1. Init => IInv BY InitInv
<1>2. IInv /\ [Next]_vars => IInv' BY NextInv
<1> QED BY <1>1, <1>2, PTL DEF Spec

\* There are never two kernel processes, whatever is cancelled, timed out, reset
\* or failed in between (awaitTermination at the head of ensureChild), as long as
\* Orderly holds: the client waits, a killed process goes, and no idle kernel
\* breaks the protocol.  orphan_kernel.cfg shows two of them without the last.
THEOREM OneKernelHolds ==
  ASSUME Orderly
  PROVE  Spec => []OneKernel
<1>1. IInv => OneKernel BY OneAlive DEF IInv
<1>2. Spec => []IInv BY IInvHolds
<1> QED BY <1>1, <1>2, PTL

\* When js_reset has returned, no process from before it is left (restart waits
\* for the last termination, for the child's, and for a startup that fails).
THEOREM ResetFreshHolds ==
  ASSUME Orderly
  PROVE  Spec => []ResetFresh
<1>1. IInv => ResetFresh
  <2> SUFFICES ASSUME IInv, NEW n \in Calls, call[n].kind = "reset", call[n].answer = "ok",
                      NEW p \in 1 .. call[n].since
               PROVE  ~Alive(p)
    BY DEF ResetFresh
  <2>1. call[n].since \in Nat /\ call[n].since <= Len(proc) /\ Len(proc) \in Nat
    BY Sizes, Call DEF IInv, CallOK, CallRec
  <2>2. p \in Procs BY <2>1 DEF Procs
  <2> QED BY <2>2 DEF IInv, PInv, Fresh, Old
<1>2. Spec => []IInv BY IInvHolds
<1> QED BY <1>1, <1>2, PTL

\* When close has returned, no process is left (it waits for the startup, then
\* for the termination that is last by then).
THEOREM NothingLeftHolds ==
  ASSUME Orderly
  PROVE  Spec => []NothingLeft
<1>1. IInv => NothingLeft BY DEF IInv, PInv, Gone, NothingLeft
<1>2. Spec => []IInv BY IInvHolds
<1> QED BY <1>1, <1>2, PTL

\* Code is never sent to a kernel once its call was cancelled, timed out, reset
\* or shut down, although nothing is checked between the handshake and the send:
\* whoever settled the call has dropped the kernel, or is about to.
THEOREM NothingRunsLateHolds ==
  ASSUME Orderly
  PROVE  Spec => NothingRunsLate
<1>1. IInv /\ [Next]_vars =>
        [\A p \in Procs' :
           proc'[p].run # 0 /\ (p \in Procs => proc'[p].run # proc[p].run) =>
             ~call[proc'[p].run].settled]_vars
  BY RunsInTime
<1>2. Spec => []IInv BY IInvHolds
<1> QED BY <1>1, <1>2, PTL DEF Spec, NothingRunsLate
-----------------------------------------------------------------------------
\* The calls c have the answers that the present ones have.
Answering(c) ==
  /\ Len(c) = Len(call)
  /\ \A m \in Calls : /\ c[m].kind = call[m].kind /\ c[m].id = call[m].id
                      /\ c[m].answer = call[m].answer

\* The active call has been answered.
AnsweredActive(c) ==
  /\ active # 0 /\ Len(c) = Len(call) /\ c[active].answer # "none"
  /\ \A m \in Calls : /\ c[m].kind = call[m].kind /\ c[m].id = call[m].id
                      /\ m # active => c[m].answer = call[m].answer

\* Only a call that is not js has been answered, and no directory confirmed.
AnsweredOther(c) ==
  /\ Len(c) = Len(call)
  /\ \A m \in Calls : /\ c[m].kind = call[m].kind /\ c[m].id = call[m].id
                      /\ call[m].kind = "js" => c[m].answer = call[m].answer
                      /\ call[m].kind = "dir" /\ c[m].answer = "ok" => call[m].answer = "ok"

SlotKept ==
  \/ active' = active /\ AnsweredOther(call')
  \/ active' = 0 /\ AnsweredActive(call')

\* The calls stay what they were, and none of them confirms a directory.
OldAnswers ==
  /\ Calls \subseteq Calls'
  /\ \A m \in Calls :
       /\ call'[m].kind = call[m].kind /\ call'[m].id = call[m].id
       /\ call[m].kind = "dir" /\ call'[m].answer = "ok" => call[m].answer = "ok"
\* Nor is there a new call for one.
AnswersKept == OldAnswers /\ \A m \in Calls' \ Calls : call'[m].kind # "dir"

LEMMA SlotAnswers ==
  ASSUME Typed, SlotKept
  PROVE  AnswersKept
<1>1. Calls' = Calls /\ (active # 0 => call[active].kind = "js")
  BY Sizes DEF SlotKept, AnsweredOther, AnsweredActive, Calls
<1> QED BY <1>1 DEF SlotKept, AnsweredOther, AnsweredActive, AnswersKept, OldAnswers

LEMMA SlotStep ==
  ASSUME Typed, SlotHeld, SlotKept
  PROVE  SlotHeld' /\ AnswersKept
<1>1. Calls' = Calls BY DEF SlotKept, AnsweredOther, AnsweredActive, Calls
<1>2. AnswersKept BY SlotAnswers
<1>3. CASE active' = active /\ AnsweredOther(call')
  BY <1>1, <1>2, <1>3 DEF AnsweredOther, SlotHeld
<1>4. CASE active' = 0 /\ AnsweredActive(call')
  <2>1. \A n \in Calls : n # 0 BY DEF Calls
  <2> QED BY <1>1, <1>2, <1>4, <2>1 DEF AnsweredActive, SlotHeld
<1> QED BY <1>3, <1>4 DEF SlotKept

LEMMA SameAnswers ==
  ASSUME UNCHANGED <<call, active>>
  PROVE  SlotKept
BY DEF SlotKept, AnsweredOther, Calls

LEMMA AnswerPut ==
  ASSUME Typed, NEW n \in Calls, NEW r, r.kind = call[n].kind, r.id = call[n].id,
         r.answer = call[n].answer, NEW c, c = [call EXCEPT ![n] = r]
  PROVE  Answering(c)
<1>1. /\ Len(c) = Len(call) /\ c[n] = r /\ \A m \in Calls : m # n => c[m] = call[m]
  BY DEF Typed, Calls
<1> QED BY <1>1 DEF Answering

LEMMA AtAnswers ==
  ASSUME Typed, NEW n \in Calls, NEW pc, NEW w
  PROVE  Answering(At(n, pc, w))
<1> DEFINE r == [call[n] EXCEPT !.pc = pc, !.watch = w]
<1>1. call[n] \in CallRec BY Call
<1>2. r.kind = call[n].kind /\ r.id = call[n].id /\ r.answer = call[n].answer BY <1>1 DEF CallRec
<1>3. At(n, pc, w) = [call EXCEPT ![n] = r] BY DEF At
<1> HIDE DEF r
<1> QED BY <1>2, <1>3, AnswerPut

LEMMA AtAtAnswers ==
  ASSUME Typed, NEW n \in Calls, NEW pc, NEW w, NEW a
  PROVE  /\ Answering([At(n, pc, w) EXCEPT ![n].at = a])
         /\ Answering([At(n, pc, w) EXCEPT ![n].proc = a])
<1> DEFINE r == Moved(call[n], pc, w, a, call[n].proc)
           s == Moved(call[n], pc, w, call[n].at, a)
<1>1. call[n] \in CallRec BY Call
<1>2. /\ r.kind = call[n].kind /\ r.id = call[n].id /\ r.answer = call[n].answer
      /\ s.kind = call[n].kind /\ s.id = call[n].id /\ s.answer = call[n].answer
  BY <1>1 DEF CallRec, Moved
<1>3. [At(n, pc, w) EXCEPT ![n].at = a] = [call EXCEPT ![n] = r] BY AtFormAt
<1>4. [At(n, pc, w) EXCEPT ![n].proc = a] = [call EXCEPT ![n] = s] BY AtFormProc
<1> HIDE DEF r, s
<1> QED BY <1>2, <1>3, <1>4, AnswerPut

LEMMA RejectedAnswers ==
  ASSUME Typed, NEW k, NEW c \in Seq(CallRec)
  PROVE  /\ Len(Rejected(c, k)) = Len(c)
         /\ \A m \in 1 .. Len(c) : /\ Rejected(c, k)[m].kind = c[m].kind
                                   /\ Rejected(c, k)[m].id = c[m].id
                                   /\ Rejected(c, k)[m].answer = c[m].answer
<1>1. \A m \in 1 .. Len(c) : /\ [c[m] EXCEPT !.pc = "threw"].kind = c[m].kind
                             /\ [c[m] EXCEPT !.pc = "threw"].id = c[m].id
                             /\ [c[m] EXCEPT !.pc = "threw"].answer = c[m].answer
  <2> SUFFICES ASSUME NEW m \in 1 .. Len(c)
               PROVE  /\ [c[m] EXCEPT !.pc = "threw"].kind = c[m].kind
                      /\ [c[m] EXCEPT !.pc = "threw"].id = c[m].id
                      /\ [c[m] EXCEPT !.pc = "threw"].answer = c[m].answer
    OBVIOUS
  <2>1. c[m] \in CallRec OBVIOUS
  <2> QED BY <2>1 DEF CallRec
<1>2. /\ Len(Rejected(c, k)) = Len(c)
      /\ \A m \in 1 .. Len(c) :
           Rejected(c, k)[m] = IF c[m].at = k /\ c[m].pc = "running"
                                 THEN [c[m] EXCEPT !.pc = "threw"] ELSE c[m]
  BY RejectedFacts
<1> QED BY <1>1, <1>2

\* What dropping the child does to the answers.
LEMMA DropAnswers ==
  ASSUME Typed, NEW c \in Seq(CallRec), DropChild(c)
  PROVE  /\ Len(call') = Len(c)
         /\ \A m \in 1 .. Len(c) : /\ call'[m].kind = c[m].kind /\ call'[m].id = c[m].id
                                   /\ call'[m].answer = c[m].answer
<1>1. call' = c \/ \E k : call' = Rejected(c, k) BY DEF DropChild, Terminate
<1> QED BY <1>1, RejectedAnswers

LEMMA CallsTyped ==
  ASSUME Typed
  PROVE  call \in Seq(CallRec)
<1>1. CallsFor(Len(kernel), Len(proc)) \subseteq CallRec BY DEF CallsFor
<1> QED BY <1>1, Wider DEF Typed

\* The active call is answered: what becomes of all of them.
LEMMA ActiveAnswer ==
  ASSUME Typed, active # 0, NEW answer \in Answers \ {"none"}, NEW b, Answering(b), b \in Seq(CallRec)
  PROVE  /\ AnsweredActive(Settled(b, active, answer))
         /\ Settled(b, active, answer) \in Seq(CallRec)
<1> DEFINE r == Cleared(b[active], answer)
<1>1. active \in Calls /\ active \in 1 .. Len(b) BY Sizes DEF Answering, Calls
<1>2. b[active] \in CallRec /\ answer \in Answers BY <1>1
<1>3. r \in CallRec /\ r.kind = b[active].kind /\ r.id = b[active].id /\ r.answer = answer
  BY <1>2, ClearedFacts
<1>4. PICK c : c = Settled(b, active, answer) OBVIOUS
<1>5. c = [b EXCEPT ![active] = r] BY <1>4, SettledFacts
<1> HIDE DEF r
<1>6. /\ c \in Seq(CallRec) /\ Len(c) = Len(b) /\ c[active] = r
      /\ \A m \in 1 .. Len(b) : m # active => c[m] = b[m]
  BY <1>1, <1>3, <1>5, Put
<1> QED BY <1>1, <1>3, <1>4, <1>6 DEF Answering, AnsweredActive, Calls

LEMMA EndedAnswers ==
  ASSUME Typed, NEW n \in Calls
  PROVE  Answering(Ended(call, n)) /\ Ended(call, n) \in Seq(CallRec)
<1> DEFINE r == [call[n] EXCEPT !.pc = "done"]
<1>1. call[n] \in CallRec /\ "done" \in Places BY Call DEF Places
<1>2. /\ r \in CallRec /\ r.kind = call[n].kind /\ r.id = call[n].id
      /\ r.answer = call[n].answer
  BY <1>1 DEF CallRec
<1>3. PICK c : c = Ended(call, n) OBVIOUS
<1>4. c = [call EXCEPT ![n] = r] BY <1>3 DEF Ended
<1> HIDE DEF r
<1>5. c \in Seq(CallRec) BY <1>2, <1>4, CallsTyped, Put DEF Calls
<1> QED BY <1>2, <1>3, <1>4, <1>5, AnswerPut

LEMMA FinishSlot ==
  ASSUME Typed, NEW n \in Calls, NEW answer \in Answers \ {"none"}, Finish(n, answer)
  PROVE  SlotKept
<1>1. CASE active = n /\ call' = Settled(Ended(call, n), n, answer) /\ active' = 0
  <2>1. PICK b : b = Ended(call, n) OBVIOUS
  <2>2. Answering(b) /\ b \in Seq(CallRec) BY <2>1, EndedAnswers
  <2>3. active # 0 BY <1>1 DEF Calls
  <2>4. AnsweredActive(Settled(b, active, answer)) BY <2>2, <2>3, ActiveAnswer
  <2> QED BY <1>1, <2>1, <2>4 DEF SlotKept
<1>2. CASE call' = Ended(call, n) /\ UNCHANGED active
  BY <1>2, EndedAnswers DEF SlotKept, AnsweredOther, Answering
<1> QED BY <1>1, <1>2 DEF Finish

\* What Return makes of the calls.
LEMMA ReturnFacts ==
  ASSUME Typed, NEW n \in Calls, NEW answer, Return(n, answer)
  PROVE  /\ Len(call') = Len(call) /\ Calls' = Calls /\ call'[n].answer = answer
         /\ \A m \in Calls : /\ call'[m].kind = call[m].kind /\ call'[m].id = call[m].id
                             /\ m # n => call'[m].answer = call[m].answer
<1> DEFINE b == Ended(call, n)
           r == Cleared(b[n], answer)
<1>1. /\ b \in Seq(CallRec) /\ Len(b) = Len(call) /\ n \in 1 .. Len(b)
      /\ \A m \in Calls : /\ b[m].kind = call[m].kind /\ b[m].id = call[m].id
                          /\ b[m].answer = call[m].answer
  BY EndedAnswers DEF Answering, Calls
<1> HIDE DEF b
<1>2. b[n] \in CallRec BY <1>1
<1>3. r.kind = b[n].kind /\ r.id = b[n].id /\ r.answer = answer BY <1>2 DEF Cleared, CallRec
<1>4. call' = [b EXCEPT ![n] = r] BY SettledFacts DEF Return, b
<1> HIDE DEF r
<1>5. /\ Len(call') = Len(b) /\ call'[n] = r /\ \A m \in 1 .. Len(b) : m # n => call'[m] = b[m]
  BY <1>1, <1>4
<1> QED BY <1>1, <1>3, <1>5 DEF Calls

LEMMA ReturnSlot ==
  ASSUME Typed, NEW n \in Calls, NEW answer, Return(n, answer), call[n].kind # "js",
         answer = "ok" => call[n].kind # "dir", UNCHANGED active
  PROVE  SlotKept
BY ReturnFacts DEF SlotKept, AnsweredOther

\* A call more: the calls c, and d, which takes the slot if it is a js call that waits.
LEMMA MoreSlot ==
  ASSUME Typed, SlotHeld, NEW c \in Seq(CallRec), NEW d \in CallRec,
         Len(call') = Len(c) + 1, call'[Len(c) + 1].kind = d.kind,
         call'[Len(c) + 1].answer = d.answer,
         \A m \in 1 .. Len(c) : /\ call'[m].kind = c[m].kind /\ call'[m].id = c[m].id
                                /\ call'[m].answer = c[m].answer,
         \/ /\ d.kind # "js" \/ d.answer # "none"
            /\ \/ active' = active /\ AnsweredOther(c)
               \/ active' = 0 /\ AnsweredActive(c)
         \/ /\ d.kind = "js" /\ d.answer = "none"
            /\ active = 0 /\ active' = Len(call) + 1 /\ AnsweredOther(c)
  PROVE  SlotHeld' /\ OldAnswers /\ (d.kind # "dir" => AnswersKept)
<1> DEFINE N == Len(call) + 1
<1>1. Len(c) = Len(call) /\ Len(call) \in Nat /\ active \in 0 .. Len(call)
  BY Sizes DEF AnsweredOther, AnsweredActive
<1>2. \A m \in Calls' : (m \in Calls /\ m # 0 /\ m # N) \/ m = N BY <1>1 DEF Calls
<1>3. \A m \in Calls : /\ call'[m].kind = c[m].kind /\ call'[m].id = c[m].id
                       /\ call'[m].answer = c[m].answer
  BY <1>1 DEF Calls
<1>4. call'[N].kind = d.kind /\ call'[N].answer = d.answer /\ active # N /\ N # 0 BY <1>1
<1>8. Calls \subseteq Calls' /\ (active # 0 => call[active].kind = "js") BY <1>1, Sizes DEF Calls
<1> HIDE DEF N
<1>9. OldAnswers
  <2>1. AnsweredOther(c) => OldAnswers BY <1>3, <1>8 DEF OldAnswers, AnsweredOther
  <2>2. AnsweredActive(c) => OldAnswers BY <1>3, <1>8 DEF OldAnswers, AnsweredActive
  <2> QED BY <2>1, <2>2
<1>10. d.kind # "dir" => AnswersKept BY <1>2, <1>4, <1>9 DEF AnswersKept
<1> SUFFICES SlotHeld' BY <1>9, <1>10
<1>5. CASE /\ d.kind # "js" \/ d.answer # "none"
           /\ active' = active /\ AnsweredOther(c)
  BY <1>2, <1>3, <1>4, <1>5 DEF SlotHeld, AnsweredOther
<1>6. CASE /\ d.kind # "js" \/ d.answer # "none"
           /\ active' = 0 /\ AnsweredActive(c)
  BY <1>2, <1>3, <1>4, <1>6 DEF SlotHeld, AnsweredActive
<1>7. CASE /\ d.kind = "js" /\ d.answer = "none"
           /\ active = 0 /\ active' = N /\ AnsweredOther(c)
  BY <1>2, <1>3, <1>4, <1>7 DEF SlotHeld, AnsweredOther
<1> QED BY <1>5, <1>6, <1>7 DEF N

LEMMA NoAnswers ==
  ASSUME Typed
  PROVE  AnsweredOther(call) /\ Answering(call) /\ call \in Seq(CallRec)
BY CallsTyped DEF AnsweredOther, Answering

LEMMA DropSlot ==
  ASSUME Typed, NEW c \in Seq(CallRec), DropChild(c),
         (active' = active /\ Answering(c)) \/ (active' = 0 /\ AnsweredActive(c))
  PROVE  SlotKept
<1>1. /\ Len(call') = Len(c) /\ Len(c) = Len(call)
      /\ \A m \in Calls : /\ call'[m].kind = c[m].kind /\ call'[m].id = c[m].id
                          /\ call'[m].answer = c[m].answer
  BY DropAnswers DEF Answering, AnsweredActive, Calls
<1>2. active # 0 => active \in Calls BY Sizes
<1>3. active' = active /\ Answering(c) => AnsweredOther(call')
  BY <1>1 DEF Answering, AnsweredOther
<1> QED BY <1>1, <1>2, <1>3 DEF SlotKept, AnsweredActive

\* What reset and close make of the calls and the slot.
LEMMA DismissSlot ==
  ASSUME Typed, NEW answer \in Answers \ {"none"},
         active' = IF Dismissed THEN 0 ELSE active,
         NEW c, c = IF Dismissed THEN Settled(call, active, answer) ELSE call
  PROVE  /\ c \in Seq(CallRec)
         /\ \/ active' = active /\ AnsweredOther(c)
            \/ active' = 0 /\ AnsweredActive(c)
BY NoAnswers, ActiveAnswer DEF Dismissed

LEMMA CommandSlot ==
  ASSUME Typed, SlotHeld, Command
  PROVE  SlotHeld' /\ (AnswersKept \/ (OldAnswers /\ \E d \in Dirs : AddNodeModuleDir(d)))
<1>0. Len(kernel) \in Nat /\ termination \in 0 .. Len(kernel) /\ startup \in 0 .. Len(kernel) BY Sizes
<1>1. ASSUME NEW id \in Ids, Execute(id) PROVE SlotHeld' /\ AnswersKept
  <2> DEFINE f == NewCall("js", id, "term", termination)
             e == [f EXCEPT !.pc = "done", !.settled = TRUE, !.answer = "cancelled"]
             g == [f EXCEPT !.timer = "armed"]
  <2>1. f \in CallRec /\ f.kind = "js" /\ f.answer = "none" BY <1>0, NewCallFacts
  <2>2. /\ e \in CallRec /\ e.kind = "js" /\ e.answer = "cancelled"
        /\ g \in CallRec /\ g.kind = "js" /\ g.answer = "none"
    BY <2>1 DEF CallRec, Places, Answers
  <2>3. /\ active = 0
        /\ \/ call' = Append(call, e) /\ active' = active
           \/ call' = Append(call, g) /\ active' = Len(call) + 1
    BY <1>1 DEF Execute
  <2> HIDE DEF e, g
  <2>4. CASE call' = Append(call, e) /\ active' = active
    BY <2>2, <2>4, NoAnswers, Add, MoreSlot
  <2>5. CASE call' = Append(call, g) /\ active' = Len(call) + 1
    BY <2>2, <2>3, <2>5, NoAnswers, Add, MoreSlot
  <2> QED BY <2>3, <2>4, <2>5
<1>2. ASSUME NEW id \in Ids, Cancel(id) PROVE SlotHeld' /\ AnswersKept
  <2>1. CASE UNCHANGED <<call, active>> BY <2>1, SameAnswers, SlotStep
  <2>2. CASE active # 0 /\ active' = 0 /\ DropChild(Settled(call, active, "cancelled"))
    <3>1. PICK c : c = Settled(call, active, "cancelled") OBVIOUS
    <3>2. AnsweredActive(c) /\ c \in Seq(CallRec) BY <2>2, <3>1, NoAnswers, ActiveAnswer DEF Answers
    <3>3. SlotKept BY <2>2, <3>1, <3>2, DropSlot
    <3> QED BY <3>3, SlotStep
  <2> QED BY <1>2, <2>1, <2>2 DEF Cancel
<1>3. ASSUME NEW d \in Dirs, AddNodeModuleDir(d) PROVE SlotHeld' /\ OldAnswers
  <2> DEFINE f == NewCall("dir", d, "term", termination)
             e == [f EXCEPT !.pc = "done", !.settled = TRUE, !.answer = "ok"]
  <2>1. f \in CallRec /\ f.kind = "dir" BY <1>0, NewCallFacts
  <2>2. e \in CallRec /\ e.kind = "dir" BY <2>1, ZenonT(40) DEF CallRec, Places, Answers
  <2>3. UNCHANGED active /\ (call' = Append(call, e) \/ call' = Append(call, f))
    BY <1>3 DEF AddNodeModuleDir
  <2> HIDE DEF e, f
  <2> QED BY <2>1, <2>2, <2>3, NoAnswers, Add, MoreSlot
<1>4. ASSUME Reset PROVE SlotHeld' /\ AnswersKept
  <2> DEFINE d == NewCall("reset", "none", "rterm", termination)
  <2>1. d \in CallRec /\ d.kind = "reset" BY <1>0, NewCallFacts
  <2>2. PICK c : c = IF Dismissed THEN Settled(call, active, "reset") ELSE call OBVIOUS
  <2>3. call' = Append(c, d) /\ active' = IF Dismissed THEN 0 ELSE active BY <1>4, <2>2 DEF Reset
  <2>4. /\ c \in Seq(CallRec)
        /\ \/ active' = active /\ AnsweredOther(c)
           \/ active' = 0 /\ AnsweredActive(c)
    BY <2>2, <2>3, DismissSlot DEF Answers
  <2> HIDE DEF d
  <2> QED BY <2>1, <2>3, <2>4, Add, MoreSlot
<1>5. ASSUME Close PROVE SlotHeld' /\ AnswersKept
  <2> DEFINE d == NewCall("close", "none", "cstart", startup)
  <2>1. d \in CallRec /\ d.kind = "close" BY <1>0, NewCallFacts
  <2>2. PICK c : c = IF Dismissed THEN Settled(call, active, "shutdown") ELSE call OBVIOUS
  <2>3. DropChild(Append(c, d)) /\ active' = IF Dismissed THEN 0 ELSE active
    BY <1>5, <2>2 DEF Close
  <2>4. /\ c \in Seq(CallRec)
        /\ \/ active' = active /\ AnsweredOther(c)
           \/ active' = 0 /\ AnsweredActive(c)
    BY <2>2, <2>3, DismissSlot DEF Answers
  <2> HIDE DEF d
  <2>5. PICK b : b = Append(c, d) OBVIOUS
  <2>6. /\ b \in Seq(CallRec) /\ Len(b) = Len(c) + 1 /\ b[Len(c) + 1] = d
        /\ \A m \in 1 .. Len(c) : b[m] = c[m]
    BY <2>1, <2>4, <2>5, Add
  <2>7. /\ Len(call') = Len(b)
        /\ \A m \in 1 .. Len(b) : /\ call'[m].kind = b[m].kind /\ call'[m].id = b[m].id
                                  /\ call'[m].answer = b[m].answer
    BY <2>3, <2>5, <2>6, DropAnswers
  <2>8. Len(c) \in Nat BY <2>4
  <2> QED BY <2>1, <2>4, <2>6, <2>7, <2>8, MoreSlot
<1> QED BY <1>1, <1>2, <1>3, <1>4, <1>5 DEF Command

LEMMA MovedSlot ==
  ASSUME Answering(call'), UNCHANGED active
  PROVE  SlotKept
BY DEF SlotKept, Answering, AnsweredOther

LEMMA MovedAtSlot ==
  ASSUME Typed, NEW n \in Calls, NEW pc, NEW w, NEW a, UNCHANGED active,
         \/ call' = [At(n, pc, w) EXCEPT ![n].at = a]
         \/ call' = [At(n, pc, w) EXCEPT ![n].proc = a]
  PROVE  SlotKept
<1>1. PICK c, d : /\ c = [At(n, pc, w) EXCEPT ![n].at = a]
                  /\ d = [At(n, pc, w) EXCEPT ![n].proc = a]
  OBVIOUS
<1>2. Answering([At(n, pc, w) EXCEPT ![n].at = a]) /\ Answering([At(n, pc, w) EXCEPT ![n].proc = a])
  BY AtAtAnswers, Zenon
<1>3. Answering(c) /\ Answering(d) BY <1>1, <1>2
<1>4. call' = c \/ call' = d BY <1>1
<1> QED BY <1>3, <1>4, MovedSlot

LEMMA ResumeSlot ==
  ASSUME Typed, NEW n \in Calls, Resume(n)
  PROVE  SlotKept
<1>0. call[n] \in CallRec /\ CallOK(call[n], Len(kernel), Len(proc)) BY Call
<1>1. CASE ResumeEnsureChild(n)
  <2>1. UNCHANGED active
        /\ (\/ \E pc, w : call' = At(n, pc, w)
            \/ \E pc, w, a : call' = [At(n, pc, w) EXCEPT ![n].at = a])
    BY <1>1 DEF ResumeEnsureChild
  <2>2. CASE \E pc, w : call' = At(n, pc, w) BY <2>1, <2>2, AtAnswers, MovedSlot
  <2>3. ASSUME NEW pc, NEW w, NEW a, call' = [At(n, pc, w) EXCEPT ![n].at = a] PROVE SlotKept
    BY <2>1, <2>3, MovedAtSlot
  <2> QED BY <2>1, <2>2, <2>3
<1>2. CASE ResumeStartup(n)
  <2>1. UNCHANGED active /\ \E pc, w : call' = At(n, pc, w)
    BY <1>2 DEF ResumeStartup, manager
  <2> QED BY <2>1, AtAnswers, MovedSlot
<1>3. CASE Start(n)
  <2>1. UNCHANGED active BY <1>3 DEF Start, manager
  <2>2. CASE \/ call[n].kind = "reset" /\ Return(n, "ok")
             \/ call[n].kind = "dir" /\ Return(n, "error")
    BY <2>1, <2>2, ReturnSlot
  <2>3. CASE call' = Ended(call, n) BY <2>1, <2>3, EndedAnswers, MovedSlot
  <2>4. CASE \E pc, w : call' = At(n, pc, w) BY <2>1, <2>4, AtAnswers, MovedSlot
  <2>5. ASSUME NEW pc, NEW w, NEW a, call' = [At(n, pc, w) EXCEPT ![n].proc = a] PROVE SlotKept
    BY <2>1, <2>5, MovedAtSlot
  <2> QED BY <1>3, <2>2, <2>3, <2>4, <2>5 DEF Start
<1>4. CASE Restart(n)
  <2>1. call[n].pc = "stopping" BY <1>4 DEF Restart
  <2> QED BY <1>0, <2>1 DEF CallOK
<1>5. CASE Send(n)
  <2>1. CASE UNCHANGED active /\ \E pc, w : call' = At(n, pc, w)
    BY <2>1, AtAnswers, MovedSlot
  <2>2. ASSUME NEW pc, NEW w, NEW a, UNCHANGED active,
               call' = [At(n, pc, w) EXCEPT ![n].proc = a]
        PROVE  SlotKept
    BY <2>2, MovedAtSlot
  <2>3. CASE Finish(n, "ok") BY <2>3, FinishSlot DEF Answers
  <2> QED BY <1>5, <2>1, <2>2, <2>3, SMTT(30) DEF Send
<1>6. CASE Catch(n)
  <2>1. CASE UNCHANGED active /\ call' = Ended(call, n) BY <2>1, EndedAnswers, MovedSlot
  <2>2. CASE UNCHANGED active /\ DropChild(At(n, "failing", child))
    <3>1. PICK c : c = At(n, "failing", child) OBVIOUS
    <3>2. Answering(c) /\ c \in Seq(CallRec)
      <4> DEFINE r == [call[n] EXCEPT !.pc = "failing", !.watch = child]
      <4>1. "failing" \in Places /\ child \in Nat BY Sizes DEF Places
      <4>2. r \in CallRec BY <1>0, <4>1 DEF CallRec
      <4>3. c = [call EXCEPT ![n] = r] BY <3>1, AtFacts
      <4> HIDE DEF r
      <4>4. c \in Seq(CallRec) BY <4>2, <4>3, CallsTyped, Put DEF Calls
      <4> QED BY <3>1, <4>4, AtAnswers
    <3> QED BY <2>2, <3>1, <3>2, DropSlot
  <2>3. CASE Finish(n, "error") BY <2>3, FinishSlot DEF Answers
  <2>4. CASE UNCHANGED active /\ call[n].kind # "js" /\ Return(n, "error") BY <2>4, ReturnSlot
  <2> QED BY <1>6, <2>1, <2>2, <2>3, <2>4 DEF Catch
<1>7. CASE Fail(n)
  <2>1. Finish(n, "error") BY <1>7 DEF Fail
  <2> QED BY <2>1, FinishSlot DEF Answers
<1>8. CASE ResumeRestart(n)
  <2>1. UNCHANGED active /\ call[n].kind = "reset" BY <1>0, <1>8 DEF ResumeRestart, CallOK
  <2>2. CASE Return(n, "error") BY <2>1, <2>2, ReturnSlot
  <2>3. CASE DropChild(At(n, "rstop", child))
    <3>1. PICK c : c = At(n, "rstop", child) OBVIOUS
    <3>2. Answering(c) /\ c \in Seq(CallRec)
      <4> DEFINE r == [call[n] EXCEPT !.pc = "rstop", !.watch = child]
      <4>1. "rstop" \in Places /\ child \in Nat BY Sizes DEF Places
      <4>2. r \in CallRec BY <1>0, <4>1 DEF CallRec
      <4>3. c = [call EXCEPT ![n] = r] BY <3>1, AtFacts
      <4> HIDE DEF r
      <4>4. c \in Seq(CallRec) BY <4>2, <4>3, CallsTyped, Put DEF Calls
      <4> QED BY <3>1, <4>4, AtAnswers
    <3> QED BY <2>1, <2>3, <3>1, <3>2, DropSlot
  <2>4. CASE \E pc, w : call' = At(n, pc, w) BY <2>1, <2>4, AtAnswers, MovedSlot
  <2> QED BY <1>8, <2>2, <2>3, <2>4 DEF ResumeRestart
<1>9. CASE ResumeClose(n)
  <2>1. UNCHANGED active /\ call[n].kind = "close" BY <1>0, <1>9 DEF ResumeClose, CallOK
  <2>2. CASE \E answer : Return(n, answer) BY <2>1, <2>2, ReturnSlot
  <2>3. CASE \E pc, w : call' = At(n, pc, w) BY <2>1, <2>3, AtAnswers, MovedSlot
  <2> QED BY <1>9, <2>2, <2>3 DEF ResumeClose
<1>10. CASE ResumeTimeout(n)
  <2> DEFINE r == [call[n] EXCEPT !.timer = "off"]
             off == [call EXCEPT ![n].timer = "off"]
  <2>1. /\ r \in CallRec /\ r.kind = call[n].kind /\ r.id = call[n].id
        /\ r.answer = call[n].answer
    BY <1>0 DEF CallRec
  <2>2. off = [call EXCEPT ![n] = r] OBVIOUS
  <2>3. PICK b : b = off OBVIOUS
  <2>4. /\ b = [call EXCEPT ![n] = r]
        /\ \/ call' = b /\ UNCHANGED active
           \/ \E answer \in {"error", "timeout"} :
                active = n /\ active' = 0 /\ call' = Settled(b, n, answer)
    BY <1>10, <2>2, <2>3 DEF ResumeTimeout
  <2> HIDE DEF r, off
  <2>5. Answering(b) BY <2>1, <2>4, AnswerPut
  <2>6. b \in Seq(CallRec) BY <2>1, <2>4, CallsTyped, Put DEF Calls
  <2>7. CASE call' = b /\ UNCHANGED active BY <2>5, <2>7, MovedSlot
  <2>8. ASSUME NEW answer \in {"error", "timeout"},
               active = n, active' = 0, call' = Settled(b, n, answer)
        PROVE  SlotKept
    <3>1. active # 0 /\ answer \in Answers \ {"none"} BY <2>8 DEF Calls, Answers
    <3>2. AnsweredActive(Settled(b, active, answer)) BY <2>5, <2>6, <3>1, ActiveAnswer
    <3> QED BY <2>8, <3>2 DEF SlotKept
  <2> QED BY <2>4, <2>7, <2>8
<1> QED BY <1>1, <1>2, <1>3, <1>4, <1>5, <1>6, <1>7, <1>8, <1>9, <1>10 DEF Resume

LEMMA StartUpSlot ==
  ASSUME Typed, NEW k \in Kernels, StartUp(k)
  PROVE  SlotKept
<1>1. CASE Spawning(k) BY <1>1, SameAnswers DEF Spawning
<1>2. CASE Spawned(k)
  <2>1. UNCHANGED active /\ (call' = call \/ call' = Rejected(call, k)) BY <1>2 DEF Spawned
  <2>2. CASE call' = call BY <2>1, <2>2, SameAnswers
  <2>3. CASE call' = Rejected(call, k)
    <3>1. Answering(call') BY <2>3, NoAnswers, RejectedAnswers DEF Answering, Calls
    <3> QED BY <2>1, <3>1, MovedSlot
  <2> QED BY <2>1, <2>2, <2>3
<1>3. CASE StartFailed(k) BY <1>3, SameAnswers DEF StartFailed, manager
<1> QED BY <1>1, <1>2, <1>3 DEF StartUp

LEMMA EventSlot ==
  ASSUME Typed, NEW p \in Procs, ProcessEvent(p)
  PROVE  SlotKept
<1>1. CASE Handshake(p) BY <1>1, SameAnswers DEF Handshake, manager
<1>2. CASE Result(p)
  <2>1. CASE UNCHANGED <<call, active>> BY <2>1, SameAnswers
  <2>2. CASE proc[p].run # 0 /\ Finish(proc[p].run, "ok")
    <3>1. proc[p].run \in Calls BY <2>2, Sizes, Proc DEF Calls
    <3> QED BY <2>2, <3>1, FinishSlot DEF Answers
  <2> QED BY <1>2, <2>1, <2>2 DEF Result
<1>3. CASE Suspend(p)
  <2> DEFINE n == proc[p].run
             r == [call[n] EXCEPT !.suspended = ~call[n].suspended,
                                  !.timer = IF call[n].suspended THEN "armed" ELSE "off"]
  <2>1. n # 0 /\ n \in Calls BY <1>3, Sizes, Proc DEF Suspend, Calls
  <2>2. call[n] \in CallRec BY <2>1, Call
  <2>3. r.kind = call[n].kind /\ r.id = call[n].id /\ r.answer = call[n].answer
    BY <2>2 DEF CallRec
  <2>4. PICK c : c = call' OBVIOUS
  <2>5. c = [call EXCEPT ![n] = r] /\ UNCHANGED active BY <1>3, <2>4 DEF Suspend, manager
  <2> HIDE DEF r, n
  <2>6. Answering(c) BY <2>1, <2>3, <2>5, AnswerPut
  <2> QED BY <2>4, <2>5, <2>6, MovedSlot
<1>4. CASE Exit(p) \/ ProtocolError(p)
  <2>1. UNCHANGED active /\ (call' = call \/ \E k : call' = Rejected(call, k))
    BY <1>4 DEF Exit, ProtocolError, HandleExit, manager
  <2>2. CASE call' = call BY <2>1, <2>2, SameAnswers
  <2>3. CASE \E k : call' = Rejected(call, k)
    <3>1. Answering(call') BY <2>3, NoAnswers, RejectedAnswers DEF Answering, Calls
    <3> QED BY <2>1, <3>1, MovedSlot
  <2> QED BY <2>1, <2>2, <2>3
<1> QED BY <1>1, <1>2, <1>3, <1>4 DEF ProcessEvent

LEMMA TimerSlot ==
  ASSUME Typed, NEW n \in Calls, Timeout(n)
  PROVE  SlotKept
<1> DEFINE r == [call[n] EXCEPT !.settled = TRUE, !.timeoutPending = TRUE, !.timer = "waiting",
                                !.timerWatch = IF child # 0 THEN child ELSE termination]
<1>1. call[n] \in CallRec BY Call
<1>2. PICK w \in Nat : w = IF child # 0 THEN child ELSE termination BY Sizes
<1>3. r \in CallRec /\ r.kind = call[n].kind /\ r.id = call[n].id /\ r.answer = call[n].answer
  BY <1>1, <1>2 DEF CallRec
<1>4. PICK c : c = [call EXCEPT ![n] = r] OBVIOUS
<1>5. DropChild(c) /\ UNCHANGED active BY <1>4 DEF Timeout
<1> HIDE DEF r
<1>6. Answering(c) BY <1>3, <1>4, AnswerPut
<1>7. c \in Seq(CallRec) BY <1>3, <1>4, CallsTyped, Put DEF Calls
<1> QED BY <1>5, <1>6, <1>7, DropSlot

LEMMA DirSlot ==
  ASSUME Typed, SlotHeld, NEW n \in Calls, DirResult(n)
  PROVE  SlotHeld'
<1>1. call[n].kind = "dir" /\ Return(n, "ok") /\ UNCHANGED active BY DEF DirResult, manager
<1> QED BY <1>1, ReturnFacts DEF SlotHeld

LEMMA NextSlot ==
  ASSUME Typed, SlotHeld, Next
  PROVE  SlotHeld' /\ \/ AnswersKept
                      \/ OldAnswers /\ \E d \in Dirs : AddNodeModuleDir(d)
                      \/ \E n \in Calls : DirResult(n)
<1>1. CASE Command BY <1>1, CommandSlot
<1>2. CASE Microtask
  <2>1. CASE ClearStartup BY <2>1, SameAnswers, SlotStep DEF ClearStartup
  <2> QED BY <1>2, <2>1, ResumeSlot, StartUpSlot, SlotStep DEF Microtask
<1>3. CASE \E p \in Procs : ProcessEvent(p) BY <1>3, EventSlot, SlotStep
<1>4. CASE \E n \in Calls : DirResult(n) BY <1>4, DirSlot
<1>5. CASE \E n \in Calls : Timeout(n) BY <1>5, TimerSlot, SlotStep
<1>6. CASE \E k \in Kernels : MetadataFails(k) \/ KillDeadline(k)
  BY <1>6, SameAnswers, SlotStep DEF MetadataFails, KillDeadline, manager
<1> QED BY <1>1, <1>2, <1>3, <1>4, <1>5, <1>6 DEF Next

\* The slot for a js call is taken exactly as long as its caller waits (execute,
\* cancel, timeout, reset, close and finishExecution each clear it).
THEOREM SlotHeldHolds ==
  ASSUME Orderly
  PROVE  Spec => []SlotHeld
<1>1. Init => SlotHeld BY DEF Init, SlotHeld, Calls
<1>2. IInv /\ SlotHeld /\ [Next]_vars => SlotHeld'
  <2>1. Next /\ IInv /\ SlotHeld => SlotHeld' BY NextSlot DEF IInv
  <2>2. UNCHANGED vars /\ SlotHeld => SlotHeld' BY DEF vars, manager, SlotHeld, Calls
  <2> QED BY <2>1, <2>2
<1>3. Spec => []IInv BY IInvHolds
<1> QED BY <1>1, <1>2, <1>3, PTL DEF Spec
-----------------------------------------------------------------------------
\* Without a crash of an idle kernel no kernel is given a process again.
LEMMA NoRespawn ==
  ASSUME Typed, KInv, "idle_crash" \notin Faults
  PROVE  ~Respawning
<1> SUFFICES ASSUME NEW n \in Calls,
                    \/ call[n].pc = "stopping"
                    \/ call[n].pc = "got" /\ child = call[n].at /\ kernel[child].proc = 0
             PROVE  FALSE
  BY DEF Respawning
<1>1. call[n].pc # "stopping" /\ (call[n].pc = "got" => call[n].at # 0) BY Call DEF CallOK
<1>2. child # 0 /\ Bereft(child) /\ call[n].pc = "got" BY <1>1 DEF Bereft
<1> QED BY <1>2 DEF KInv, Broken

\* The first request for its directory.
First(n) ==
  /\ call[n].kind = "dir"
  /\ \A m \in 1 .. n - 1 : call[m].kind = "dir" => call[m].id # call[n].id
\* The manager knows the directories that have been asked for, and no other.
Asked == \A n \in Calls : call[n].kind = "dir" => call[n].id \in moduleDirs
Begun == \A d \in moduleDirs : \E n \in Calls : call[n].kind = "dir" /\ call[n].id = d
\* A process that lives has every directory that was confirmed.
Served ==
  \A p \in Procs : Alive(p) =>
    \A n \in Calls : First(n) /\ call[n].answer = "ok" => call[n].id \in proc[p].dirs
DirInv == Asked /\ Begun /\ Served

\* No step makes another request the first one.
LEMMA FirstKept ==
  ASSUME Typed, OldAnswers, NEW n \in Calls
  PROVE  First(n)' <=> First(n)
<1>1. 1 .. n - 1 \subseteq Calls BY Sizes DEF Calls
<1>2. /\ call'[n].kind = call[n].kind /\ call'[n].id = call[n].id
      /\ \A m \in 1 .. n - 1 : call'[m].kind = call[m].kind /\ call'[m].id = call[m].id
  BY <1>1 DEF OldAnswers
<1> QED BY <1>2 DEF First

\* What the directories gained so far say of the calls that were there.
LEMMA OldServed ==
  ASSUME Typed, OldAnswers, DirsKept, ~Respawning, DirInv,
         NEW p \in Procs', Alive(p)', NEW n \in Calls, First(n)', call'[n].answer = "ok"
  PROVE  call'[n].id \in proc'[p].dirs
<1>1. First(n) /\ call'[n].id = call[n].id /\ call[n].kind = "dir" /\ call[n].answer = "ok"
  BY FirstKept DEF First, OldAnswers
<1>2. CASE p \in Procs BY <1>1, <1>2 DEF DirsKept, DirInv, Served
<1>3. CASE p \notin Procs BY <1>1, <1>3 DEF DirsKept, DirInv, Asked
<1> QED BY <1>2, <1>3

LEMMA QuietDirs ==
  ASSUME Typed, AnswersKept, DirsKept, ~Respawning, DirInv, UNCHANGED moduleDirs
  PROVE  DirInv'
<1>1. OldAnswers BY DEF AnswersKept
<1>2. \A n \in Calls' : call'[n].kind = "dir" => n \in Calls BY DEF AnswersKept
<1>3. Asked' BY <1>1, <1>2 DEF OldAnswers, DirInv, Asked
<1>4. Begun' BY <1>1 DEF OldAnswers, DirInv, Begun
<1>5. Served'
  <2> SUFFICES ASSUME NEW p \in Procs', Alive(p)', NEW n \in Calls', First(n)',
                      call'[n].answer = "ok"
               PROVE  call'[n].id \in proc'[p].dirs
    BY DEF Served
  <2>1. n \in Calls BY <1>2 DEF First
  <2> QED BY <1>1, <2>1, OldServed
<1> QED BY <1>3, <1>4, <1>5 DEF DirInv

LEMMA AskedDirs ==
  ASSUME Typed, OldAnswers, DirsKept, ~Respawning, DirInv, NEW d \in Dirs, AddNodeModuleDir(d)
  PROVE  DirInv'
<1> DEFINE f == NewCall("dir", d, "term", termination)
           e == [f EXCEPT !.pc = "done", !.settled = TRUE, !.answer = "ok"]
           N == Len(call) + 1
<1>1. termination \in 0 .. Len(kernel) /\ Len(call) \in Nat BY Sizes
<1>2. f \in CallRec /\ f.kind = "dir" /\ f.answer = "none" /\ f.id = d
  <2>1. f \in CallRec /\ f.kind = "dir" /\ f.answer = "none" BY <1>1, NewCallFacts
  <2>2. f.id = d BY DEF NewCall
  <2> QED BY <2>1, <2>2
<1>3. e \in CallRec /\ e.kind = "dir" /\ e.id = d
  BY <1>2, ZenonT(40) DEF CallRec, Places, Answers
<1>4. PICK r \in CallRec : /\ call' = Append(call, r) /\ r.kind = "dir" /\ r.id = d
                           /\ r.answer = "ok" => d \in moduleDirs
  <2>1. call' = Append(call, IF d \in moduleDirs THEN e ELSE f) BY DEF AddNodeModuleDir
  <2> HIDE DEF e, f
  <2>2. CASE d \in moduleDirs BY <1>3, <2>1, <2>2
  <2>3. CASE d \notin moduleDirs BY <1>2, <2>1, <2>3
  <2> QED BY <2>2, <2>3
<1>5. moduleDirs' = moduleDirs \cup {d} BY DEF AddNodeModuleDir
<1> HIDE DEF e, f
<1>6. /\ Len(call') = N /\ call'[N] = r /\ \A m \in Calls : call'[m] = call[m]
  BY <1>4, CallsTyped, Add DEF Calls
<1>7. /\ Calls' = Calls \cup {N} /\ N \notin Calls /\ Calls = 1 .. N - 1
  BY <1>1, <1>6 DEF Calls
<1> HIDE DEF N
<1>8. Asked' BY <1>4, <1>5, <1>6, <1>7 DEF DirInv, Asked
<1>9. Begun'
  <2> SUFFICES ASSUME NEW g \in moduleDirs'
               PROVE  \E n \in Calls' : call'[n].kind = "dir" /\ call'[n].id = g
    BY DEF Begun
  <2>1. CASE g = d BY <1>4, <1>6, <1>7, <2>1
  <2>2. CASE g \in moduleDirs BY <1>6, <1>7, <2>2 DEF DirInv, Begun
  <2> QED BY <1>5, <2>1, <2>2
<1>10. Served'
  <2> SUFFICES ASSUME NEW p \in Procs', Alive(p)', NEW n \in Calls', First(n)',
                      call'[n].answer = "ok"
               PROVE  call'[n].id \in proc'[p].dirs
    BY DEF Served
  <2>1. CASE n \in Calls BY <2>1, OldServed
  <2>2. CASE n = N
    <3>1. PICK m \in Calls : call[m].kind = "dir" /\ call[m].id = d
      BY <1>4, <1>6, <2>2 DEF DirInv, Begun
    <3>2. m \in 1 .. n - 1 /\ call'[m] = call[m] /\ call'[n].id = d
      BY <1>4, <1>6, <1>7, <2>2, <3>1
    <3> QED BY <3>1, <3>2 DEF First
  <2> QED BY <1>7, <2>1, <2>2
<1> QED BY <1>8, <1>9, <1>10 DEF DirInv

\* The process that answers is the one that lives, and it has the directory now.
LEMMA ServedDirs ==
  ASSUME Typed, KInv, DirInv, NEW n \in Calls, DirResult(n)
  PROVE  DirInv'
<1> DEFINE q == call[n].proc
           r == [proc[q] EXCEPT !.dirs = @ \cup {call[n].id}]
<1>1. /\ call[n].pc = "running" /\ proc[q].state = "up" /\ UNCHANGED moduleDirs
      /\ Return(n, "ok")
  BY DEF DirResult, manager
<1>2. q \in Procs
  <2>1. q \in 1 .. Len(proc) BY <1>1, Call DEF CallOK
  <2> QED BY <2>1 DEF Procs
<1>3. Alive(q) BY <1>1 DEF Alive
<1>4. /\ Calls' = Calls
      /\ \A m \in Calls : /\ call'[m].kind = call[m].kind /\ call'[m].id = call[m].id
                          /\ m # n => call'[m].answer = call[m].answer
  BY <1>1, ReturnFacts
<1>5. proc[q] \in ProcRec BY <1>2, Proc
<1>6. /\ r.dirs = proc[q].dirs \cup {call[n].id} /\ r.state = proc[q].state
  BY <1>5 DEF ProcRec
<1>7. /\ Procs' = Procs /\ proc'[q] = r
      /\ \A p \in Procs : p # q => proc'[p] = proc[p]
  <2>1. proc' = [proc EXCEPT ![q] = r] BY DEF DirResult
  <2> HIDE DEF q, r
  <2> QED BY <1>2, <2>1 DEF Typed, Procs
<1> HIDE DEF q, r
<1>8. Asked' /\ Begun' BY <1>1, <1>4 DEF DirInv, Asked, Begun
<1>9. Served'
  <2> SUFFICES ASSUME NEW p \in Procs', Alive(p)', NEW m \in Calls', First(m)',
                      call'[m].answer = "ok"
               PROVE  call'[m].id \in proc'[p].dirs
    BY DEF Served
  <2>1. m \in Calls /\ p \in Procs BY <1>4, <1>7
  <2>2. Alive(p) BY <1>6, <1>7, <2>1 DEF Alive
  <2>3. p = q BY <1>2, <1>3, <2>1, <2>2, OneAlive DEF OneKernel
  <2>4. CASE m = n BY <1>4, <1>6, <1>7, <2>1, <2>3, <2>4
  <2>5. CASE m # n
    <3>1. 1 .. m - 1 \subseteq Calls BY <2>1, Sizes DEF Calls
    <3>2. First(m) /\ call[m].answer = "ok" BY <1>4, <2>1, <2>5, <3>1 DEF First
    <3>3. call[m].id \in proc[p].dirs BY <2>1, <2>2, <3>2 DEF DirInv, Served
    <3> QED BY <1>4, <1>6, <1>7, <2>1, <2>3, <3>3
  <2> QED BY <2>4, <2>5
<1> QED BY <1>8, <1>9 DEF DirInv

\* Only a request adds to the directories that the manager knows.
LEMMA DirsKnown ==
  ASSUME Typed, Next
  PROVE  UNCHANGED moduleDirs \/ \E d \in Dirs : AddNodeModuleDir(d)
<1>1. CASE Command
  <2>1. (\E id \in Ids : Execute(id)) => UNCHANGED moduleDirs BY DEF Execute
  <2>2. (\E id \in Ids : Cancel(id)) => UNCHANGED moduleDirs BY DEF Cancel
  <2>3. Reset \/ Close => UNCHANGED moduleDirs BY DEF Reset, Close
  <2> QED BY <1>1, <2>1, <2>2, <2>3 DEF Command
<1>2. CASE Microtask
  <2>1. ASSUME NEW n \in Calls, Resume(n) PROVE UNCHANGED moduleDirs
    <3>1. CASE ResumeEnsureChild(n) BY <3>1 DEF ResumeEnsureChild
    <3>2. CASE ResumeStartup(n) BY <3>2 DEF ResumeStartup, manager
    <3>3. CASE Start(n) BY <3>3 DEF Start, manager
    <3>4. CASE Restart(n) BY <3>4 DEF Restart, manager
    <3>5. CASE Send(n) BY <3>5 DEF Send
    <3>6. CASE Catch(n) BY <3>6 DEF Catch
    <3>7. CASE Fail(n) BY <3>7 DEF Fail
    <3>8. CASE ResumeRestart(n) BY <3>8 DEF ResumeRestart
    <3>9. CASE ResumeClose(n) BY <3>9 DEF ResumeClose
    <3>10. CASE ResumeTimeout(n) BY <3>10 DEF ResumeTimeout
    <3> QED BY <2>1, <3>1, <3>2, <3>3, <3>4, <3>5, <3>6, <3>7, <3>8, <3>9, <3>10 DEF Resume
  <2>2. ASSUME NEW k \in Kernels, StartUp(k) PROVE UNCHANGED moduleDirs
    BY <2>2 DEF StartUp, Spawning, Spawned, StartFailed, manager
  <2>3. CASE ClearStartup BY <2>3 DEF ClearStartup
  <2> QED BY <1>2, <2>1, <2>2, <2>3 DEF Microtask
<1>3. ASSUME NEW p \in Procs, ProcessEvent(p) PROVE UNCHANGED moduleDirs
  <2>1. CASE Handshake(p) BY <2>1 DEF Handshake, manager
  <2>2. CASE Result(p) BY <2>2 DEF Result, manager
  <2>3. CASE Suspend(p) BY <2>3 DEF Suspend, manager
  <2>4. CASE Exit(p) \/ ProtocolError(p) BY <2>4 DEF Exit, ProtocolError, manager
  <2> QED BY <1>3, <2>1, <2>2, <2>3, <2>4 DEF ProcessEvent
<1>4. ASSUME NEW n \in Calls, DirResult(n) \/ Timeout(n) PROVE UNCHANGED moduleDirs
  BY <1>4 DEF DirResult, Timeout, manager
<1>5. ASSUME NEW k \in Kernels, MetadataFails(k) \/ KillDeadline(k) PROVE UNCHANGED moduleDirs
  BY <1>5 DEF MetadataFails, KillDeadline, manager
<1> QED BY <1>1, <1>2, <1>3, <1>4, <1>5 DEF Next

LEMMA DirsStep ==
  ASSUME Typed, KInv, SlotHeld, DirInv, "idle_crash" \notin Faults, Next
  PROVE  DirInv'
<1>1. DirsKept /\ ~Respawning BY NextRuns, NoRespawn
<1>2. ASSUME NEW d \in Dirs, AddNodeModuleDir(d) PROVE DirInv'
  <2>1. Command BY <1>2 DEF Command
  <2>2. OldAnswers BY <2>1, CommandSlot DEF AnswersKept
  <2> QED BY <1>1, <1>2, <2>2, AskedDirs
<1>3. ASSUME NEW n \in Calls, DirResult(n) PROVE DirInv' BY <1>3, ServedDirs
<1>4. CASE AnswersKept /\ UNCHANGED moduleDirs BY <1>1, <1>4, QuietDirs
<1> QED BY <1>2, <1>3, <1>4, NextSlot, DirsKnown

\* A cell sees every directory whose addition was confirmed: the process that
\* runs it was spawned with all that the manager knew (resolveKernelLaunch), or
\* has confirmed it itself. lost_module_dir.cfg shows why no kernel may exit
\* while it is idle: it is then started again with the directories of its first
\* process (KernelChild.restart).
THEOREM DirsStayHolds ==
  ASSUME Orderly, "idle_crash" \notin Faults
  PROVE  Spec => []DirsStay
<1>1. Init => DirInv BY DEF Init, DirInv, Asked, Begun, Served, Calls, Procs
<1>2. IInv /\ SlotHeld /\ DirInv /\ [Next]_vars => DirInv'
  <2>1. IInv /\ SlotHeld /\ DirInv /\ Next => DirInv' BY DirsStep DEF IInv
  <2>2. UNCHANGED vars /\ DirInv => DirInv'
    BY DEF vars, manager, DirInv, Asked, Begun, Served, First, Calls, Procs, Alive
  <2> QED BY <2>1, <2>2
<1>3. DirInv => DirsStay BY DEF DirInv, Served, First, DirsStay
<1>4. Spec => []IInv BY IInvHolds
<1>5. Spec => []SlotHeld BY SlotHeldHolds
<1> QED BY <1>1, <1>2, <1>3, <1>4, <1>5, PTL DEF Spec
=============================================================================
