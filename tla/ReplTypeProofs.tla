--------------------------- MODULE ReplTypeProofs ---------------------------
(***************************************************************************)
(* The types of the host of node_repl (Repl), for any client, any faults   *)
(* and any constants.                                                      *)
(*                                                                         *)
(* TypeOK alone is not inductive: a step looks up the kernel or the        *)
(* process that a call names, so that a call must name one in each place   *)
(* where a step does.  HostTypes says so, and what ids may be: a directory *)
(* enters a process as the id of a call that adds a directory.             *)
(***************************************************************************)
EXTENDS Repl, TLAPS

-----------------------------------------------------------------------------
AnyId == Ids \cup Dirs \cup {"none"}

\* The calls, kernels and processes there can be when there are so many of the
\* others: k kernels, p processes, c calls.
CallIn(k, p) ==
  { r \in [ kind : {"js", "reset", "dir", "close"}, id : AnyId, pc : Places,
            watch : 0 .. k, at : 0 .. k, proc : 0 .. p, answer : Answers,
            settled : BOOLEAN, timeoutPending : BOOLEAN, timer : {"off", "armed", "waiting"},
            timerWatch : 0 .. k, suspended : BOOLEAN, since : Nat ] :
      /\ r.kind = "dir" => r.id \in Dirs
      /\ r.pc = "startup" => r.watch # 0
      /\ r.pc \in {"got", "stopping", "ready", "running"} => r.at # 0
      /\ r.pc \in {"ready", "running"} => r.proc # 0 }

KernelIn(p) ==
  { r \in [ phase : Phases, gen : Nat, proc : 0 .. p, boot : 0 .. p, dirs : SUBSET Dirs,
            stop : {"none", "pending", "failed"}, victim : 0 .. p,
            term : {"none", "pending", "done", "failed"} ] :
      r.phase = "spawning" => r.boot # 0 }

ProcIn(k, c) ==
  [ state : {"booting", "up", "dead"}, kernel : 1 .. k,
    ready : {"pending", "resolved", "rejected"}, run : 0 .. c, dirs : SUBSET Dirs ]

Objects ==
  /\ call \in Seq(CallIn(Len(kernel), Len(proc)))
  /\ kernel \in Seq(KernelIn(Len(proc)))
  /\ proc \in Seq(ProcIn(Len(kernel), Len(call)))

Fields ==
  /\ active \in 0 .. Len(call)
  /\ child \in 0 .. Len(kernel) /\ startup \in 0 .. Len(kernel)
  /\ termination \in 0 .. Len(kernel)
  /\ generation \in Nat /\ shuttingDown \in BOOLEAN /\ metadata \in BOOLEAN
  /\ moduleDirs \subseteq Dirs

\* A set of ids of at most so many, in the order in which they were added.
Histories == {s \in Seq(AnyId) : Len(s) <= TombstoneLimit}

History == cancellationTombstones \in Histories /\ completedRequestIds \in Histories

HostTypes == Objects /\ Fields /\ History
-----------------------------------------------------------------------------
LEMMA PutTyped ==
  ASSUME NEW S, NEW s \in Seq(S), NEW n \in 1 .. Len(s), NEW r \in S
  PROVE  [s EXCEPT ![n] = r] \in Seq(S) /\ Len([s EXCEPT ![n] = r]) = Len(s)
OBVIOUS

LEMMA AddTyped ==
  ASSUME NEW S, NEW s \in Seq(S), NEW r \in S
  PROVE  Append(s, r) \in Seq(S) /\ Len(Append(s, r)) = Len(s) + 1
OBVIOUS

LEMMA MoreTyped ==
  ASSUME NEW S, NEW T, S \subseteq T
  PROVE  Seq(S) \subseteq Seq(T)
OBVIOUS

LEMMA MoreCalls ==
  ASSUME NEW k \in Nat, NEW p \in Nat, NEW i \in Nat, NEW j \in Nat, i >= k, j >= p
  PROVE  Seq(CallIn(k, p)) \subseteq Seq(CallIn(i, j))
<1>1. 0 .. k \subseteq 0 .. i /\ 0 .. p \subseteq 0 .. j
  OBVIOUS
<1>2. CallIn(k, p) \subseteq CallIn(i, j)
  BY <1>1 DEF CallIn
<1> QED BY <1>2, MoreTyped

LEMMA MoreKernels ==
  ASSUME NEW p \in Nat, NEW j \in Nat, j >= p
  PROVE  Seq(KernelIn(p)) \subseteq Seq(KernelIn(j))
<1>1. 0 .. p \subseteq 0 .. j
  OBVIOUS
<1>2. KernelIn(p) \subseteq KernelIn(j)
  BY <1>1 DEF KernelIn
<1> QED BY <1>2, MoreTyped

LEMMA MoreProcs ==
  ASSUME NEW k \in Nat, NEW c \in Nat, NEW i \in Nat, NEW j \in Nat, i >= k, j >= c
  PROVE  Seq(ProcIn(k, c)) \subseteq Seq(ProcIn(i, j))
<1>1. 1 .. k \subseteq 1 .. i /\ 0 .. c \subseteq 0 .. j
  OBVIOUS
<1>2. ProcIn(k, c) \subseteq ProcIn(i, j)
  BY <1>1 DEF ProcIn
<1> QED BY <1>2, MoreTyped
-----------------------------------------------------------------------------
(* The histories of ids.                                                    *)

LEMMA ForgetTyped ==
  ASSUME NEW S, NEW s \in Seq(S), NEW id
  PROVE  Forget(s, id) \in Seq(S) /\ Len(Forget(s, id)) <= Len(s)
<1>1. CASE id \notin Seen(s)
  BY <1>1 DEF Forget
<1>2. CASE id \in Seen(s)
  <2> DEFINE k == CHOOSE i \in 1 .. Len(s) : s[i] = id
  <2>1. k \in 1 .. Len(s)
    BY <1>2 DEF Seen
  <2>2. Forget(s, id) = SubSeq(s, 1, k - 1) \o SubSeq(s, k + 1, Len(s))
    BY <1>2, Zenon DEF Forget
  <2> HIDE DEF k
  <2>3. /\ SubSeq(s, 1, k - 1) \in Seq(S) /\ Len(SubSeq(s, 1, k - 1)) = k - 1
        /\ SubSeq(s, k + 1, Len(s)) \in Seq(S) /\ Len(SubSeq(s, k + 1, Len(s))) = Len(s) - k
    BY <2>1
  <2>4. /\ SubSeq(s, 1, k - 1) \o SubSeq(s, k + 1, Len(s)) \in Seq(S)
        /\ Len(SubSeq(s, 1, k - 1) \o SubSeq(s, k + 1, Len(s)))
             = Len(SubSeq(s, 1, k - 1)) + Len(SubSeq(s, k + 1, Len(s)))
    BY <2>3
  <2>5. (k - 1) + (Len(s) - k) = Len(s) - 1 /\ Len(s) - 1 <= Len(s)
    BY <2>1
  <2> QED BY <2>2, <2>3, <2>4, <2>5
<1> QED BY <1>1, <1>2

\* Removing an id and appending it never exceeds the limit by more than one.
LEMMA RememberTyped ==
  ASSUME NEW s \in Histories, NEW id \in AnyId
  PROVE  Remember(s, id) \in Histories
<1> DEFINE kept == Append(Forget(s, id), id)
<1>1. s \in Seq(AnyId) /\ Len(s) <= TombstoneLimit
  BY DEF Histories
<1>2. Forget(s, id) \in Seq(AnyId) /\ Len(Forget(s, id)) <= Len(s)
  BY <1>1, ForgetTyped
<1>3. kept \in Seq(AnyId) /\ Len(kept) = Len(Forget(s, id)) + 1 /\ Len(kept) \in Nat
  BY <1>2, AddTyped
<1>4. Remember(s, id) = IF Len(kept) > TombstoneLimit THEN Tail(kept) ELSE kept
  BY Zenon DEF Remember
<1>5. TombstoneLimit \in Nat
  BY ReplAssumption
<1> HIDE DEF kept
<1>6. Len(kept) > TombstoneLimit =>
        Tail(kept) \in Seq(AnyId) /\ Len(Tail(kept)) = Len(kept) - 1
  BY <1>3, <1>5
<1>7. Len(kept) <= TombstoneLimit + 1
  BY <1>1, <1>2, <1>3, <1>5
<1>8. CASE Len(kept) > TombstoneLimit
  BY <1>3, <1>4, <1>5, <1>6, <1>7, <1>8 DEF Histories
<1>9. CASE ~(Len(kept) > TombstoneLimit)
  BY <1>3, <1>4, <1>5, <1>9 DEF Histories
<1> QED BY <1>8, <1>9

LEMMA ForgottenTyped ==
  ASSUME NEW s \in Histories, NEW id
  PROVE  Forget(s, id) \in Histories
<1>1. s \in Seq(AnyId) /\ Len(s) <= TombstoneLimit
  BY DEF Histories
<1>2. Forget(s, id) \in Seq(AnyId) /\ Len(Forget(s, id)) <= Len(s)
  BY <1>1, ForgetTyped
<1> QED BY <1>1, <1>2, ReplAssumption DEF Histories

LEMMA EmptyTyped == <<>> \in Histories
BY ReplAssumption DEF Histories
-----------------------------------------------------------------------------
(* Records.                                                                 *)

\* What a call may become: none of it asks for more than the fields there are.
LEMMA CallSettles ==
  ASSUME NEW k \in Nat, NEW p \in Nat, NEW r \in CallIn(k, p), NEW answer \in Answers,
         NEW t \in {"off", "armed", "waiting"}
  PROVE  [r EXCEPT !.settled = TRUE, !.answer = answer, !.timeoutPending = FALSE, !.timer = t]
           \in CallIn(k, p)
<1> DEFINE n == [r EXCEPT !.settled = TRUE, !.answer = answer, !.timeoutPending = FALSE,
                          !.timer = t]
<1>1. n \in [ kind : {"js", "reset", "dir", "close"}, id : AnyId, pc : Places,
              watch : 0 .. k, at : 0 .. k, proc : 0 .. p, answer : Answers,
              settled : BOOLEAN, timeoutPending : BOOLEAN,
              timer : {"off", "armed", "waiting"}, timerWatch : 0 .. k,
              suspended : BOOLEAN, since : Nat ]
  BY DEF CallIn
<1>2. /\ n.kind = r.kind /\ n.id = r.id /\ n.pc = r.pc
      /\ n.watch = r.watch /\ n.at = r.at /\ n.proc = r.proc
  BY DEF CallIn
<1> HIDE DEF n
<1>3. n \in CallIn(k, p)
  BY <1>1, <1>2 DEF CallIn
<1> QED BY <1>3 DEF n

LEMMA CallEnds ==
  ASSUME NEW k \in Nat, NEW p \in Nat, NEW r \in CallIn(k, p), NEW pc \in {"done", "threw"}
  PROVE  [r EXCEPT !.pc = pc] \in CallIn(k, p)
<1>1. "done" \in Places /\ "threw" \in Places
  BY DEF Places
<1> QED BY <1>1 DEF CallIn

LEMMA CallTimes ==
  ASSUME NEW k \in Nat, NEW p \in Nat, NEW r \in CallIn(k, p), NEW w \in 0 .. k
  PROVE  /\ [r EXCEPT !.timer = "off"] \in CallIn(k, p)
         /\ [r EXCEPT !.settled = TRUE, !.timeoutPending = TRUE, !.timer = "waiting",
                      !.timerWatch = w] \in CallIn(k, p)
BY DEF CallIn

LEMMA CallSuspends ==
  ASSUME NEW k \in Nat, NEW p \in Nat, NEW r \in CallIn(k, p), NEW b \in BOOLEAN,
         NEW t \in {"off", "armed", "waiting"}
  PROVE  [r EXCEPT !.suspended = b, !.timer = t] \in CallIn(k, p)
BY DEF CallIn

\* A call that goes on to another place has what that place asks for.
LEMMA CallGoes ==
  ASSUME NEW k \in Nat, NEW p \in Nat, NEW r \in CallIn(k, p), NEW pc \in Places,
         NEW w \in 0 .. k, pc = "startup" => w # 0,
         pc \in {"got", "stopping", "ready", "running"} => r.at # 0,
         pc \in {"ready", "running"} => r.proc # 0
  PROVE  [r EXCEPT !.pc = pc, !.watch = w] \in CallIn(k, p)
BY DEF CallIn

LEMMA CallGets ==
  ASSUME NEW k \in Nat, NEW p \in Nat, NEW r \in CallIn(k, p), NEW pc \in Places,
         NEW w \in 0 .. k, pc = "startup" => w # 0, NEW a \in 1 .. k,
         pc \in {"ready", "running"} => r.proc # 0
  PROVE  [[r EXCEPT !.pc = pc, !.watch = w] EXCEPT !.at = a] \in CallIn(k, p)
<1> DEFINE n == [r EXCEPT !.pc = pc, !.watch = w, !.at = a]
<1>0. [[r EXCEPT !.pc = pc, !.watch = w] EXCEPT !.at = a] = n
  BY DEF CallIn
<1>5. a \in 0 .. k /\ a # 0
  OBVIOUS
<1>1. n \in [ kind : {"js", "reset", "dir", "close"}, id : AnyId, pc : Places,
              watch : 0 .. k, at : 0 .. k, proc : 0 .. p, answer : Answers,
              settled : BOOLEAN, timeoutPending : BOOLEAN,
              timer : {"off", "armed", "waiting"}, timerWatch : 0 .. k,
              suspended : BOOLEAN, since : Nat ]
  BY <1>5 DEF CallIn
<1>2. /\ n.kind = r.kind /\ n.id = r.id /\ n.pc = pc /\ n.watch = w
      /\ n.proc = r.proc /\ n.at = a
  BY DEF CallIn
<1>3. r.kind = "dir" => r.id \in Dirs
  BY DEF CallIn
<1> HIDE DEF n
<1>4. n \in CallIn(k, p)
  BY <1>1, <1>2, <1>3, <1>5 DEF CallIn
<1> QED BY <1>0, <1>4

LEMMA CallStarts ==
  ASSUME NEW k \in Nat, NEW p \in Nat, NEW r \in CallIn(k, p), NEW pc \in Places,
         NEW w \in 0 .. k, pc = "startup" => w # 0, NEW q \in 1 .. p,
         pc \in {"got", "stopping", "ready", "running"} => r.at # 0
  PROVE  [[r EXCEPT !.pc = pc, !.watch = w] EXCEPT !.proc = q] \in CallIn(k, p)
<1> DEFINE n == [r EXCEPT !.pc = pc, !.watch = w, !.proc = q]
<1>0. [[r EXCEPT !.pc = pc, !.watch = w] EXCEPT !.proc = q] = n
  BY DEF CallIn
<1>5. q \in 0 .. p /\ q # 0
  OBVIOUS
<1>1. n \in [ kind : {"js", "reset", "dir", "close"}, id : AnyId, pc : Places,
              watch : 0 .. k, at : 0 .. k, proc : 0 .. p, answer : Answers,
              settled : BOOLEAN, timeoutPending : BOOLEAN,
              timer : {"off", "armed", "waiting"}, timerWatch : 0 .. k,
              suspended : BOOLEAN, since : Nat ]
  BY <1>5 DEF CallIn
<1>2. /\ n.kind = r.kind /\ n.id = r.id /\ n.pc = pc /\ n.watch = w
      /\ n.at = r.at /\ n.proc = q
  BY DEF CallIn
<1>3. r.kind = "dir" => r.id \in Dirs
  BY DEF CallIn
<1> HIDE DEF n
<1>4. n \in CallIn(k, p)
  BY <1>1, <1>2, <1>3, <1>5 DEF CallIn
<1> QED BY <1>0, <1>4

LEMMA NewCallTyped ==
  ASSUME NEW k \in Nat, NEW kind \in {"js", "reset", "dir", "close"}, NEW id \in AnyId,
         NEW pc \in {"term", "rterm", "cstart"}, NEW w \in 0 .. k, Len(proc) \in Nat,
         kind = "dir" => id \in Dirs
  PROVE  NewCall(kind, id, pc, w) \in CallIn(k, Len(proc))
BY DEF NewCall, CallIn, Places, Answers
LEMMA CallFields ==
  ASSUME NEW k \in Nat, NEW p \in Nat, NEW r \in CallIn(k, p)
  PROVE  /\ r.kind \in {"js", "reset", "dir", "close"} /\ r.id \in AnyId /\ r.pc \in Places
         /\ r.watch \in 0 .. k /\ r.at \in 0 .. k /\ r.proc \in 0 .. p
         /\ r.answer \in Answers /\ r.timer \in {"off", "armed", "waiting"}
         /\ r.timerWatch \in 0 .. k /\ r.suspended \in BOOLEAN
         /\ r.kind = "dir" => r.id \in Dirs
         /\ r.pc = "startup" => r.watch # 0
         /\ r.pc \in {"got", "stopping", "ready", "running"} => r.at \in 1 .. k
         /\ r.pc \in {"ready", "running"} => r.proc \in 1 .. p
BY DEF CallIn

LEMMA KernelFields ==
  ASSUME NEW p \in Nat, NEW r \in KernelIn(p)
  PROVE  /\ r.phase \in Phases /\ r.gen \in Nat /\ r.dirs \in SUBSET Dirs
         /\ r.proc \in 0 .. p /\ r.boot \in 0 .. p /\ r.victim \in 0 .. p
         /\ r.stop \in {"none", "pending", "failed"}
         /\ r.term \in {"none", "pending", "done", "failed"}
         /\ r.proc # 0 => r.proc \in 1 .. p
         /\ r.phase = "spawning" => r.boot \in 1 .. p
BY DEF KernelIn

LEMMA ProcFields ==
  ASSUME NEW k \in Nat, NEW c \in Nat, NEW r \in ProcIn(k, c)
  PROVE  /\ r.state \in {"booting", "up", "dead"} /\ r.kernel \in 1 .. k
         /\ r.ready \in {"pending", "resolved", "rejected"}
         /\ r.run \in 0 .. c /\ r.dirs \in SUBSET Dirs
BY DEF ProcIn

\* What there is in a state that is typed.
LEMMA Sizes ==
  ASSUME Objects
  PROVE  Len(call) \in Nat /\ Len(kernel) \in Nat /\ Len(proc) \in Nat
BY DEF Objects

LEMMA CallTyped ==
  ASSUME Objects, NEW n \in Calls
  PROVE  call[n] \in CallIn(Len(kernel), Len(proc)) /\ n \in 1 .. Len(call)
BY DEF Objects, Calls

LEMMA KernelTyped ==
  ASSUME Objects, NEW k \in Kernels
  PROVE  kernel[k] \in KernelIn(Len(proc)) /\ k \in 1 .. Len(kernel)
BY DEF Objects, Kernels

LEMMA ProcTyped ==
  ASSUME Objects, NEW p \in Procs
  PROVE  proc[p] \in ProcIn(Len(kernel), Len(call)) /\ p \in 1 .. Len(proc)
BY DEF Objects, Procs
-----------------------------------------------------------------------------
(* The operators that a step is made of.                                    *)

LEMMA SettledTyped ==
  ASSUME NEW k \in Nat, NEW p \in Nat, NEW c \in Seq(CallIn(k, p)), NEW n \in 1 .. Len(c),
         NEW answer \in Answers
  PROVE  Settled(c, n, answer) \in Seq(CallIn(k, p)) /\ Len(Settled(c, n, answer)) = Len(c)
<1> DEFINE t == IF c[n].timer = "armed" THEN "off" ELSE c[n].timer
           r == [c[n] EXCEPT !.settled = TRUE, !.answer = answer, !.timeoutPending = FALSE,
                             !.timer = t]
<1>1. c[n] \in CallIn(k, p)
  OBVIOUS
<1>2. t \in {"off", "armed", "waiting"}
  <2>1. c[n].timer \in {"off", "armed", "waiting"}
    BY <1>1, CallFields
  <2> QED BY <2>1
<1> HIDE DEF t
<1>3. r \in CallIn(k, p)
  BY <1>1, <1>2, CallSettles
<1>4. Settled(c, n, answer) = [c EXCEPT ![n] = r]
  BY Zenon DEF Settled, t
<1> HIDE DEF r
<1> QED BY <1>3, <1>4, PutTyped

LEMMA EndedTyped ==
  ASSUME NEW k \in Nat, NEW p \in Nat, NEW c \in Seq(CallIn(k, p)), NEW n \in 1 .. Len(c)
  PROVE  Ended(c, n) \in Seq(CallIn(k, p)) /\ Len(Ended(c, n)) = Len(c)
<1> DEFINE r == [c[n] EXCEPT !.pc = "done"]
<1>1. r \in CallIn(k, p)
  <2>1. c[n] \in CallIn(k, p)
    OBVIOUS
  <2> QED BY <2>1, CallEnds
<1>2. Ended(c, n) = [c EXCEPT ![n] = r]
  BY DEF Ended
<1> HIDE DEF r
<1> QED BY <1>1, <1>2, PutTyped

LEMMA RejectedTyped ==
  ASSUME NEW k \in Nat, NEW p \in Nat, NEW c \in Seq(CallIn(k, p)), NEW j
  PROVE  Rejected(c, j) \in Seq(CallIn(k, p)) /\ Len(Rejected(c, j)) = Len(c)
<1>1. DOMAIN c = 1 .. Len(c) /\ Len(c) \in Nat
  OBVIOUS
<1>2. ASSUME NEW n \in 1 .. Len(c)
      PROVE  (IF c[n].at = j /\ c[n].pc = "running"
                THEN [c[n] EXCEPT !.pc = "threw"] ELSE c[n]) \in CallIn(k, p)
  <2>1. c[n] \in CallIn(k, p)
    OBVIOUS
  <2>2. [c[n] EXCEPT !.pc = "threw"] \in CallIn(k, p)
    BY <2>1, CallEnds
  <2> QED BY <2>1, <2>2
<1>3. Rejected(c, j) \in [1 .. Len(c) -> CallIn(k, p)]
  BY <1>1, <1>2, Zenon DEF Rejected
<1> QED BY <1>1, <1>3

\* The promise that was made with process p is settled.
Told(s, p, ready) == [s EXCEPT ![p].ready = IF @ = "pending" THEN ready ELSE @]

LEMMA ToldTyped ==
  ASSUME NEW k \in Nat, NEW c \in Nat, NEW s \in Seq(ProcIn(k, c)), NEW p \in 1 .. Len(s),
         NEW ready \in {"resolved", "rejected"}
  PROVE  Told(s, p, ready) \in Seq(ProcIn(k, c)) /\ Len(Told(s, p, ready)) = Len(s)
<1> DEFINE r == [s[p] EXCEPT !.ready = IF s[p].ready = "pending" THEN ready ELSE s[p].ready]
<1>1. s[p] \in ProcIn(k, c)
  OBVIOUS
<1>2. r \in ProcIn(k, c)
  BY <1>1 DEF ProcIn
<1>3. Told(s, p, ready) = [s EXCEPT ![p] = r]
  BY DEF Told
<1> HIDE DEF r
<1> QED BY <1>2, <1>3, PutTyped

LEMMA NewProcTyped ==
  ASSUME NEW k \in Nat, NEW c \in Nat, NEW j \in 1 .. k, NEW dirs \in SUBSET Dirs
  PROVE  NewProc(j, dirs) \in ProcIn(k, c)
BY DEF NewProc, ProcIn

LEMMA NewKernelTyped ==
  ASSUME NEW p \in Nat, NEW g \in Nat
  PROVE  NewKernel(g) \in KernelIn(p)
BY DEF NewKernel, KernelIn, Phases

\* What a kernel may become.
LEMMA KernelGets ==
  ASSUME NEW p \in Nat, NEW r \in KernelIn(p), NEW q \in 0 .. p
  PROVE  [r EXCEPT !.proc = q] \in KernelIn(p)
BY DEF KernelIn

LEMMA KernelLoses ==
  ASSUME NEW p \in Nat, NEW r \in KernelIn(p),
         NEW stop \in {"none", "pending", "failed"}, NEW v \in 0 .. p
  PROVE  [r EXCEPT !.proc = 0, !.stop = stop, !.victim = v] \in KernelIn(p)
<1> DEFINE n == [r EXCEPT !.proc = 0, !.stop = stop, !.victim = v]
<1>1. 0 \in 0 .. p
  OBVIOUS
<1>2. n \in [ phase : Phases, gen : Nat, proc : 0 .. p, boot : 0 .. p,
              dirs : SUBSET Dirs, stop : {"none", "pending", "failed"}, victim : 0 .. p,
              term : {"none", "pending", "done", "failed"} ]
  BY <1>1 DEF KernelIn
<1>3. n.boot = r.boot /\ n.phase = r.phase
  BY DEF KernelIn
<1> HIDE DEF n
<1>4. n \in KernelIn(p)
  BY <1>1, <1>2, <1>3 DEF KernelIn
<1> QED BY <1>4 DEF n

LEMMA KernelTerminates ==
  ASSUME NEW p \in Nat, NEW r \in KernelIn(p),
         NEW stop \in {"none", "pending", "failed"}, NEW v \in 0 .. p,
         NEW term \in {"none", "pending", "done", "failed"}
  PROVE  [r EXCEPT !.proc = 0, !.stop = stop, !.victim = v, !.term = term] \in KernelIn(p)
<1> DEFINE n == [r EXCEPT !.proc = 0, !.stop = stop, !.victim = v, !.term = term]
<1>1. 0 \in 0 .. p
  OBVIOUS
<1>2. n \in [ phase : Phases, gen : Nat, proc : 0 .. p, boot : 0 .. p,
              dirs : SUBSET Dirs, stop : {"none", "pending", "failed"}, victim : 0 .. p,
              term : {"none", "pending", "done", "failed"} ]
  BY <1>1 DEF KernelIn
<1>3. n.boot = r.boot /\ n.phase = r.phase
  BY DEF KernelIn
<1> HIDE DEF n
<1>4. n \in KernelIn(p)
  BY <1>1, <1>2, <1>3 DEF KernelIn
<1> QED BY <1>4 DEF n

LEMMA KernelGivesUp ==
  ASSUME NEW p \in Nat, NEW r \in KernelIn(p),
         NEW stop \in {"none", "pending", "failed"}, NEW v \in 0 .. p,
         NEW phase \in {"stopping", "ok", "failed"}
  PROVE  [r EXCEPT !.phase = phase, !.proc = 0, !.stop = stop, !.victim = v] \in KernelIn(p)
<1> DEFINE n == [r EXCEPT !.phase = phase, !.proc = 0, !.stop = stop, !.victim = v]
<1>1. 0 \in 0 .. p /\ phase \in Phases /\ phase # "spawning"
  BY DEF Phases
<1>2. n \in [ phase : Phases, gen : Nat, proc : 0 .. p, boot : 0 .. p,
              dirs : SUBSET Dirs, stop : {"none", "pending", "failed"}, victim : 0 .. p,
              term : {"none", "pending", "done", "failed"} ]
  BY <1>1 DEF KernelIn
<1>3. n.boot = r.boot /\ n.phase = phase
  BY DEF KernelIn
<1> HIDE DEF n
<1>4. n \in KernelIn(p)
  BY <1>1, <1>2, <1>3 DEF KernelIn
<1> QED BY <1>4 DEF n

LEMMA KernelPasses ==
  ASSUME NEW p \in Nat, NEW r \in KernelIn(p),
         NEW phase \in {"stopping", "ok", "failed"}
  PROVE  [r EXCEPT !.phase = phase] \in KernelIn(p)
<1>1. phase \in Phases /\ phase # "spawning"
  BY DEF Phases
<1> QED BY <1>1 DEF KernelIn

LEMMA KernelTold ==
  ASSUME NEW p \in Nat, NEW r \in KernelIn(p),
         NEW term \in {"none", "pending", "done", "failed"}
  PROVE  [r EXCEPT !.term = term] \in KernelIn(p)
BY DEF KernelIn

LEMMA KernelStopped ==
  ASSUME NEW p \in Nat, NEW r \in KernelIn(p),
         NEW stop \in {"none", "pending", "failed"},
         NEW term \in {"none", "pending", "done", "failed"}
  PROVE  [r EXCEPT !.stop = stop, !.term = term] \in KernelIn(p)
BY DEF KernelIn

LEMMA KernelSpawns ==
  ASSUME NEW p \in Nat, NEW r \in KernelIn(p), NEW q \in 1 .. p, NEW dirs \in SUBSET Dirs
  PROVE  [r EXCEPT !.phase = "spawning", !.dirs = dirs, !.proc = q, !.boot = q] \in KernelIn(p)
<1>1. "spawning" \in Phases /\ q \in 0 .. p /\ q # 0
  BY DEF Phases
<1> QED BY <1>1 DEF KernelIn

\* Terminating a kernel, with the calls as they are by then in c.
LEMMA TerminateTyped ==
  ASSUME Objects, NEW k \in Kernels, NEW latch \in BOOLEAN,
         NEW c \in Seq(CallIn(Len(kernel), Len(proc))), Terminate(k, c, latch)
  PROVE  /\ kernel' \in Seq(KernelIn(Len(proc))) /\ Len(kernel') = Len(kernel)
         /\ proc' \in Seq(ProcIn(Len(kernel), Len(call))) /\ Len(proc') = Len(proc)
         /\ call' \in Seq(CallIn(Len(kernel), Len(proc))) /\ Len(call') = Len(c)
<1> DEFINE P == Len(proc)
           r == kernel[k]
<1>1. /\ kernel \in Seq(KernelIn(P)) /\ k \in 1 .. Len(kernel) /\ r \in KernelIn(P)
      /\ proc \in Seq(ProcIn(Len(kernel), Len(call)))
  BY KernelTyped DEF Objects
<1>0. P \in Nat /\ Len(kernel) \in Nat /\ Len(call) \in Nat
  BY Sizes
<1>2. /\ r.proc \in 0 .. P /\ r.stop \in {"none", "pending", "failed"}
      /\ r.term \in {"none", "pending", "done", "failed"} /\ r.victim \in 0 .. P
      /\ r.proc # 0 => r.proc \in 1 .. P
  BY <1>0, <1>1, KernelFields
<1>3. CASE r.proc # 0
  <2> DEFINE t == IF latch THEN "pending" ELSE r.term
             n == [r EXCEPT !.proc = 0, !.stop = "pending", !.victim = r.proc, !.term = t]
  <2>1. t \in {"none", "pending", "done", "failed"}
    BY <1>2
  <2>2. /\ kernel' = [kernel EXCEPT ![k] = n] /\ proc' = Unready(r.proc)
        /\ call' = Rejected(c, k)
    BY <1>3 DEF Terminate
  <2> HIDE DEF t
  <2>3. n \in KernelIn(P)
    BY <1>0, <1>1, <1>2, <2>1, KernelTerminates
  <2> HIDE DEF n
  <2>4. r.proc \in 1 .. Len(proc)
    BY <1>1, <1>2, <1>3
  <2>5. proc' \in Seq(ProcIn(Len(kernel), Len(call))) /\ Len(proc') = Len(proc)
    <3>1. PICK q \in 1 .. Len(proc) : q = r.proc
      BY <2>4
    <3>2. proc' = Told(proc, q, "rejected")
      BY <2>2, <3>1, Zenon DEF Unready, Told
    <3> QED BY <1>0, <1>1, <3>2, ToldTyped
  <2>6. call' \in Seq(CallIn(Len(kernel), Len(proc))) /\ Len(call') = Len(c)
    BY <1>0, <2>2, RejectedTyped
  <2>7. kernel' \in Seq(KernelIn(P)) /\ Len(kernel') = Len(kernel)
    <3> HIDE DEF r, P
    <3> QED BY <1>1, <2>2, <2>3, PutTyped
  <2> QED BY <2>5, <2>6, <2>7
<1>4. CASE r.proc = 0
  <2> DEFINE t == CASE r.stop = "none" -> "done" [] r.stop = "pending" -> "pending"
                    [] OTHER -> "failed"
             n == [r EXCEPT !.term = t]
  <2>1. /\ kernel' = IF latch THEN [kernel EXCEPT ![k].term = t] ELSE kernel
        /\ call' = c /\ proc' = proc
    BY <1>4 DEF Terminate
  <2>2. t \in {"none", "pending", "done", "failed"}
    BY <1>2
  <2> HIDE DEF t
  <2>3. n \in KernelIn(P) /\ [kernel EXCEPT ![k].term = t] = [kernel EXCEPT ![k] = n]
    <3>1. n \in KernelIn(P)
      BY <1>0, <1>1, <2>2, KernelTold
    <3> QED BY <3>1
  <2> HIDE DEF n
  <2>4. kernel' \in Seq(KernelIn(P)) /\ Len(kernel') = Len(kernel)
    <3> HIDE DEF r, P
    <3>1. [kernel EXCEPT ![k] = n] \in Seq(KernelIn(P)) /\ Len([kernel EXCEPT ![k] = n]) = Len(kernel)
      BY <1>1, <2>3, PutTyped
    <3>2. kernel' = [kernel EXCEPT ![k] = n] \/ kernel' = kernel
      BY <2>1, <2>3, Zenon
    <3> QED BY <1>1, <3>1, <3>2
  <2> QED BY <1>1, <2>1, <2>4
<1> QED BY <1>3, <1>4

LEMMA DropChildTyped ==
  ASSUME Objects, Fields, NEW c \in Seq(CallIn(Len(kernel), Len(proc))), DropChild(c)
  PROVE  /\ kernel' \in Seq(KernelIn(Len(proc))) /\ Len(kernel') = Len(kernel)
         /\ proc' \in Seq(ProcIn(Len(kernel), Len(call))) /\ Len(proc') = Len(proc)
         /\ call' \in Seq(CallIn(Len(kernel), Len(proc))) /\ Len(call') = Len(c)
         /\ child' \in 0 .. Len(kernel) /\ termination' \in 0 .. Len(kernel)
<1>1. child' = 0 /\ child \in 0 .. Len(kernel) /\ termination \in 0 .. Len(kernel)
      /\ Len(kernel) \in Nat
  BY DEF DropChild, Fields, Objects
<1>2. CASE child = 0
  <2>1. call' = c /\ kernel' = kernel /\ proc' = proc /\ termination' = termination
    BY <1>2 DEF DropChild
  <2> QED BY <1>1, <2>1 DEF Objects
<1>3. CASE child # 0
  <2>1. child \in Kernels
    BY <1>1, <1>3 DEF Kernels
  <2>2. Terminate(child, c, TRUE) /\ termination' = child
    BY <1>3 DEF DropChild
  <2>3. TRUE \in BOOLEAN
    OBVIOUS
  <2>4. /\ kernel' \in Seq(KernelIn(Len(proc))) /\ Len(kernel') = Len(kernel)
        /\ proc' \in Seq(ProcIn(Len(kernel), Len(call))) /\ Len(proc') = Len(proc)
        /\ call' \in Seq(CallIn(Len(kernel), Len(proc))) /\ Len(call') = Len(c)
    BY <2>1, <2>2, <2>3, TerminateTyped
  <2> QED BY <1>1, <2>2, <2>4
<1> QED BY <1>2, <1>3

\* A process of kernel k goes or is killed; s are the processes by then.
LEMMA HandleExitTyped ==
  ASSUME Objects, NEW k \in Kernels, NEW kill \in BOOLEAN, kernel[k].proc # 0,
         NEW s \in Seq(ProcIn(Len(kernel), Len(call))), Len(s) = Len(proc),
         HandleExit(k, kill, s)
  PROVE  /\ kernel' \in Seq(KernelIn(Len(proc))) /\ Len(kernel') = Len(kernel)
         /\ proc' \in Seq(ProcIn(Len(kernel), Len(call))) /\ Len(proc') = Len(proc)
         /\ call' \in Seq(CallIn(Len(kernel), Len(proc))) /\ Len(call') = Len(call)
<1> DEFINE P == Len(proc)
           r == kernel[k]
           stop == IF kill THEN "pending" ELSE r.stop
           v == IF kill THEN r.proc ELSE r.victim
           n == [r EXCEPT !.proc = 0, !.stop = stop, !.victim = v]
<1>0. P \in Nat /\ Len(kernel) \in Nat /\ Len(call) \in Nat
  BY Sizes
<1>1. /\ kernel \in Seq(KernelIn(P)) /\ k \in 1 .. Len(kernel) /\ r \in KernelIn(P)
      /\ call \in Seq(CallIn(Len(kernel), P))
  BY KernelTyped DEF Objects
<1>2. /\ stop \in {"none", "pending", "failed"} /\ v \in 0 .. P /\ r.proc \in 1 .. P
  <2>1. /\ r.stop \in {"none", "pending", "failed"} /\ r.victim \in 0 .. P
        /\ r.proc \in 1 .. P
    BY <1>0, <1>1, KernelFields
  <2> QED BY <1>0, <2>1
<1>3. /\ kernel' = [kernel EXCEPT ![k] = n]
      /\ proc' = [s EXCEPT ![r.proc].ready = IF @ = "pending" THEN "rejected" ELSE @]
      /\ call' = Rejected(call, k)
  BY DEF HandleExit
<1> HIDE DEF stop, v
<1>4. n \in KernelIn(P)
  BY <1>0, <1>1, <1>2, KernelLoses
<1> HIDE DEF n
<1>5. r.proc \in 1 .. Len(s)
  BY <1>2
<1> HIDE DEF r, P
<1>6. kernel' \in Seq(KernelIn(P)) /\ Len(kernel') = Len(kernel)
  BY <1>1, <1>3, <1>4, PutTyped
<1>7. proc' \in Seq(ProcIn(Len(kernel), Len(call))) /\ Len(proc') = Len(s)
  <2>1. PICK q \in 1 .. Len(s) : q = r.proc
    BY <1>5
  <2>2. proc' = Told(s, q, "rejected")
    BY <1>3, <2>1, Zenon DEF Told
  <2> QED BY <1>0, <1>1, <2>2, ToldTyped
<1>8. call' \in Seq(CallIn(Len(kernel), P)) /\ Len(call') = Len(call)
  BY <1>0, <1>1, <1>3, RejectedTyped
<1> QED BY <1>6, <1>7, <1>8 DEF P
LEMMA FinishTyped ==
  ASSUME Objects, Fields, History, NEW n \in Calls, NEW answer \in Answers, Finish(n, answer)
  PROVE  /\ call' \in Seq(CallIn(Len(kernel), Len(proc))) /\ Len(call') = Len(call)
         /\ active' \in 0 .. Len(call) /\ completedRequestIds' \in Histories
<1> DEFINE C == CallIn(Len(kernel), Len(proc))
<1>1. call \in Seq(C) /\ n \in 1 .. Len(call) /\ call[n] \in C
  BY CallTyped DEF Objects
<1>2. Len(kernel) \in Nat /\ Len(proc) \in Nat /\ Len(call) \in Nat
  BY Sizes
<1>3. call[n].id \in AnyId
  BY <1>1, <1>2, CallFields
<1>4. Ended(call, n) \in Seq(C) /\ Len(Ended(call, n)) = Len(call)
  BY <1>1, <1>2, EndedTyped
<1>5. CASE active = n /\ ~call[n].settled
  <2>1. /\ call' = Settled(Ended(call, n), n, answer) /\ active' = 0
        /\ completedRequestIds' = Remember(completedRequestIds, call[n].id)
    BY <1>5, Zenon DEF Finish
  <2>2. call' \in Seq(C) /\ Len(call') = Len(call)
    <3>1. PICK c \in Seq(C) : c = Ended(call, n)
      BY <1>4
    <3>2. n \in 1 .. Len(c)
      BY <1>1, <1>4, <3>1
    <3>3. Settled(c, n, answer) \in Seq(C) /\ Len(Settled(c, n, answer)) = Len(c)
      BY <1>2, <3>2, SettledTyped
    <3> QED BY <1>4, <2>1, <3>1, <3>3
  <2>3. completedRequestIds' \in Histories
    BY <1>3, <2>1, RememberTyped DEF History
  <2> QED BY <1>2, <2>1, <2>2, <2>3
<1>6. CASE ~(active = n /\ ~call[n].settled)
  <2>1. /\ call' = Ended(call, n) /\ active' = active
        /\ completedRequestIds' = completedRequestIds
    BY <1>6, Zenon DEF Finish
  <2> QED BY <1>4, <2>1 DEF Fields, History
<1> QED BY <1>5, <1>6

LEMMA ReturnTyped ==
  ASSUME Objects, NEW n \in Calls, NEW answer \in Answers, Return(n, answer)
  PROVE  call' \in Seq(CallIn(Len(kernel), Len(proc))) /\ Len(call') = Len(call)
<1> DEFINE C == CallIn(Len(kernel), Len(proc))
<1>1. call \in Seq(C) /\ n \in 1 .. Len(call)
  BY CallTyped DEF Objects
<1>2. Len(kernel) \in Nat /\ Len(proc) \in Nat /\ Len(call) \in Nat
  BY Sizes
<1>3. PICK c \in Seq(C) : c = Ended(call, n) /\ Len(c) = Len(call)
  BY <1>1, <1>2, EndedTyped
<1>4. Settled(c, n, answer) \in Seq(C) /\ Len(Settled(c, n, answer)) = Len(c)
  BY <1>1, <1>2, <1>3, SettledTyped
<1> QED BY <1>3, <1>4 DEF Return

\* Call n goes to another place, with its kernel and process.
LEMMA AtStays ==
  ASSUME NEW k \in Nat, NEW p \in Nat, call \in Seq(CallIn(k, p)), NEW n \in Calls,
         NEW pc \in Places, NEW w \in 0 .. k, pc = "startup" => w # 0,
         pc \in {"got", "stopping", "ready", "running"} => call[n].at # 0,
         pc \in {"ready", "running"} => call[n].proc # 0
  PROVE  At(n, pc, w) \in Seq(CallIn(k, p)) /\ Len(At(n, pc, w)) = Len(call)
<1>1. n \in 1 .. Len(call) /\ n \in DOMAIN call
  BY DEF Calls
<1>2. PICK b \in CallIn(k, p) : b = call[n]
  BY <1>1
<1>3. [b EXCEPT !.pc = pc, !.watch = w] \in CallIn(k, p)
  BY <1>2, CallGoes
<1>4. PICK x : x = [b EXCEPT !.pc = pc, !.watch = w]
  OBVIOUS
<1>5. At(n, pc, w) = [call EXCEPT ![n] = x]
  BY <1>2, <1>4 DEF At
<1> QED BY <1>1, <1>3, <1>4, <1>5, PutTyped

\* Call n has kernel a; call n waits for process q.
Got(n, a) == [At(n, "got", 0) EXCEPT ![n].at = a]
Awaiting(n, pc, q) == [At(n, pc, 0) EXCEPT ![n].proc = q]

LEMMA GotTyped ==
  ASSUME NEW k \in Nat, NEW p \in Nat, call \in Seq(CallIn(k, p)), NEW n \in Calls,
         NEW a \in 1 .. k
  PROVE  Got(n, a) \in Seq(CallIn(k, p)) /\ Len(Got(n, a)) = Len(call)
<1>1. n \in 1 .. Len(call) /\ n \in DOMAIN call
  BY DEF Calls
<1>2. PICK b \in CallIn(k, p) : b = call[n]
  BY <1>1
<1>3. "got" \in Places
  BY DEF Places
<1>4. PICK w \in 0 .. k : w = 0
  OBVIOUS
<1>5. [[b EXCEPT !.pc = "got", !.watch = w] EXCEPT !.at = a] \in CallIn(k, p)
  BY <1>2, <1>3, CallGets
<1>6. PICK x : x = [b EXCEPT !.pc = "got", !.watch = w]
  OBVIOUS
<1>7. At(n, "got", 0) = [call EXCEPT ![n] = x]
  BY <1>2, <1>4, <1>6 DEF At
<1>8. Got(n, a) = [call EXCEPT ![n] = [x EXCEPT !.at = a]]
  BY <1>1, <1>7 DEF Got
<1> QED BY <1>1, <1>5, <1>6, <1>8, PutTyped

LEMMA AwaitingTyped ==
  ASSUME NEW k \in Nat, NEW p \in Nat, call \in Seq(CallIn(k, p)), NEW n \in Calls,
         NEW q \in 1 .. p, NEW pc \in {"ready", "running"}, call[n].at # 0
  PROVE  Awaiting(n, pc, q) \in Seq(CallIn(k, p)) /\ Len(Awaiting(n, pc, q)) = Len(call)
<1>1. n \in 1 .. Len(call) /\ n \in DOMAIN call
  BY DEF Calls
<1>2. PICK b \in CallIn(k, p) : b = call[n]
  BY <1>1
<1>3. pc \in Places /\ pc # "startup"
  BY DEF Places
<1>4. PICK w \in 0 .. k : w = 0
  OBVIOUS
<1>5. [[b EXCEPT !.pc = pc, !.watch = w] EXCEPT !.proc = q] \in CallIn(k, p)
  BY <1>2, <1>3, CallStarts
<1>6. PICK x : x = [b EXCEPT !.pc = pc, !.watch = w]
  OBVIOUS
<1>7. At(n, pc, 0) = [call EXCEPT ![n] = x]
  BY <1>2, <1>4, <1>6 DEF At
<1>8. Awaiting(n, pc, q) = [call EXCEPT ![n] = [x EXCEPT !.proc = q]]
  BY <1>1, <1>7 DEF Awaiting
<1> QED BY <1>1, <1>5, <1>6, <1>8, PutTyped

\* The same for the places there are.
LEMMA AtOther ==
  ASSUME NEW k \in Nat, NEW p \in Nat, call \in Seq(CallIn(k, p)), NEW n \in Calls,
         NEW w \in 0 .. k, NEW pc \in {"term", "threw", "failing", "rstop", "cterm"}
  PROVE  At(n, pc, w) \in Seq(CallIn(k, p)) /\ Len(At(n, pc, w)) = Len(call)
<1>1. pc \in Places /\ pc # "startup" /\ pc \notin {"got", "stopping", "ready", "running"}
      /\ pc \notin {"ready", "running"}
  BY DEF Places
<1> QED BY <1>1, AtStays

LEMMA AtStartup ==
  ASSUME NEW k \in Nat, NEW p \in Nat, call \in Seq(CallIn(k, p)), NEW n \in Calls,
         NEW w \in 1 .. k
  PROVE  At(n, "startup", w) \in Seq(CallIn(k, p)) /\ Len(At(n, "startup", w)) = Len(call)
<1>1. PICK pc \in Places : pc = "startup"
  BY DEF Places
<1>2. w \in 0 .. k /\ w # 0 /\ pc \notin {"got", "stopping", "ready", "running"}
      /\ pc \notin {"ready", "running"}
  BY <1>1
<1>3. At(n, pc, w) \in Seq(CallIn(k, p)) /\ Len(At(n, pc, w)) = Len(call)
  BY <1>2, AtStays
<1> QED BY <1>1, <1>3

LEMMA AtStopping ==
  ASSUME NEW k \in Nat, NEW p \in Nat, call \in Seq(CallIn(k, p)), NEW n \in Calls,
         call[n].at # 0
  PROVE  At(n, "stopping", 0) \in Seq(CallIn(k, p)) /\ Len(At(n, "stopping", 0)) = Len(call)
<1>1. PICK pc \in Places : pc = "stopping"
  BY DEF Places
<1>2. PICK w \in 0 .. k : w = 0
  OBVIOUS
<1>3. pc # "startup" /\ pc \notin {"ready", "running"}
  BY <1>1
<1>4. At(n, pc, w) \in Seq(CallIn(k, p)) /\ Len(At(n, pc, w)) = Len(call)
  BY <1>3, AtStays
<1> QED BY <1>1, <1>2, <1>4
-----------------------------------------------------------------------------
(* How the types of the next state come together.                           *)

LEMMA Assembled ==
  ASSUME HostTypes, Objects', Len(call') >= Len(call), Len(kernel') >= Len(kernel),
         active' = active \/ active' \in 0 .. Len(call'),
         child' = child \/ child' \in 0 .. Len(kernel'),
         startup' = startup \/ startup' \in 0 .. Len(kernel'),
         termination' = termination \/ termination' \in 0 .. Len(kernel'),
         generation' = generation \/ generation' \in Nat,
         shuttingDown' = shuttingDown \/ shuttingDown' \in BOOLEAN,
         metadata' = metadata \/ metadata' \in BOOLEAN,
         moduleDirs' = moduleDirs \/ moduleDirs' \in SUBSET Dirs,
         cancellationTombstones' = cancellationTombstones \/ cancellationTombstones' \in Histories,
         completedRequestIds' = completedRequestIds \/ completedRequestIds' \in Histories
  PROVE  HostTypes'
<1>1. Objects /\ Fields /\ History
  BY DEF HostTypes
<1>2. /\ Len(call) \in Nat /\ Len(kernel) \in Nat /\ Len(call') \in Nat /\ Len(kernel') \in Nat
  BY <1>1 DEF Objects
<1>3. 0 .. Len(call) \subseteq 0 .. Len(call') /\ 0 .. Len(kernel) \subseteq 0 .. Len(kernel')
  BY <1>2
<1>4. Fields'
  BY <1>1, <1>3 DEF Fields
<1>5. History'
  BY <1>1 DEF History, Histories
<1> QED BY <1>4, <1>5 DEF HostTypes

\* No kernel and no process is added.
LEMMA SameObjects ==
  ASSUME Objects,
         call' \in Seq(CallIn(Len(kernel), Len(proc))), Len(call') >= Len(call),
         kernel' \in Seq(KernelIn(Len(proc))), Len(kernel') = Len(kernel),
         proc' \in Seq(ProcIn(Len(kernel), Len(call))), Len(proc') = Len(proc)
  PROVE  Objects'
<1>1. Len(kernel) \in Nat /\ Len(proc) \in Nat /\ Len(call) \in Nat /\ Len(call') \in Nat
  BY DEF Objects
<1>2. proc' \in Seq(ProcIn(Len(kernel), Len(call')))
  BY <1>1, MoreProcs
<1> QED BY <1>2 DEF Objects

LEMMA KeptObjects ==
  ASSUME Objects
  PROVE  /\ call \in Seq(CallIn(Len(kernel), Len(proc)))
         /\ kernel \in Seq(KernelIn(Len(proc)))
         /\ proc \in Seq(ProcIn(Len(kernel), Len(call)))
         /\ Len(call) >= Len(call) /\ Len(kernel) >= Len(kernel)
         /\ Len(kernel) \in Nat /\ Len(proc) \in Nat /\ Len(call) \in Nat
BY DEF Objects

\* A process is added, for kernel k, with its call gone elsewhere.
LEMMA SpawnedObjects ==
  ASSUME Objects, NEW k \in Kernels, NEW dirs \in SUBSET Dirs,
         proc' = Append(proc, NewProc(k, dirs)),
         call' \in Seq(CallIn(Len(kernel), Len(proc) + 1)), Len(call') = Len(call),
         kernel' \in Seq(KernelIn(Len(proc) + 1)), Len(kernel') = Len(kernel)
  PROVE  Objects'
<1>1. /\ Len(kernel) \in Nat /\ Len(proc) \in Nat /\ Len(call) \in Nat
      /\ k \in 1 .. Len(kernel) /\ proc \in Seq(ProcIn(Len(kernel), Len(call)))
  BY DEF Objects, Kernels
<1>2. NewProc(k, dirs) \in ProcIn(Len(kernel), Len(call))
  BY <1>1, NewProcTyped
<1>3. proc' \in Seq(ProcIn(Len(kernel), Len(call))) /\ Len(proc') = Len(proc) + 1
  BY <1>1, <1>2, AddTyped
<1> QED BY <1>3 DEF Objects

LEMMA NewCallAdded ==
  ASSUME Objects, NEW c \in Seq(CallIn(Len(kernel), Len(proc))), NEW r,
         r \in CallIn(Len(kernel), Len(proc)), Len(c) = Len(call)
  PROVE  /\ Append(c, r) \in Seq(CallIn(Len(kernel), Len(proc)))
         /\ Len(Append(c, r)) = Len(call) + 1 /\ Len(Append(c, r)) >= Len(call)
         /\ Len(Append(c, r)) \in Nat
<1>1. Len(call) \in Nat
  BY Sizes
<1>2. Append(c, r) \in Seq(CallIn(Len(kernel), Len(proc))) /\ Len(Append(c, r)) = Len(call) + 1
  BY AddTyped
<1> QED BY <1>1, <1>2
-----------------------------------------------------------------------------
(* Commands.                                                                *)

LEMMA ExecuteTypes ==
  ASSUME HostTypes, NEW id \in Ids, Execute(id)
  PROVE  HostTypes'
<1> DEFINE K == Len(kernel)
           P == Len(proc)
           fresh == NewCall("js", id, "term", termination)
<1>1. Objects /\ Fields /\ History
  BY DEF HostTypes
<1>2. K \in Nat /\ P \in Nat /\ Len(call) \in Nat /\ call \in Seq(CallIn(K, P))
  BY <1>1, KeptObjects
<1>3. PICK f \in CallIn(K, P) : f = fresh
  <2>1. termination \in 0 .. K /\ id \in AnyId
    BY <1>1 DEF Fields, AnyId
  <2> QED BY <1>2, <2>1, NewCallTyped
<1>4. /\ \/ /\ call' = Append(call, [f EXCEPT !.pc = "done", !.settled = TRUE,
                                              !.answer = "cancelled"])
            /\ active' = active
         \/ /\ call' = Append(call, [f EXCEPT !.timer = "armed"])
            /\ active' = Len(call) + 1
      /\ completedRequestIds' = Forget(completedRequestIds, id)
      /\ cancellationTombstones' = Forget(cancellationTombstones, id)
      /\ UNCHANGED <<kernel, proc, child, startup, termination, generation, shuttingDown,
                     metadata, moduleDirs>>
  BY <1>3, Zenon DEF Execute
<1>5. /\ [f EXCEPT !.pc = "done", !.settled = TRUE, !.answer = "cancelled"] \in CallIn(K, P)
      /\ [f EXCEPT !.timer = "armed"] \in CallIn(K, P)
  <2>1. "done" \in Places /\ "cancelled" \in Answers
    BY DEF Places, Answers
  <2>2. [f EXCEPT !.timer = "armed"] \in CallIn(K, P)
    BY DEF CallIn
  <2>3. [f EXCEPT !.pc = "done", !.settled = TRUE, !.answer = "cancelled"] \in CallIn(K, P)
    BY <2>1 DEF CallIn
  <2> QED BY <2>2, <2>3
<1>6. PICK r \in CallIn(K, P) : call' = Append(call, r)
  BY <1>4, <1>5
<1>7. call' \in Seq(CallIn(K, P)) /\ Len(call') = Len(call) + 1 /\ Len(call') >= Len(call)
  BY <1>1, <1>2, <1>6, NewCallAdded
<1>8. Objects'
  BY <1>1, <1>4, <1>7, KeptObjects, SameObjects
<1>9. active' = active \/ active' \in 0 .. Len(call')
  BY <1>2, <1>4, <1>7
<1>10. completedRequestIds' \in Histories /\ cancellationTombstones' \in Histories
  BY <1>1, <1>4, ForgottenTyped DEF History
<1> QED BY <1>2, <1>4, <1>7, <1>8, <1>9, <1>10, Assembled

LEMMA CancelTypes ==
  ASSUME HostTypes, NEW id \in Ids, Cancel(id)
  PROVE  HostTypes'
<1>1. Objects /\ Fields /\ History /\ id \in AnyId
  BY DEF HostTypes, AnyId
<1>2. UNCHANGED <<startup, generation, shuttingDown, metadata, moduleDirs>>
  BY DEF Cancel
<1>3. CASE /\ cancellationTombstones' = Remember(cancellationTombstones, id)
           /\ UNCHANGED <<call, kernel, proc, active, child, termination, completedRequestIds>>
  <2>1. cancellationTombstones' \in Histories
    BY <1>1, <1>3, RememberTyped DEF History
  <2>2. Objects'
    BY <1>1, <1>3, KeptObjects, SameObjects
  <2> QED BY <1>1, <1>2, <1>3, <2>1, <2>2, KeptObjects, Assembled
<1>4. CASE /\ active # 0
           /\ DropChild(Settled(call, active, "cancelled"))
           /\ active' = 0
           /\ completedRequestIds' = Remember(completedRequestIds, id)
           /\ UNCHANGED cancellationTombstones
  <2>1. active \in 1 .. Len(call) /\ "cancelled" \in Answers
    BY <1>1, <1>4, KeptObjects DEF Fields, Answers
  <2>2. PICK c \in Seq(CallIn(Len(kernel), Len(proc))) :
          c = Settled(call, active, "cancelled") /\ Len(c) = Len(call)
    BY <1>1, <2>1, KeptObjects, SettledTyped
  <2>3. /\ kernel' \in Seq(KernelIn(Len(proc))) /\ Len(kernel') = Len(kernel)
        /\ proc' \in Seq(ProcIn(Len(kernel), Len(call))) /\ Len(proc') = Len(proc)
        /\ call' \in Seq(CallIn(Len(kernel), Len(proc))) /\ Len(call') = Len(c)
        /\ child' \in 0 .. Len(kernel) /\ termination' \in 0 .. Len(kernel)
    BY <1>1, <1>4, <2>2, DropChildTyped
  <2>4. Len(call') >= Len(call) /\ Len(kernel') >= Len(kernel)
    BY <1>1, <2>2, <2>3, KeptObjects
  <2>5. Objects'
    BY <1>1, <2>3, <2>4, SameObjects
  <2>6. completedRequestIds' \in Histories
    BY <1>1, <1>4, RememberTyped DEF History
  <2>7. active' \in 0 .. Len(call')
    BY <1>1, <1>4, <2>2, <2>3, KeptObjects
  <2>8. child' \in 0 .. Len(kernel') /\ termination' \in 0 .. Len(kernel')
    BY <2>3
  <2> QED BY <1>2, <1>4, <2>4, <2>5, <2>6, <2>7, <2>8, Assembled
<1> QED BY <1>3, <1>4, Zenon DEF Cancel

\* The calls once the active one has been dismissed.
LEMMA DismissedTyped ==
  ASSUME Objects, Fields, NEW answer \in {"reset", "shutdown"}
  PROVE  \E c \in Seq(CallIn(Len(kernel), Len(proc))) :
           /\ c = IF Dismissed THEN Settled(call, active, answer) ELSE call
           /\ Len(c) = Len(call)
<1>1. CASE Dismissed
  <2>1. active \in 1 .. Len(call) /\ answer \in Answers
    BY <1>1, KeptObjects DEF Fields, Answers, Dismissed
  <2> QED BY <1>1, <2>1, KeptObjects, SettledTyped
<1>2. CASE ~Dismissed
  BY <1>2, KeptObjects
<1> QED BY <1>1, <1>2

LEMMA ResetTypes ==
  ASSUME HostTypes, Reset
  PROVE  HostTypes'
<1> DEFINE K == Len(kernel)
           P == Len(proc)
<1>1. Objects /\ Fields /\ History
  BY DEF HostTypes
<1>2. K \in Nat /\ P \in Nat /\ Len(call) \in Nat
  BY <1>1, KeptObjects
<1>3. PICK c \in Seq(CallIn(K, P)) :
        c = (IF Dismissed THEN Settled(call, active, "reset") ELSE call) /\ Len(c) = Len(call)
  BY <1>1, DismissedTyped
<1>4. PICK r \in CallIn(K, P) : r = NewCall("reset", "none", "rterm", termination)
  <2>1. termination \in 0 .. K /\ "none" \in AnyId
    BY <1>1 DEF Fields, AnyId
  <2> QED BY <1>2, <2>1, NewCallTyped
<1>5. /\ call' = Append(c, r) /\ generation' = generation + 1
      /\ active' = IF Dismissed THEN 0 ELSE active
      /\ UNCHANGED <<kernel, proc, child, startup, termination, shuttingDown, metadata,
                     moduleDirs, cancellationTombstones, completedRequestIds>>
  BY <1>3, <1>4, Zenon DEF Reset
<1>6. /\ call' \in Seq(CallIn(K, P)) /\ Len(call') >= Len(call) /\ Len(call') \in Nat
  BY <1>1, <1>3, <1>5, NewCallAdded
<1>7. Objects'
  BY <1>1, <1>5, <1>6, KeptObjects, SameObjects
<1>8. active' = active \/ active' \in 0 .. Len(call')
  BY <1>5, <1>6
<1>9. generation' \in Nat
  BY <1>1, <1>5 DEF Fields
<1> QED BY <1>2, <1>5, <1>6, <1>7, <1>8, <1>9, Assembled

LEMMA AddNodeModuleDirTypes ==
  ASSUME HostTypes, NEW d \in Dirs, AddNodeModuleDir(d)
  PROVE  HostTypes'
<1> DEFINE K == Len(kernel)
           P == Len(proc)
           fresh == NewCall("dir", d, "term", termination)
<1>1. Objects /\ Fields /\ History
  BY DEF HostTypes
<1>2. K \in Nat /\ P \in Nat /\ Len(call) \in Nat /\ call \in Seq(CallIn(K, P))
  BY <1>1, KeptObjects
<1>3. PICK f \in CallIn(K, P) : f = fresh
  <2>1. termination \in 0 .. K /\ d \in AnyId
    BY <1>1 DEF Fields, AnyId
  <2> QED BY <1>2, <2>1, NewCallTyped
<1>4. /\ call' = Append(call, IF d \in moduleDirs
                                THEN [f EXCEPT !.pc = "done", !.settled = TRUE, !.answer = "ok"]
                                ELSE f)
      /\ moduleDirs' = moduleDirs \cup {d}
      /\ UNCHANGED <<kernel, proc, active, child, startup, termination, generation, shuttingDown,
                     metadata, cancellationTombstones, completedRequestIds>>
  BY <1>3, Zenon DEF AddNodeModuleDir
<1>5. [f EXCEPT !.pc = "done", !.settled = TRUE, !.answer = "ok"] \in CallIn(K, P)
  <2>1. "done" \in Places /\ "ok" \in Answers
    BY DEF Places, Answers
  <2> QED BY <2>1 DEF CallIn
<1>6. PICK r \in CallIn(K, P) : call' = Append(call, r)
  BY <1>4, <1>5
<1>7. call' \in Seq(CallIn(K, P)) /\ Len(call') >= Len(call)
  BY <1>1, <1>2, <1>6, NewCallAdded
<1>8. Objects'
  BY <1>1, <1>4, <1>7, KeptObjects, SameObjects
<1>9. moduleDirs' \in SUBSET Dirs
  BY <1>1, <1>4 DEF Fields
<1> QED BY <1>2, <1>4, <1>7, <1>8, <1>9, Assembled

LEMMA CloseTypes ==
  ASSUME HostTypes, Close
  PROVE  HostTypes'
<1> DEFINE K == Len(kernel)
           P == Len(proc)
<1>1. Objects /\ Fields /\ History
  BY DEF HostTypes
<1>2. K \in Nat /\ P \in Nat /\ Len(call) \in Nat
  BY <1>1, KeptObjects
<1>3. PICK c \in Seq(CallIn(K, P)) :
        c = (IF Dismissed THEN Settled(call, active, "shutdown") ELSE call) /\ Len(c) = Len(call)
  BY <1>1, DismissedTyped
<1>4. PICK r \in CallIn(K, P) : r = NewCall("close", "none", "cstart", startup)
  <2>1. startup \in 0 .. K /\ "none" \in AnyId
    BY <1>1 DEF Fields, AnyId
  <2> QED BY <1>2, <2>1, NewCallTyped
<1>5. /\ DropChild(Append(c, r)) /\ generation' = generation + 1 /\ shuttingDown' = TRUE
      /\ active' = (IF Dismissed THEN 0 ELSE active)
      /\ UNCHANGED <<startup, metadata, moduleDirs>>
  BY <1>3, <1>4, Zenon DEF Close
<1>6. cancellationTombstones' \in Histories /\ completedRequestIds' \in Histories
  <2>1. cancellationTombstones' = <<>> /\ completedRequestIds' = <<>>
    BY DEF Close
  <2> QED BY <2>1, EmptyTyped
<1>7. PICK e \in Seq(CallIn(K, P)) : e = Append(c, r) /\ Len(e) >= Len(call) /\ Len(e) \in Nat
  BY <1>1, <1>3, NewCallAdded
<1>8. /\ kernel' \in Seq(KernelIn(Len(proc))) /\ Len(kernel') = Len(kernel)
      /\ proc' \in Seq(ProcIn(Len(kernel), Len(call))) /\ Len(proc') = Len(proc)
      /\ call' \in Seq(CallIn(Len(kernel), Len(proc))) /\ Len(call') = Len(e)
      /\ child' \in 0 .. Len(kernel) /\ termination' \in 0 .. Len(kernel)
  BY <1>1, <1>5, <1>7, DropChildTyped
<1>9. Objects'
  BY <1>1, <1>7, <1>8, SameObjects
<1>10. active' = active \/ active' \in 0 .. Len(call')
  BY <1>5, <1>7, <1>8
<1>11. /\ generation' \in Nat /\ Len(kernel') >= Len(kernel) /\ Len(call') >= Len(call)
       /\ child' \in 0 .. Len(kernel') /\ termination' \in 0 .. Len(kernel')
  BY <1>1, <1>2, <1>5, <1>7, <1>8 DEF Fields
<1> QED BY <1>5, <1>6, <1>9, <1>10, <1>11, Assembled
-----------------------------------------------------------------------------
(* Microtasks of a call.                                                    *)

\* A step that adds no kernel or process, as far as it changes one at all.
LEMMA PlainStep ==
  ASSUME HostTypes,
         call' \in Seq(CallIn(Len(kernel), Len(proc))), Len(call') = Len(call),
         kernel' \in Seq(KernelIn(Len(proc))), Len(kernel') = Len(kernel),
         proc' \in Seq(ProcIn(Len(kernel), Len(call))), Len(proc') = Len(proc),
         active' = active \/ active' \in 0 .. Len(call),
         child' = child \/ child' \in 0 .. Len(kernel),
         startup' = startup \/ startup' = 0,
         termination' = termination \/ termination' \in 0 .. Len(kernel),
         metadata' = metadata \/ metadata' \in BOOLEAN,
         UNCHANGED <<generation, shuttingDown, moduleDirs, cancellationTombstones>>,
         completedRequestIds' = completedRequestIds \/ completedRequestIds' \in Histories
  PROVE  HostTypes'
<1>1. Objects
  BY DEF HostTypes
<1>2. Len(call') >= Len(call) /\ Len(kernel') >= Len(kernel) /\ 0 \in 0 .. Len(kernel')
  BY <1>1, KeptObjects
<1>3. Objects'
  BY <1>1, <1>2, SameObjects
<1>4. /\ active' = active \/ active' \in 0 .. Len(call')
      /\ child' = child \/ child' \in 0 .. Len(kernel')
      /\ startup' = startup \/ startup' \in 0 .. Len(kernel')
      /\ termination' = termination \/ termination' \in 0 .. Len(kernel')
  BY <1>2
<1> QED BY <1>2, <1>3, <1>4, Assembled

\* ... that only moves a call.
LEMMA CallStep ==
  ASSUME HostTypes, UNCHANGED <<kernel, proc, manager>>,
         call' \in Seq(CallIn(Len(kernel), Len(proc))), Len(call') = Len(call)
  PROVE  HostTypes'
<1>1. Objects
  BY DEF HostTypes
<1> QED BY <1>1, KeptObjects, PlainStep DEF manager

LEMMA ThrewTyped ==
  ASSUME Objects, NEW n \in Calls
  PROVE  At(n, "threw", 0) \in Seq(CallIn(Len(kernel), Len(proc))) /\ Len(At(n, "threw", 0)) = Len(call)
<1>1. "threw" \in Places /\ 0 \in 0 .. Len(kernel)
  BY KeptObjects DEF Places
<1> QED BY <1>1, KeptObjects, AtOther

LEMMA ResumeEnsureChildTypes ==
  ASSUME HostTypes, NEW n \in Calls, ResumeEnsureChild(n)
  PROVE  HostTypes'
<1> DEFINE K == Len(kernel)
           P == Len(proc)
<1>1. Objects /\ Fields /\ History
  BY DEF HostTypes
<1>2. /\ K \in Nat /\ P \in Nat /\ Len(call) \in Nat /\ call \in Seq(CallIn(K, P))
      /\ kernel \in Seq(KernelIn(P)) /\ proc \in Seq(ProcIn(K, Len(call)))
      /\ 0 \in 0 .. K /\ Len(call) >= Len(call)
  BY <1>1, KeptObjects
<1>3. /\ UNCHANGED <<proc, active, child, generation, shuttingDown, metadata, moduleDirs,
                     cancellationTombstones, completedRequestIds>>
      /\ termination' = termination \/ termination' = 0
  BY DEF ResumeEnsureChild
<1>4. CASE call' = At(n, "threw", 0) /\ UNCHANGED <<kernel, startup>>
  BY <1>1, <1>2, <1>3, <1>4, ThrewTyped, PlainStep
<1>5. CASE child # 0 /\ call' = [At(n, "got", 0) EXCEPT ![n].at = child] /\ UNCHANGED <<kernel, startup>>
  <2>1. child \in 1 .. K /\ "got" \in Places
    BY <1>1, <1>2, <1>5 DEF Fields, Places
  <2>2. call' \in Seq(CallIn(K, P)) /\ Len(call') = Len(call)
    <3>1. call' = Got(n, child)
      BY <1>5 DEF Got
    <3> QED BY <1>2, <2>1, <3>1, GotTyped
  <2> QED BY <1>2, <1>3, <1>5, <2>2, PlainStep
<1>6. CASE startup # 0 /\ call' = At(n, "startup", startup) /\ UNCHANGED <<kernel, startup>>
  <2>1. startup \in 1 .. K
    BY <1>1, <1>2, <1>6 DEF Fields
  <2>2. call' \in Seq(CallIn(K, P)) /\ Len(call') = Len(call)
    BY <1>2, <1>6, <2>1, AtStartup
  <2> QED BY <1>2, <1>3, <1>6, <2>2, PlainStep
<1>7. CASE /\ kernel' = Append(kernel, NewKernel(generation))
           /\ startup' = K + 1
           /\ call' = At(n, "startup", K + 1)
  <2>1. NewKernel(generation) \in KernelIn(P)
    BY <1>1, <1>2, NewKernelTyped DEF Fields
  <2>2. kernel' \in Seq(KernelIn(P)) /\ Len(kernel') = K + 1
    BY <1>2, <1>7, <2>1, AddTyped
  <2>3. call \in Seq(CallIn(K + 1, P)) /\ proc \in Seq(ProcIn(K + 1, Len(call)))
    BY <1>2, MoreCalls, MoreProcs
  <2>4. K + 1 \in Nat /\ K + 1 \in 1 .. K + 1
    BY <1>2
  <2>5. call' \in Seq(CallIn(K + 1, P)) /\ Len(call') = Len(call)
    BY <1>2, <1>7, <2>3, <2>4, AtStartup
  <2>6. Objects'
    BY <1>3, <2>2, <2>3, <2>5 DEF Objects
  <2>7. startup' \in 0 .. Len(kernel') /\ Len(kernel') >= K /\ Len(call') >= Len(call)
        /\ (termination' = termination \/ termination' \in 0 .. Len(kernel'))
    BY <1>2, <1>3, <1>7, <2>2, <2>5
  <2> QED BY <1>3, <2>6, <2>7, Assembled
<1> QED BY <1>4, <1>5, <1>6, <1>7, Zenon DEF ResumeEnsureChild

LEMMA ResumeStartupTypes ==
  ASSUME HostTypes, NEW n \in Calls, ResumeStartup(n)
  PROVE  HostTypes'
<1>1. Objects /\ Fields
  BY DEF HostTypes
<1>2. UNCHANGED <<kernel, proc, manager>>
  BY DEF ResumeStartup
<1>3. CASE call' = At(n, "threw", 0)
  BY <1>1, <1>2, <1>3, ThrewTyped, CallStep
<1>4. CASE call' = At(n, "term", termination)
  <2>1. termination \in 0 .. Len(kernel) /\ "term" \in Places
    BY <1>1 DEF Fields, Places
  <2>2. call' \in Seq(CallIn(Len(kernel), Len(proc))) /\ Len(call') = Len(call)
    BY <1>1, <1>4, <2>1, KeptObjects, AtOther
  <2> QED BY <1>2, <2>2, CallStep
<1> QED BY <1>3, <1>4 DEF ResumeStartup

\* The process of a start belongs to kernel k and takes its directories.
LEMMA SpawnTypes ==
  ASSUME HostTypes, NEW n \in Calls, NEW k \in Kernels, Spawn(k), call[n].at # 0,
         call' = [At(n, "ready", 0) EXCEPT ![n].proc = Len(proc) + 1], UNCHANGED manager
  PROVE  HostTypes'
<1> DEFINE K == Len(kernel)
           P == Len(proc)
<1>1. Objects /\ Fields /\ History
  BY DEF HostTypes
<1>2. /\ K \in Nat /\ P \in Nat /\ Len(call) \in Nat /\ call \in Seq(CallIn(K, P))
      /\ kernel \in Seq(KernelIn(P)) /\ proc \in Seq(ProcIn(K, Len(call)))
      /\ 0 \in 0 .. K /\ P + 1 \in Nat /\ P + 1 \in 1 .. P + 1 /\ P + 1 \in 0 .. P + 1
  BY <1>1, KeptObjects
<1>3. call \in Seq(CallIn(K, P + 1)) /\ kernel \in Seq(KernelIn(P + 1))
  <2>1. PICK k0 \in Nat, p0 \in Nat, q0 \in Nat : k0 = K /\ p0 = P /\ q0 = P + 1
    BY <1>2
  <2>2. k0 >= k0 /\ q0 >= p0
    BY <2>1
  <2>3. /\ Seq(CallIn(k0, p0)) \subseteq Seq(CallIn(k0, q0))
        /\ Seq(KernelIn(p0)) \subseteq Seq(KernelIn(q0))
    BY <2>2, MoreCalls, MoreKernels
  <2> QED BY <1>2, <2>1, <2>3
<1>4. "ready" \in {"ready", "running"}
  OBVIOUS
<1>5. call' \in Seq(CallIn(K, P + 1)) /\ Len(call') = Len(call)
  <2>1. PICK m \in Nat, k0 \in Nat : m = P + 1 /\ m \in 1 .. m /\ k0 = K
    BY <1>2
  <2>2. PICK q \in 1 .. m : q = m
    BY <2>1
  <2>3. call' = Awaiting(n, "ready", q) /\ call \in Seq(CallIn(k0, m))
    BY <1>3, <2>1, <2>2 DEF Awaiting
  <2>4. Awaiting(n, "ready", q) \in Seq(CallIn(k0, m)) /\ Len(Awaiting(n, "ready", q)) = Len(call)
    BY <1>4, <2>3, AwaitingTyped
  <2> HIDE DEF K, P
  <2>5. call' \in Seq(CallIn(K, m)) /\ Len(call') = Len(call)
    BY <2>1, <2>3, <2>4
  <2> QED BY <2>1, <2>5
<1>6. PICK r \in KernelIn(P + 1) : r = kernel[k] /\ k \in 1 .. K
  BY <1>3 DEF Kernels
<1>7. [r EXCEPT !.proc = P + 1] \in KernelIn(P + 1)
  BY <1>2, KernelGets
<1>8. kernel' = [kernel EXCEPT ![k] = [r EXCEPT !.proc = P + 1]]
  BY <1>6 DEF Spawn
<1>9. kernel' \in Seq(KernelIn(P + 1)) /\ Len(kernel') = K
  BY <1>3, <1>6, <1>7, <1>8, PutTyped
<1>10. kernel[k].dirs \in SUBSET Dirs /\ proc' = Append(proc, NewProc(k, kernel[k].dirs))
  BY <1>2, <1>6, KernelFields DEF Spawn
<1>11. Objects'
  BY <1>1, <1>5, <1>9, <1>10, SpawnedObjects
<1>12. Len(call') >= Len(call) /\ Len(kernel') >= K
  BY <1>2, <1>5, <1>9
<1> QED BY <1>11, <1>12, Assembled DEF manager

LEMMA StartTypes ==
  ASSUME HostTypes, NEW n \in Calls, Start(n)
  PROVE  HostTypes'
<1> DEFINE K == Len(kernel)
           P == Len(proc)
<1>1. Objects /\ Fields /\ History
  BY DEF HostTypes
<1>2. /\ K \in Nat /\ P \in Nat /\ Len(call) \in Nat /\ call \in Seq(CallIn(K, P))
      /\ 0 \in 0 .. K
  BY <1>1, KeptObjects
<1>3. PICK k : k = call[n].at /\ call[n].pc = "got" /\ UNCHANGED manager
  BY DEF Start
<1>4. k \in Kernels /\ call[n].at # 0
  <2>1. call[n] \in CallIn(K, P)
    BY <1>1, CallTyped
  <2> QED BY <1>2, <1>3, <2>1, CallFields DEF Kernels
<1>5. kernel[k].proc # 0 => kernel[k].proc \in 1 .. P
  BY <1>1, <1>2, <1>4, KernelTyped, KernelFields
<1>6. "ready" \in Places /\ "stopping" \in Places /\ "ok" \in Answers /\ "error" \in Answers
  BY DEF Places, Answers
<1>7. CASE (Return(n, "ok") \/ Return(n, "error")) /\ UNCHANGED <<kernel, proc>>
  BY <1>1, <1>3, <1>6, <1>7, ReturnTyped, CallStep
<1>8. CASE call' = Ended(call, n) /\ UNCHANGED <<kernel, proc>>
  <2>1. call' \in Seq(CallIn(K, P)) /\ Len(call') = Len(call)
    BY <1>2, <1>8, EndedTyped DEF Calls
  <2> QED BY <1>3, <1>8, <2>1, CallStep
<1>9. CASE /\ kernel[k].proc # 0 /\ call' = [At(n, "ready", 0) EXCEPT ![n].proc = kernel[k].proc]
           /\ UNCHANGED <<kernel, proc>>
  <2>1. PICK q \in 1 .. P : q = kernel[k].proc
    BY <1>5, <1>9
  <2>2. call' \in Seq(CallIn(K, P)) /\ Len(call') = Len(call)
    <3>1. call' = Awaiting(n, "ready", q)
      BY <1>9, <2>1 DEF Awaiting
    <3> QED BY <1>2, <1>4, <3>1, AwaitingTyped
  <2> QED BY <1>3, <1>9, <2>2, CallStep
<1>10. CASE call' = At(n, "stopping", 0) /\ UNCHANGED <<kernel, proc>>
  <2>1. call' \in Seq(CallIn(K, P)) /\ Len(call') = Len(call)
    BY <1>2, <1>4, <1>10, AtStopping
  <2> QED BY <1>3, <1>10, <2>1, CallStep
<1>11. CASE Spawn(k) /\ call' = [At(n, "ready", 0) EXCEPT ![n].proc = Len(proc) + 1]
  BY <1>3, <1>4, <1>11, SpawnTypes
<1> QED BY <1>3, <1>7, <1>8, <1>9, <1>10, <1>11, Zenon DEF Start

LEMMA RestartTypes ==
  ASSUME HostTypes, NEW n \in Calls, Restart(n)
  PROVE  HostTypes'
<1>1. Objects
  BY DEF HostTypes
<1>2. PICK k : k = call[n].at /\ call[n].pc = "stopping" /\ UNCHANGED manager
  BY DEF Restart
<1>3. k \in Kernels /\ call[n].at # 0
  BY <1>1, <1>2, CallTyped, KeptObjects, CallFields DEF Kernels
<1>4. CASE call' = At(n, "threw", 0) /\ UNCHANGED <<kernel, proc>>
  BY <1>1, <1>2, <1>4, ThrewTyped, CallStep
<1>5. CASE Spawn(k) /\ call' = [At(n, "ready", 0) EXCEPT ![n].proc = Len(proc) + 1]
  BY <1>2, <1>3, <1>5, SpawnTypes
<1> QED BY <1>2, <1>4, <1>5, Zenon DEF Restart

LEMMA SendTypes ==
  ASSUME HostTypes, NEW n \in Calls, Send(n)
  PROVE  HostTypes'
<1> DEFINE K == Len(kernel)
           P == Len(proc)
<1>1. Objects /\ Fields /\ History
  BY DEF HostTypes
<1>2. /\ K \in Nat /\ P \in Nat /\ Len(call) \in Nat /\ call \in Seq(CallIn(K, P))
      /\ kernel \in Seq(KernelIn(P)) /\ proc \in Seq(ProcIn(K, Len(call)))
      /\ 0 \in 0 .. K
  BY <1>1, KeptObjects
<1>3. PICK k, p : k = call[n].at /\ p = kernel[k].proc
  OBVIOUS
<1>4. /\ call[n].pc = "ready"
      /\ UNCHANGED <<kernel, child, startup, termination, generation, shuttingDown, metadata,
                     moduleDirs, cancellationTombstones>>
  BY DEF Send
<1>5. k \in Kernels /\ call[n].at # 0
  BY <1>1, <1>2, <1>3, <1>4, CallTyped, CallFields DEF Kernels
<1>6. p # 0 => p \in 1 .. P
  BY <1>1, <1>2, <1>3, <1>5, KernelTyped, KernelFields
<1>7. "running" \in Places /\ "ok" \in Answers
  BY DEF Places, Answers
<1>8. CASE call' = At(n, "threw", 0) /\ UNCHANGED <<proc, active, completedRequestIds>>
  BY <1>1, <1>2, <1>4, <1>8, ThrewTyped, PlainStep
<1>9. CASE /\ p # 0
           /\ call' = [At(n, "running", 0) EXCEPT ![n].proc = p]
           /\ proc' = IF call[n].kind = "js" THEN [proc EXCEPT ![p].run = n] ELSE proc
           /\ UNCHANGED <<active, completedRequestIds>>
  <2>1. call' \in Seq(CallIn(K, P)) /\ Len(call') = Len(call)
    <3>1. PICK q \in 1 .. P : q = p
      BY <1>6, <1>9
    <3>2. call' = Awaiting(n, "running", q)
      BY <1>9, <3>1 DEF Awaiting
    <3> QED BY <1>2, <1>5, <3>2, AwaitingTyped
  <2>2. PICK r \in ProcIn(K, Len(call)) : r = proc[p]
    BY <1>2, <1>6, <1>9
  <2>3. PICK x \in ProcIn(K, Len(call)) : x = [r EXCEPT !.run = n]
    <3>1. n \in 0 .. Len(call)
      BY <1>2 DEF Calls
    <3> QED BY <3>1 DEF ProcIn
  <2>4. [proc EXCEPT ![p].run = n] = [proc EXCEPT ![p] = x]
    BY <2>2, <2>3
  <2>5. [proc EXCEPT ![p] = x] \in Seq(ProcIn(K, Len(call))) /\ Len([proc EXCEPT ![p] = x]) = P
    BY <1>2, <1>6, <1>9, PutTyped
  <2>6. proc' \in Seq(ProcIn(K, Len(call))) /\ Len(proc') = P
    BY <1>2, <1>9, <2>4, <2>5
  <2> QED BY <1>2, <1>4, <1>9, <2>1, <2>6, PlainStep
<1>10. CASE Finish(n, "ok") /\ UNCHANGED proc
  BY <1>1, <1>2, <1>4, <1>7, <1>10, FinishTyped, PlainStep
<1> QED BY <1>3, <1>8, <1>9, <1>10, Zenon DEF Send

LEMMA CatchTypes ==
  ASSUME HostTypes, NEW n \in Calls, Catch(n)
  PROVE  HostTypes'
<1> DEFINE K == Len(kernel)
           P == Len(proc)
<1>1. Objects /\ Fields /\ History
  BY DEF HostTypes
<1>2. /\ K \in Nat /\ P \in Nat /\ Len(call) \in Nat /\ call \in Seq(CallIn(K, P))
      /\ kernel \in Seq(KernelIn(P)) /\ proc \in Seq(ProcIn(K, Len(call)))
  BY <1>1, KeptObjects
<1>3. UNCHANGED <<startup, generation, shuttingDown, metadata, moduleDirs, cancellationTombstones>>
  BY DEF Catch
<1>4. "failing" \in Places /\ "error" \in Answers
  BY DEF Places, Answers
<1>5. CASE /\ call' = Ended(call, n)
           /\ UNCHANGED <<kernel, proc, active, child, termination, completedRequestIds>>
  <2>1. call' \in Seq(CallIn(K, P)) /\ Len(call') = Len(call)
    BY <1>2, <1>5, EndedTyped DEF Calls
  <2> QED BY <1>2, <1>3, <1>5, <2>1, PlainStep
<1>6. CASE DropChild(At(n, "failing", child)) /\ UNCHANGED <<active, completedRequestIds>>
  <2>1. child \in 0 .. K
    BY <1>1 DEF Fields
  <2>2. PICK c \in Seq(CallIn(K, P)) : c = At(n, "failing", child) /\ Len(c) = Len(call)
    BY <1>2, <2>1, AtOther
  <2>3. /\ kernel' \in Seq(KernelIn(Len(proc))) /\ Len(kernel') = Len(kernel)
        /\ proc' \in Seq(ProcIn(Len(kernel), Len(call))) /\ Len(proc') = Len(proc)
        /\ call' \in Seq(CallIn(Len(kernel), Len(proc))) /\ Len(call') = Len(c)
        /\ child' \in 0 .. Len(kernel) /\ termination' \in 0 .. Len(kernel)
    BY <1>1, <1>6, <2>2, DropChildTyped
  <2> QED BY <1>3, <1>6, <2>2, <2>3, PlainStep
<1>7. CASE Finish(n, "error") /\ UNCHANGED <<kernel, proc, child, termination>>
  BY <1>1, <1>2, <1>3, <1>4, <1>7, FinishTyped, PlainStep
<1>8. CASE /\ Return(n, "error")
           /\ UNCHANGED <<kernel, proc, active, child, termination, completedRequestIds>>
  BY <1>1, <1>2, <1>3, <1>4, <1>8, ReturnTyped, PlainStep
<1> QED BY <1>5, <1>6, <1>7, <1>8, Zenon DEF Catch

LEMMA AwaitedTyped ==
  ASSUME Objects, Fields, NEW w, Awaited(w)
  PROVE  termination' \in 0 .. Len(kernel)
BY KeptObjects DEF Awaited, Fields

LEMMA FailTypes ==
  ASSUME HostTypes, NEW n \in Calls, Fail(n)
  PROVE  HostTypes'
<1>1. Objects /\ Fields /\ History
  BY DEF HostTypes
<1>2. /\ UNCHANGED <<kernel, proc, child, startup, generation, shuttingDown, metadata, moduleDirs,
                     cancellationTombstones>>
      /\ Finish(n, "error") /\ Awaited(call[n].watch) /\ "error" \in Answers
  BY DEF Fail, Answers
<1>3. termination' \in 0 .. Len(kernel)
  BY <1>1, <1>2, AwaitedTyped
<1> QED BY <1>1, <1>2, <1>3, KeptObjects, FinishTyped, PlainStep

LEMMA ResumeRestartTypes ==
  ASSUME HostTypes, NEW n \in Calls, ResumeRestart(n)
  PROVE  HostTypes'
<1> DEFINE K == Len(kernel)
           P == Len(proc)
<1>1. Objects /\ Fields /\ History
  BY DEF HostTypes
<1>2. /\ K \in Nat /\ P \in Nat /\ Len(call) \in Nat /\ call \in Seq(CallIn(K, P))
      /\ kernel \in Seq(KernelIn(P)) /\ proc \in Seq(ProcIn(K, Len(call)))
  BY <1>1, KeptObjects
<1>3. UNCHANGED <<active, startup, generation, shuttingDown, metadata, moduleDirs,
                  cancellationTombstones, completedRequestIds>>
  BY DEF ResumeRestart
<1>4. "rstop" \in Places /\ "term" \in Places /\ "error" \in Answers
  BY DEF Places, Answers
<1>5. CASE Return(n, "error") /\ UNCHANGED <<kernel, proc, child, termination>>
  BY <1>1, <1>2, <1>3, <1>4, <1>5, ReturnTyped, PlainStep
<1>6. CASE DropChild(At(n, "rstop", child))
  <2>1. child \in 0 .. K
    BY <1>1 DEF Fields
  <2>2. PICK c \in Seq(CallIn(K, P)) : c = At(n, "rstop", child) /\ Len(c) = Len(call)
    BY <1>2, <2>1, AtOther
  <2>3. /\ kernel' \in Seq(KernelIn(Len(proc))) /\ Len(kernel') = Len(kernel)
        /\ proc' \in Seq(ProcIn(Len(kernel), Len(call))) /\ Len(proc') = Len(proc)
        /\ call' \in Seq(CallIn(Len(kernel), Len(proc))) /\ Len(call') = Len(c)
        /\ child' \in 0 .. Len(kernel) /\ termination' \in 0 .. Len(kernel)
    BY <1>1, <1>6, <2>2, DropChildTyped
  <2> QED BY <1>3, <2>2, <2>3, PlainStep
<1>7. CASE /\ Awaited(call[n].watch) /\ call' = At(n, "term", termination')
           /\ UNCHANGED <<kernel, proc, child>>
  <2>1. PICK w \in 0 .. K : w = termination'
    BY <1>1, <1>7, AwaitedTyped
  <2>2. call' \in Seq(CallIn(K, P)) /\ Len(call') = Len(call)
    BY <1>2, <1>7, <2>1, AtOther
  <2> QED BY <1>2, <1>3, <1>7, <2>1, <2>2, PlainStep
<1> QED BY <1>5, <1>6, <1>7, Zenon DEF ResumeRestart

LEMMA ResumeCloseTypes ==
  ASSUME HostTypes, NEW n \in Calls, ResumeClose(n)
  PROVE  HostTypes'
<1>1. Objects /\ Fields /\ History
  BY DEF HostTypes
<1>2. UNCHANGED <<kernel, proc, active, child, generation, shuttingDown, metadata, moduleDirs,
                  cancellationTombstones, completedRequestIds>>
  BY DEF ResumeClose
<1>3. "cterm" \in Places /\ "error" \in Answers /\ "ok" \in Answers
  BY DEF Places, Answers
<1>4. CASE startup' = 0 /\ call' = At(n, "cterm", termination) /\ UNCHANGED termination
  <2>1. termination \in 0 .. Len(kernel)
    BY <1>1 DEF Fields
  <2>2. call' \in Seq(CallIn(Len(kernel), Len(proc))) /\ Len(call') = Len(call)
    BY <1>1, <1>3, <1>4, <2>1, KeptObjects, AtOther
  <2> QED BY <1>1, <1>2, <1>4, <2>2, KeptObjects, PlainStep
<1>5. CASE /\ Awaited(call[n].watch)
           /\ Return(n, IF Unkillable(call[n].watch) THEN "error" ELSE "ok")
           /\ UNCHANGED startup
  <2>1. PICK a \in Answers : Return(n, a)
    BY <1>3, <1>5
  <2>2. call' \in Seq(CallIn(Len(kernel), Len(proc))) /\ Len(call') = Len(call)
    BY <1>1, <2>1, ReturnTyped
  <2>3. termination' \in 0 .. Len(kernel)
    BY <1>1, <1>5, AwaitedTyped
  <2> QED BY <1>1, <1>2, <1>5, <2>2, <2>3, KeptObjects, PlainStep
<1> QED BY <1>4, <1>5, Zenon DEF ResumeClose

LEMMA ResumeTimeoutTypes ==
  ASSUME HostTypes, NEW n \in Calls, ResumeTimeout(n)
  PROVE  HostTypes'
<1> DEFINE K == Len(kernel)
           P == Len(proc)
<1>1. Objects /\ Fields /\ History
  BY DEF HostTypes
<1>2. /\ K \in Nat /\ P \in Nat /\ Len(call) \in Nat /\ call \in Seq(CallIn(K, P))
      /\ n \in 1 .. Len(call)
  BY <1>1, KeptObjects DEF Calls
<1>3. /\ UNCHANGED <<kernel, proc, child, startup, generation, shuttingDown, metadata, moduleDirs,
                     cancellationTombstones>>
      /\ Awaited(call[n].timerWatch)
  BY DEF ResumeTimeout
<1>4. termination' \in 0 .. K
  BY <1>1, <1>3, AwaitedTyped
<1>5. PICK r \in CallIn(K, P) : r = call[n]
  BY <1>2
<1>6. /\ [r EXCEPT !.timer = "off"] \in CallIn(K, P) /\ r.id \in AnyId
  <2>1. 0 \in 0 .. K
    BY <1>2
  <2> QED BY <1>2, <2>1, CallTimes, CallFields
<1>7. PICK off \in Seq(CallIn(K, P)) :
        off = [call EXCEPT ![n].timer = "off"] /\ Len(off) = Len(call)
  <2>1. [call EXCEPT ![n].timer = "off"] = [call EXCEPT ![n] = [r EXCEPT !.timer = "off"]]
    BY <1>2, <1>5
  <2> QED BY <1>2, <1>6, <2>1, PutTyped
<1>8. CASE /\ call' = Settled(off, n, IF Unkillable(call[n].timerWatch) THEN "error" ELSE "timeout")
           /\ active' = 0
           /\ completedRequestIds' = Remember(completedRequestIds, call[n].id)
  <2>1. PICK a \in Answers : call' = Settled(off, n, a)
    BY <1>8 DEF Answers
  <2>2. call' \in Seq(CallIn(K, P)) /\ Len(call') = Len(call)
    <3>1. n \in 1 .. Len(off)
      BY <1>2, <1>7
    <3>2. Settled(off, n, a) \in Seq(CallIn(K, P)) /\ Len(Settled(off, n, a)) = Len(off)
      BY <1>2, <3>1, SettledTyped
    <3> QED BY <1>7, <2>1, <3>2
  <2>3. completedRequestIds' \in Histories
    BY <1>1, <1>5, <1>6, <1>8, RememberTyped DEF History
  <2>4. active' \in 0 .. Len(call)
    BY <1>2, <1>8
  <2> QED BY <1>1, <1>3, <1>4, <2>2, <2>3, <2>4, KeptObjects, PlainStep
<1>9. CASE call' = off /\ UNCHANGED <<active, completedRequestIds>>
  BY <1>1, <1>3, <1>4, <1>7, <1>9, KeptObjects, PlainStep
<1> QED BY <1>7, <1>8, <1>9, Zenon DEF ResumeTimeout
-----------------------------------------------------------------------------
(* startChild.                                                              *)

LEMMA SpawningTypes ==
  ASSUME HostTypes, NEW k \in Kernels, Spawning(k)
  PROVE  HostTypes'
<1> DEFINE K == Len(kernel)
           P == Len(proc)
<1>1. Objects /\ Fields /\ History
  BY DEF HostTypes
<1>2. /\ K \in Nat /\ P \in Nat /\ Len(call) \in Nat /\ call \in Seq(CallIn(K, P))
      /\ kernel \in Seq(KernelIn(P)) /\ proc \in Seq(ProcIn(K, Len(call)))
      /\ k \in 1 .. K /\ moduleDirs \in SUBSET Dirs
  BY <1>1, KeptObjects DEF Kernels, Fields
<1>3. /\ UNCHANGED <<call, active, startup, termination, generation, shuttingDown, moduleDirs,
                     cancellationTombstones, completedRequestIds>>
      /\ metadata' = TRUE
  BY DEF Spawning
<1>4. PICK r \in KernelIn(P) : r = kernel[k]
  BY <1>2
<1>5. CASE kernel' = [kernel EXCEPT ![k].phase = "failed"] /\ UNCHANGED <<proc, child>>
  <2>1. PICK x \in KernelIn(P) : x = [r EXCEPT !.phase = "failed"]
    BY <1>2, KernelPasses
  <2>2. kernel' = [kernel EXCEPT ![k] = x]
    BY <1>4, <1>5, <2>1
  <2>3. kernel' \in Seq(KernelIn(P)) /\ Len(kernel') = K
    BY <1>2, <2>2, PutTyped
  <2> QED BY <1>2, <1>3, <1>5, <2>3, PlainStep
<1>6. CASE /\ kernel' = [kernel EXCEPT ![k] =
                 [@ EXCEPT !.phase = "spawning", !.dirs = moduleDirs,
                           !.proc = Len(proc) + 1, !.boot = Len(proc) + 1]]
           /\ proc' = Append(proc, NewProc(k, moduleDirs))
           /\ child' = k
  <2>1. PICK k0 \in Nat, p0 \in Nat, m \in Nat : k0 = K /\ p0 = P /\ m = P + 1
    BY <1>2
  <2>2. k0 >= k0 /\ m >= p0 /\ m \in 1 .. m
    BY <1>2, <2>1
  <2>3. Seq(CallIn(k0, p0)) \subseteq Seq(CallIn(k0, m)) /\ Seq(KernelIn(p0)) \subseteq Seq(KernelIn(m))
    BY <2>2, MoreCalls, MoreKernels
  <2>4. call \in Seq(CallIn(K, m)) /\ kernel \in Seq(KernelIn(m))
    BY <1>2, <2>1, <2>3
  <2>5. PICK q \in 1 .. m : q = m
    BY <2>2
  <2>6. r \in KernelIn(m)
    BY <1>2, <1>4, <2>4
  <2>7. PICK x \in KernelIn(m) :
          x = [r EXCEPT !.phase = "spawning", !.dirs = moduleDirs, !.proc = q, !.boot = q]
    BY <1>2, <2>6, KernelSpawns
  <2>8. kernel' = [kernel EXCEPT ![k] = x]
    BY <1>4, <1>6, <2>1, <2>5, <2>7
  <2>9. kernel' \in Seq(KernelIn(m)) /\ Len(kernel') = K
    BY <1>2, <2>4, <2>8, PutTyped
  <2>10. Objects'
    BY <1>1, <1>2, <1>3, <1>6, <2>1, <2>4, <2>9, SpawnedObjects
  <2>11. Len(call') >= Len(call) /\ Len(kernel') >= K /\ child' \in 0 .. Len(kernel')
    BY <1>2, <1>3, <1>6, <2>9
  <2> QED BY <1>3, <2>10, <2>11, Assembled
<1> QED BY <1>5, <1>6, Zenon DEF Spawning

\* A step that does to kernel k no more than to give it the record x.
LEMMA KernelStep ==
  ASSUME HostTypes, NEW k \in Kernels, NEW x \in KernelIn(Len(proc)),
         kernel' = [kernel EXCEPT ![k] = x],
         UNCHANGED <<call, proc, manager>>
  PROVE  HostTypes'
<1>1. Objects
  BY DEF HostTypes
<1>2. kernel' \in Seq(KernelIn(Len(proc))) /\ Len(kernel') = Len(kernel)
  BY <1>1, KeptObjects, PutTyped DEF Kernels
<1> QED BY <1>1, <1>2, KeptObjects, PlainStep DEF manager

LEMMA MetadataFailsTypes ==
  ASSUME HostTypes, NEW k \in Kernels, MetadataFails(k)
  PROVE  HostTypes'
<1>1. Objects
  BY DEF HostTypes
<1>2. PICK r \in KernelIn(Len(proc)) : r = kernel[k] /\ k \in 1 .. Len(kernel)
  BY <1>1, KernelTyped
<1>3. PICK x \in KernelIn(Len(proc)) : x = [r EXCEPT !.phase = "failed"]
  BY <1>1, KeptObjects, KernelPasses
<1>4. kernel' = [kernel EXCEPT ![k] = x] /\ UNCHANGED <<call, proc, manager>>
  BY <1>2, <1>3 DEF MetadataFails
<1> QED BY <1>4, KernelStep

LEMMA StartFailedTypes ==
  ASSUME HostTypes, NEW k \in Kernels, StartFailed(k)
  PROVE  HostTypes'
<1>1. Objects
  BY DEF HostTypes
<1>2. PICK r \in KernelIn(Len(proc)) : r = kernel[k] /\ k \in 1 .. Len(kernel)
  BY <1>1, KernelTyped
<1>3. PICK x \in KernelIn(Len(proc)) : x = [r EXCEPT !.phase = "failed"]
  BY <1>1, KeptObjects, KernelPasses
<1>4. kernel' = [kernel EXCEPT ![k] = x] /\ UNCHANGED <<call, proc, manager>>
  BY <1>2, <1>3 DEF StartFailed
<1> QED BY <1>4, KernelStep

LEMMA KillDeadlineTypes ==
  ASSUME HostTypes, NEW k \in Kernels, KillDeadline(k)
  PROVE  HostTypes'
<1>1. Objects
  BY DEF HostTypes
<1>2. PICK r \in KernelIn(Len(proc)) : r = kernel[k] /\ k \in 1 .. Len(kernel)
  BY <1>1, KernelTyped
<1>3. PICK t \in {"none", "pending", "done", "failed"} :
        t = IF r.term = "pending" THEN "failed" ELSE r.term
  <2>1. r.term \in {"none", "pending", "done", "failed"}
    BY <1>1, KeptObjects, KernelFields
  <2> QED BY <2>1
<1>4. PICK x \in KernelIn(Len(proc)) : x = [r EXCEPT !.stop = "failed", !.term = t]
  BY <1>1, KeptObjects, KernelStopped
<1>5. UNCHANGED <<call, proc, manager>>
      /\ kernel' = [kernel EXCEPT ![k].stop = "failed",
                                  ![k].term = IF @ = "pending" THEN "failed" ELSE @]
  BY DEF KillDeadline
<1>6. kernel' = [kernel EXCEPT ![k] = x]
  <2>1. x = [[r EXCEPT !.stop = "failed"] EXCEPT !.term = IF @ = "pending" THEN "failed" ELSE @]
    BY <1>3, <1>4 DEF KernelIn
  <2>2. k \in DOMAIN kernel
    BY <1>1, <1>2 DEF Objects
  <2> QED BY <1>2, <1>5, <2>1, <2>2
<1> QED BY <1>5, <1>6, KernelStep

LEMMA SpawnedTypes ==
  ASSUME HostTypes, NEW k \in Kernels, Spawned(k)
  PROVE  HostTypes'
<1> DEFINE K == Len(kernel)
           P == Len(proc)
           gone == kernel[k].proc # 0
<1>1. Objects /\ Fields /\ History
  BY DEF HostTypes
<1>2. /\ K \in Nat /\ P \in Nat /\ Len(call) \in Nat /\ call \in Seq(CallIn(K, P))
      /\ kernel \in Seq(KernelIn(P)) /\ proc \in Seq(ProcIn(K, Len(call)))
      /\ k \in 1 .. K /\ child \in 0 .. K /\ 0 \in 0 .. K
  BY <1>1, KeptObjects DEF Kernels, Fields
<1>3. UNCHANGED <<active, startup, termination, generation, shuttingDown, metadata, moduleDirs,
                  cancellationTombstones, completedRequestIds>>
  BY DEF Spawned
<1>4. PICK r \in KernelIn(P) : r = kernel[k]
  BY <1>2
<1>5. CASE kernel' = [kernel EXCEPT ![k].phase = "ok"] /\ UNCHANGED <<call, proc, child>>
  <2>1. PICK x \in KernelIn(P) : x = [r EXCEPT !.phase = "ok"]
    BY <1>2, KernelPasses
  <2>2. kernel' = [kernel EXCEPT ![k] = x]
    BY <1>4, <1>5, <2>1
  <2> QED BY <1>3, <1>5, <2>2, KernelStep DEF manager
<1>6. CASE /\ child' = IF child = k THEN 0 ELSE child
           /\ kernel' = [kernel EXCEPT ![k] =
                [kernel[k] EXCEPT !.phase = "stopping", !.proc = 0,
                                  !.stop = IF gone THEN "pending" ELSE @,
                                  !.victim = IF gone THEN kernel[k].proc ELSE @]]
           /\ call' = IF gone THEN Rejected(call, k) ELSE call
           /\ proc' = IF gone THEN Unready(kernel[k].proc) ELSE proc
  <2>1. /\ r.proc \in 0 .. P /\ r.victim \in 0 .. P /\ r.stop \in {"none", "pending", "failed"}
        /\ r.proc # 0 => r.proc \in 1 .. P
    BY <1>2, KernelFields
  <2>2. PICK s \in {"none", "pending", "failed"}, v \in 0 .. P :
          s = (IF gone THEN "pending" ELSE r.stop) /\ v = (IF gone THEN r.proc ELSE r.victim)
    BY <2>1
  <2>3. PICK x \in KernelIn(P) :
          x = [r EXCEPT !.phase = "stopping", !.proc = 0, !.stop = s, !.victim = v]
    BY <1>2, KernelGivesUp
  <2>4. kernel' = [kernel EXCEPT ![k] = x]
    BY <1>4, <1>6, <2>2, <2>3
  <2>5. kernel' \in Seq(KernelIn(P)) /\ Len(kernel') = K
    BY <1>2, <2>4, PutTyped
  <2>6. call' \in Seq(CallIn(K, P)) /\ Len(call') = Len(call)
    BY <1>2, <1>6, RejectedTyped
  <2>7. proc' \in Seq(ProcIn(K, Len(call))) /\ Len(proc') = P
    <3>1. CASE gone
      <4>1. PICK q \in 1 .. P : q = kernel[k].proc
        BY <1>4, <2>1, <3>1
      <4>2. proc' = Told(proc, q, "rejected")
        BY <1>6, <3>1, <4>1, Zenon DEF Told, Unready
      <4> QED BY <1>2, <4>2, ToldTyped
    <3>2. CASE ~gone
      BY <1>2, <1>6, <3>2
    <3> QED BY <3>1, <3>2
  <2>8. child' \in 0 .. K
    BY <1>2, <1>6
  <2> QED BY <1>3, <2>5, <2>6, <2>7, <2>8, PlainStep
<1> QED BY <1>5, <1>6, Zenon DEF Spawned

LEMMA ClearStartupTypes ==
  ASSUME HostTypes, ClearStartup
  PROVE  HostTypes'
<1>1. Objects
  BY DEF HostTypes
<1> QED BY <1>1, KeptObjects, PlainStep DEF ClearStartup
-----------------------------------------------------------------------------
(* Events.                                                                  *)

\* A step that changes processes only.
LEMMA ProcStep ==
  ASSUME HostTypes, UNCHANGED <<call, kernel, manager>>,
         proc' \in Seq(ProcIn(Len(kernel), Len(call))), Len(proc') = Len(proc)
  PROVE  HostTypes'
<1>1. Objects
  BY DEF HostTypes
<1> QED BY <1>1, KeptObjects, PlainStep DEF manager

LEMMA HandshakeTypes ==
  ASSUME HostTypes, NEW p \in Procs, Handshake(p)
  PROVE  HostTypes'
<1> DEFINE K == Len(kernel)
           C == Len(call)
           booted == [proc EXCEPT ![p].state = "up"]
<1>1. Objects
  BY DEF HostTypes
<1>2. /\ K \in Nat /\ C \in Nat /\ Len(proc) \in Nat
      /\ proc \in Seq(ProcIn(K, C)) /\ p \in 1 .. Len(proc)
  BY <1>1, KeptObjects DEF Procs
<1>3. PICK r \in ProcIn(K, C) : r = proc[p]
  BY <1>2
<1>4. PICK x \in ProcIn(K, C) : x = [r EXCEPT !.state = "up"]
  BY DEF ProcIn
<1>5. booted = [proc EXCEPT ![p] = x]
  BY <1>3, <1>4
<1>6. PICK s \in Seq(ProcIn(K, C)) : s = booted /\ Len(s) = Len(proc)
  BY <1>2, <1>5, PutTyped
<1>7. PICK q \in 0 .. Len(proc) : q = kernel[r.kernel].proc
  <2>1. r.kernel \in Kernels
    BY <1>2, ProcFields DEF Kernels
  <2> QED BY <1>1, <1>2, <2>1, KernelTyped, KernelFields
<1>8. UNCHANGED <<call, kernel, manager>>
      /\ proc' = IF q = 0 THEN s ELSE Told(s, q, "resolved")
  BY <1>3, <1>6, <1>7, Zenon DEF Handshake, Told
<1>9. CASE q = 0
  BY <1>6, <1>8, <1>9, ProcStep
<1>10. CASE q # 0
  <2>1. q \in 1 .. Len(s)
    BY <1>2, <1>6, <1>10
  <2>2. Told(s, q, "resolved") \in Seq(ProcIn(K, C)) /\ Len(Told(s, q, "resolved")) = Len(s)
    BY <1>2, <2>1, ToldTyped
  <2> QED BY <1>6, <1>8, <1>10, <2>2, ProcStep
<1> QED BY <1>9, <1>10

LEMMA ResultTypes ==
  ASSUME HostTypes, NEW p \in Procs, Result(p)
  PROVE  HostTypes'
<1> DEFINE K == Len(kernel)
           C == Len(call)
<1>1. Objects /\ Fields /\ History
  BY DEF HostTypes
<1>2. /\ K \in Nat /\ C \in Nat /\ Len(proc) \in Nat
      /\ proc \in Seq(ProcIn(K, C)) /\ p \in 1 .. Len(proc) /\ 0 \in 0 .. C
  BY <1>1, KeptObjects DEF Procs
<1>3. PICK r \in ProcIn(K, C) : r = proc[p]
  BY <1>2
<1>4. PICK x \in ProcIn(K, C) : x = [r EXCEPT !.run = 0]
  BY <1>2 DEF ProcIn
<1>5. /\ proc' = [proc EXCEPT ![p].run = 0] /\ r.run # 0
      /\ UNCHANGED <<kernel, child, startup, termination, generation, shuttingDown, metadata,
                     moduleDirs, cancellationTombstones>>
  BY <1>3 DEF Result
<1>6. proc' = [proc EXCEPT ![p] = x]
  BY <1>3, <1>4, <1>5
<1>7. proc' \in Seq(ProcIn(K, C)) /\ Len(proc') = Len(proc)
  BY <1>2, <1>6, PutTyped
<1>8. PICK n \in Calls : n = r.run
  BY <1>2, <1>5, ProcFields DEF Calls
<1>9. CASE Finish(n, "ok")
  <2>1. "ok" \in Answers
    BY DEF Answers
  <2> QED BY <1>1, <1>2, <1>5, <1>7, <1>9, <2>1, KeptObjects, FinishTyped, PlainStep
<1>10. CASE UNCHANGED <<call, active, completedRequestIds>>
  BY <1>1, <1>5, <1>7, <1>10, KeptObjects, PlainStep
<1> QED BY <1>3, <1>8, <1>9, <1>10, Zenon DEF Result

LEMMA DirResultTypes ==
  ASSUME HostTypes, NEW n \in Calls, DirResult(n)
  PROVE  HostTypes'
<1> DEFINE K == Len(kernel)
           P == Len(proc)
           C == Len(call)
<1>1. Objects
  BY DEF HostTypes
<1>2. /\ K \in Nat /\ P \in Nat /\ C \in Nat /\ call \in Seq(CallIn(K, P))
      /\ proc \in Seq(ProcIn(K, C))
  BY <1>1, KeptObjects
<1>3. PICK p : p = call[n].proc /\ proc' = [proc EXCEPT ![p].dirs = @ \cup {call[n].id}]
  BY DEF DirResult
<1>4. /\ call[n].kind = "dir" /\ call[n].pc = "running"
      /\ Return(n, "ok") /\ UNCHANGED <<kernel, manager>> /\ "ok" \in Answers
  BY DEF DirResult, Answers
<1>5. p \in 1 .. P /\ call[n].id \in Dirs
  BY <1>1, <1>2, <1>3, <1>4, CallTyped, CallFields
<1>6. PICK r \in ProcIn(K, C) : r = proc[p]
  BY <1>2, <1>5
<1>7. PICK x \in ProcIn(K, C) : x = [r EXCEPT !.dirs = r.dirs \cup {call[n].id}]
  BY <1>5 DEF ProcIn
<1>8. proc' = [proc EXCEPT ![p] = x]
  BY <1>3, <1>6, <1>7
<1>9. proc' \in Seq(ProcIn(K, C)) /\ Len(proc') = P
  BY <1>2, <1>5, <1>8, PutTyped
<1>10. call' \in Seq(CallIn(K, P)) /\ Len(call') = C
  BY <1>1, <1>4, ReturnTyped
<1> QED BY <1>1, <1>4, <1>9, <1>10, KeptObjects, PlainStep DEF manager

LEMMA SuspendTypes ==
  ASSUME HostTypes, NEW p \in Procs, Suspend(p)
  PROVE  HostTypes'
<1> DEFINE C == CallIn(Len(kernel), Len(proc))
<1>1. Objects /\ Fields
  BY DEF HostTypes
<1>2. PICK n : n = proc[p].run
  OBVIOUS
<1>3. /\ n # 0 /\ active = n /\ UNCHANGED <<kernel, proc, manager>>
      /\ call' = [call EXCEPT ![n] =
           [@ EXCEPT !.suspended = ~call[n].suspended,
                     !.timer = IF call[n].suspended THEN "armed" ELSE "off"]]
  BY <1>2, Zenon DEF Suspend
<1>4. n \in 1 .. Len(call) /\ call \in Seq(C)
  BY <1>1, <1>3, KeptObjects DEF Fields
<1>5. PICK r \in C : r = call[n]
  BY <1>4
<1>6. PICK b \in BOOLEAN, t \in {"off", "armed", "waiting"} :
        b = ~call[n].suspended /\ t = (IF call[n].suspended THEN "armed" ELSE "off")
  OBVIOUS
<1>7. PICK x \in C : x = [r EXCEPT !.suspended = b, !.timer = t]
  BY <1>1, KeptObjects, CallSuspends
<1>8. call' = [call EXCEPT ![n] = x]
  BY <1>3, <1>5, <1>6, <1>7
<1>9. call' \in Seq(C) /\ Len(call') = Len(call)
  BY <1>4, <1>8, PutTyped
<1> QED BY <1>3, <1>9, CallStep

LEMMA TimeoutTypes ==
  ASSUME HostTypes, NEW n \in Calls, Timeout(n)
  PROVE  HostTypes'
<1> DEFINE K == Len(kernel)
           P == Len(proc)
<1>1. Objects /\ Fields /\ History
  BY DEF HostTypes
<1>2. /\ K \in Nat /\ P \in Nat /\ call \in Seq(CallIn(K, P)) /\ n \in 1 .. Len(call)
  BY <1>1, KeptObjects DEF Calls
<1>3. PICK w \in 0 .. K : w = IF child # 0 THEN child ELSE termination
  BY <1>1 DEF Fields
<1>4. PICK r \in CallIn(K, P) : r = call[n]
  BY <1>2
<1>5. PICK x \in CallIn(K, P) :
        x = [r EXCEPT !.settled = TRUE, !.timeoutPending = TRUE, !.timer = "waiting",
                      !.timerWatch = w]
  <2>1. [r EXCEPT !.settled = TRUE, !.timeoutPending = TRUE, !.timer = "waiting",
                  !.timerWatch = w] \in CallIn(K, P)
    BY <1>2, CallTimes
  <2> QED BY <2>1
<1>6. PICK c \in Seq(CallIn(K, P)) : c = [call EXCEPT ![n] = x] /\ Len(c) = Len(call)
  <2>1. [call EXCEPT ![n] = x] \in Seq(CallIn(K, P)) /\ Len([call EXCEPT ![n] = x]) = Len(call)
    BY <1>2, PutTyped
  <2> QED BY <2>1
<1>7. /\ DropChild(c)
      /\ UNCHANGED <<active, startup, generation, shuttingDown, metadata, moduleDirs,
                     cancellationTombstones, completedRequestIds>>
  BY <1>3, <1>4, <1>5, <1>6, Zenon DEF Timeout
<1>8. /\ kernel' \in Seq(KernelIn(Len(proc))) /\ Len(kernel') = Len(kernel)
      /\ proc' \in Seq(ProcIn(Len(kernel), Len(call))) /\ Len(proc') = Len(proc)
      /\ call' \in Seq(CallIn(Len(kernel), Len(proc))) /\ Len(call') = Len(c)
      /\ child' \in 0 .. Len(kernel) /\ termination' \in 0 .. Len(kernel)
  BY <1>1, <1>7, DropChildTyped
<1> QED BY <1>6, <1>7, <1>8, PlainStep

LEMMA ExitTypes ==
  ASSUME HostTypes, NEW p \in Procs, Exit(p)
  PROVE  HostTypes'
<1> DEFINE K == Len(kernel)
           P == Len(proc)
           C == Len(call)
<1>1. Objects
  BY DEF HostTypes
<1>2. /\ K \in Nat /\ P \in Nat /\ C \in Nat /\ p \in 1 .. P /\ 0 \in 0 .. C
      /\ kernel \in Seq(KernelIn(P)) /\ proc \in Seq(ProcIn(K, C))
  BY <1>1, KeptObjects DEF Procs
<1>3. PICK q \in ProcIn(K, C) : q = proc[p]
  BY <1>2
<1>4. PICK x \in ProcIn(K, C) : x = [q EXCEPT !.state = "dead", !.run = 0]
  <2>1. [q EXCEPT !.state = "dead", !.run = 0] \in ProcIn(K, C)
    BY <1>2 DEF ProcIn
  <2> QED BY <2>1
<1>5. PICK dead \in Seq(ProcIn(K, C)) : dead = [proc EXCEPT ![p] = x] /\ Len(dead) = P
  <2>1. [proc EXCEPT ![p] = x] \in Seq(ProcIn(K, C)) /\ Len([proc EXCEPT ![p] = x]) = P
    BY <1>2, PutTyped
  <2> QED BY <2>1
<1>6. PICK k \in Kernels : k = proc[p].kernel
  BY <1>2, <1>3, ProcFields DEF Kernels
<1>7. dead = [proc EXCEPT ![p] = [@ EXCEPT !.state = "dead", !.run = 0]]
  BY <1>3, <1>4, <1>5
<1>8. PICK r \in KernelIn(P) : r = kernel[k] /\ k \in 1 .. K
  BY <1>2 DEF Kernels
<1>9. UNCHANGED manager
  BY DEF Exit
<1>10. CASE /\ kernel' = [kernel EXCEPT ![k] =
                 [kernel[k] EXCEPT !.stop = "none",
                                   !.term = IF @ = "pending" THEN "done" ELSE @]]
            /\ proc' = dead /\ UNCHANGED call
  <2>1. PICK t \in {"none", "pending", "done", "failed"} :
          t = IF r.term = "pending" THEN "done" ELSE r.term
    <3>1. r.term \in {"none", "pending", "done", "failed"}
      BY <1>2, KernelFields
    <3> QED BY <3>1
  <2>2. PICK y \in KernelIn(P) : y = [r EXCEPT !.stop = "none", !.term = t]
    BY <1>2, KernelStopped
  <2>3. kernel' = [kernel EXCEPT ![k] = y]
    BY <1>8, <1>10, <2>1, <2>2
  <2>4. kernel' \in Seq(KernelIn(P)) /\ Len(kernel') = K
    BY <1>2, <1>8, <2>3, PutTyped
  <2> QED BY <1>1, <1>5, <1>9, <1>10, <2>4, KeptObjects, PlainStep DEF manager
<1>11. CASE kernel[k].proc # 0 /\ HandleExit(k, FALSE, dead)
  <2>1. FALSE \in BOOLEAN
    OBVIOUS
  <2>2. /\ kernel' \in Seq(KernelIn(P)) /\ Len(kernel') = K
        /\ proc' \in Seq(ProcIn(K, C)) /\ Len(proc') = P
        /\ call' \in Seq(CallIn(K, P)) /\ Len(call') = C
    BY <1>1, <1>5, <1>11, <2>1, HandleExitTyped
  <2> QED BY <1>9, <2>2, PlainStep DEF manager
<1>12. CASE proc' = dead /\ UNCHANGED <<kernel, call>>
  BY <1>5, <1>9, <1>12, ProcStep
<1> QED BY <1>6, <1>7, <1>10, <1>11, <1>12, Zenon DEF Exit

LEMMA ProtocolErrorTypes ==
  ASSUME HostTypes, NEW p \in Procs, ProtocolError(p)
  PROVE  HostTypes'
<1>1. Objects
  BY DEF HostTypes
<1>2. PICK k \in Kernels : k = proc[p].kernel
  BY <1>1, KeptObjects, ProcTyped, ProcFields DEF Kernels
<1>3. /\ HandleExit(k, TRUE, proc) /\ UNCHANGED manager /\ kernel[k].proc # 0
      /\ TRUE \in BOOLEAN
  <2>1. HandleExit(k, TRUE, proc) /\ UNCHANGED manager /\ kernel[k].proc = p
    BY <1>2, Zenon DEF ProtocolError
  <2>2. p # 0
    BY DEF Procs
  <2> QED BY <2>1, <2>2
<1>4. /\ kernel' \in Seq(KernelIn(Len(proc))) /\ Len(kernel') = Len(kernel)
      /\ proc' \in Seq(ProcIn(Len(kernel), Len(call))) /\ Len(proc') = Len(proc)
      /\ call' \in Seq(CallIn(Len(kernel), Len(proc))) /\ Len(call') = Len(call)
  BY <1>1, <1>3, KeptObjects, HandleExitTyped
<1> QED BY <1>3, <1>4, PlainStep DEF manager
-----------------------------------------------------------------------------
(* The theorem.                                                             *)

LEMMA InitTypes ==
  ASSUME Init
  PROVE  HostTypes
<1>1. Len(call) = 0 /\ Len(kernel) = 0 /\ Len(proc) = 0
  BY DEF Init
<1>2. Objects
  BY DEF Init, Objects
<1>5. /\ active = 0 /\ child = 0 /\ startup = 0 /\ termination = 0 /\ generation = 0
      /\ shuttingDown \in BOOLEAN /\ metadata \in BOOLEAN /\ moduleDirs = {}
  BY DEF Init
<1>3. Fields
  BY <1>1, <1>5 DEF Fields
<1>4. History
  BY EmptyTyped DEF Init, History
<1> QED BY <1>2, <1>3, <1>4 DEF HostTypes

LEMMA HostTypesStep ==
  ASSUME HostTypes, [Next]_vars
  PROVE  HostTypes'
<1>1. CASE Command
  <2>1. ASSUME NEW id \in Ids, Execute(id) \/ Cancel(id)
        PROVE  HostTypes'
    BY <2>1, ExecuteTypes, CancelTypes
  <2>2. ASSUME NEW d \in Dirs, AddNodeModuleDir(d)
        PROVE  HostTypes'
    BY <2>2, AddNodeModuleDirTypes
  <2> QED BY <1>1, <2>1, <2>2, ResetTypes, CloseTypes DEF Command
<1>2. CASE Microtask
  <2>1. ASSUME NEW n \in Calls, Resume(n)
        PROVE  HostTypes'
    BY <2>1, ResumeEnsureChildTypes, ResumeStartupTypes, StartTypes, RestartTypes, SendTypes,
       CatchTypes, FailTypes, ResumeRestartTypes, ResumeCloseTypes, ResumeTimeoutTypes
       DEF Resume
  <2>2. ASSUME NEW k \in Kernels, StartUp(k)
        PROVE  HostTypes'
    BY <2>2, SpawningTypes, SpawnedTypes, StartFailedTypes DEF StartUp
  <2> QED BY <1>2, <2>1, <2>2, ClearStartupTypes DEF Microtask
<1>3. ASSUME NEW p \in Procs, ProcessEvent(p)
      PROVE  HostTypes'
  BY <1>3, HandshakeTypes, ResultTypes, SuspendTypes, ExitTypes, ProtocolErrorTypes
     DEF ProcessEvent
<1>4. ASSUME NEW n \in Calls, DirResult(n) \/ Timeout(n)
      PROVE  HostTypes'
  BY <1>4, DirResultTypes, TimeoutTypes
<1>5. ASSUME NEW k \in Kernels, MetadataFails(k) \/ KillDeadline(k)
      PROVE  HostTypes'
  BY <1>5, MetadataFailsTypes, KillDeadlineTypes
<1>6. CASE UNCHANGED vars
  <2>1. UNCHANGED <<call, kernel, proc, manager>> /\ Objects
    BY <1>6 DEF vars, HostTypes
  <2> QED BY <2>1, KeptObjects, CallStep
<1> QED BY <1>1, <1>2, <1>3, <1>4, <1>5, <1>6 DEF Next

LEMMA TypesImply ==
  ASSUME HostTypes
  PROVE  TypeOK
<1>1. Objects /\ Fields /\ History
  BY DEF HostTypes
<1>2. Len(call) \in Nat /\ Len(kernel) \in Nat /\ Len(proc) \in Nat
  BY <1>1, Sizes
<1>3. ASSUME NEW n \in Calls
      PROVE  /\ call[n].kind \in {"js", "reset", "dir", "close"}
             /\ call[n].pc \in Places /\ call[n].answer \in Answers
             /\ call[n].timer \in {"off", "armed", "waiting"}
             /\ call[n].watch \in 0 .. Len(kernel) /\ call[n].at \in 0 .. Len(kernel)
             /\ call[n].proc \in 0 .. Len(proc)
  BY <1>1, <1>2, CallTyped, CallFields
<1>4. ASSUME NEW k \in Kernels
      PROVE  /\ kernel[k].phase \in Phases
             /\ {kernel[k].proc, kernel[k].boot, kernel[k].victim} \subseteq 0 .. Len(proc)
             /\ kernel[k].stop \in {"none", "pending", "failed"}
             /\ kernel[k].term \in {"none", "pending", "done", "failed"}
  <2>1. /\ kernel[k].phase \in Phases /\ kernel[k].proc \in 0 .. Len(proc)
        /\ kernel[k].boot \in 0 .. Len(proc) /\ kernel[k].victim \in 0 .. Len(proc)
        /\ kernel[k].stop \in {"none", "pending", "failed"}
        /\ kernel[k].term \in {"none", "pending", "done", "failed"}
    BY <1>1, <1>2, KernelTyped, KernelFields
  <2> QED BY <2>1
<1>5. ASSUME NEW p \in Procs
      PROVE  /\ proc[p].state \in {"booting", "up", "dead"}
             /\ proc[p].ready \in {"pending", "resolved", "rejected"}
             /\ proc[p].run \in 0 .. Len(call) /\ proc[p].dirs \subseteq Dirs
  BY <1>1, <1>2, ProcTyped, ProcFields
<1>6. /\ active \in 0 .. Len(call)
      /\ {child, startup, termination} \subseteq 0 .. Len(kernel)
  BY <1>1 DEF Fields
<1>7. /\ Len(cancellationTombstones) <= TombstoneLimit
      /\ Len(completedRequestIds) <= TombstoneLimit
  BY <1>1 DEF History, Histories
<1> QED BY <1>3, <1>4, <1>5, <1>6, <1>7, Zenon DEF TypeOK

\* The host of node_repl keeps to its types whatever the client, the kernels and
\* the timers do: what a call, a kernel or the manager refers to exists, and
\* neither history of request ids outgrows its limit.
THEOREM ReplType == Spec => []TypeOK
<1>1. Init => HostTypes
  BY InitTypes
<1>2. HostTypes /\ [Next]_vars => HostTypes'
  BY HostTypesStep
<1>3. HostTypes => TypeOK
  BY TypesImply
<1> QED BY <1>1, <1>2, <1>3, PTL DEF Spec
=============================================================================
