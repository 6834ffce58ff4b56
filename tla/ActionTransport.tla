-------------------------- MODULE ActionTransport --------------------------
(***************************************************************************)
(* SkyCuaTransport of packages/sky-cua-js (transport/ndjson-client.ts): the*)
(* client library that sends desktop actions to the sky-cua service over a *)
(* Unix socket, one request at a time on a connection it keeps.            *)
(*                                                                         *)
(* `run[r]` is the call of performAction for request r and what it awaits: *)
(* a connection or a reply.  `answer[r]` is what its caller got, which may *)
(* be settled while the run goes on: withDeadline gives up on a run, it    *)
(* cannot stop it.  A step takes a run from one such await to the next; the*)
(* closing of a socket this process destroyed, and the start of the next   *)
(* request, come before any other event (Quiet).                           *)
(*                                                                         *)
(* The service is external: it may begin an action that was written, finish*)
(* it, answer, refuse it before it began, or close the connection at any   *)
(* point.  Links are numbered; 0 is none.                                  *)
(***************************************************************************)
EXTENDS Naturals, Sequences

CONSTANTS
  Reqs,         \* requests
  NoReq,        \* none of them
  Mutations,    \* those that mapDisconnect counts as not idempotent
  Contextual,   \* those with a RequestContext, that is with a deadline
  Faults,       \* what may happen, see FaultKinds
  MaxFaults     \* bound on how many do, aborts and deadlines apart

FaultKinds ==
  { "refused",    \* nobody listens at the endpoint
    "broken",     \* the service closes a connection
    "unfit",      \* health is an error, of another version, or lacks a capability
    "garbled",    \* a reply is not JSON, too long, or has no type
    "reconnect",  \* the service asks for the request on a new connection
    "close",      \* the owner of the transport closes it
    "abort",      \* the caller aborts
    "deadline" }  \* the deadline of a request passes

ASSUME TransportAssumption ==
  /\ NoReq \notin Reqs
  /\ Mutations \subseteq Reqs /\ Contextual \subseteq Reqs
  /\ Faults \subseteq FaultKinds /\ MaxFaults \in Nat

Reasons == {"cancelled", "deadline"}
Answers == Reasons \cup
  {"none", "ok", "error", "restart", "disconnected", "unknown", "internal", "cancel_failed"}
-----------------------------------------------------------------------------
VARIABLES
  lane,               \* actionTail: requests that were made and are not settled
  run, answer,
  link,               \* sockets, each with the request in flight on it
  actionConnection, health,
  ran,                \* how often the service began the action of a request
  faults

vars == <<lane, run, answer, link, actionConnection, health, ran, faults>>

Links == 1 .. Len(link)
Waits == {"connect", "health", "reconnect", "action"}
Strike(kind) == kind \in Faults /\ faults < MaxFaults /\ faults' = faults + 1

NewRun ==
  [ pc |-> "idle", link |-> 0, attempt |-> 0, hattempt |-> 0, cancelled |-> FALSE,
    aborted |-> FALSE, fired |-> {}, cancelling |-> {} ]
\* `req` is the request in flight, `wire` how far the service is with what was
\* written last, for request `of`.
NewLink(r) == [state |-> "connecting", req |-> r, of |-> r, wire |-> "none"]

Init ==
  /\ lane = <<>> /\ run = [r \in Reqs |-> NewRun] /\ answer = [r \in Reqs |-> "none"]
  /\ link = <<>> /\ actionConnection = 0 /\ health = FALSE
  /\ ran = [r \in Reqs |-> 0] /\ faults = 0

Busy(l) == link[l].req # NoReq

Quiet ==
  /\ \A l \in Links : link[l].state \notin {"dropped", "destroyed"}
  /\ lane # <<>> => run[Head(lane)].pc # "queued"
-----------------------------------------------------------------------------
\* What a run does before it awaits again.  `ls` is the state of the links.

\* Mutant: the connection is forgotten, but not closed.
BugDropped(ls) == ls

\* dropActionConnection, as far as the links go.
Dropped(ls) ==
  IF actionConnection = 0 \/ ls[actionConnection].state = "closed" THEN ls
  ELSE [ls EXCEPT ![actionConnection].state = "dropped"]

Drop(ls) == link' = Dropped(ls) /\ actionConnection' = 0 /\ health' = FALSE
Keep(ls, h) == link' = ls /\ health' = h /\ UNCHANGED actionConnection

\* Mutant: a failed request does not give the lane to the next one.
BugSettle(r, a) ==
  /\ run' = [run EXCEPT ![r].pc = "over"]
  /\ IF run[r].cancelled
       THEN UNCHANGED <<answer, lane>>
       ELSE /\ answer' = [answer EXCEPT ![r] = a]
            /\ lane' = IF a = "ok" THEN Tail(lane) ELSE lane

\* The promise of the run settles; withDeadline ignores a cancelled one.
Settle(r, a) ==
  /\ run' = [run EXCEPT ![r].pc = "over"]
  /\ IF run[r].cancelled
       THEN UNCHANGED <<answer, lane>>
       ELSE answer' = [answer EXCEPT ![r] = a] /\ lane' = Tail(lane)

\* Mutant: attempts are counted from one.
BugAwait(r, pc, l, attempt, hattempt) ==
  /\ run' = [run EXCEPT ![r] = [@ EXCEPT !.pc = pc, !.link = l,
                                         !.attempt = attempt + 1, !.hattempt = hattempt]]
  /\ UNCHANGED <<answer, lane>>

Await(r, pc, l, attempt, hattempt) ==
  /\ run' = [run EXCEPT ![r] = [@ EXCEPT !.pc = pc, !.link = l,
                                         !.attempt = attempt, !.hattempt = hattempt]]
  /\ UNCHANGED <<answer, lane>>

\* getActionConnection opens a link, there being none.
Open(r, pc, attempt, hattempt, ls) ==
  /\ Await(r, pc, Len(ls) + 1, attempt, hattempt)
  /\ link' = Append(ls, NewLink(r))
DropAndOpen(r, attempt, hattempt, ls) ==
  /\ Open(r, "connect", attempt, hattempt, Dropped(ls))
  /\ actionConnection' = 0 /\ health' = FALSE

\* A socket that is destroyed, unknown to its NdjsonConnection, swallows the line.
Write(r, l, what, ls) ==
  [ls EXCEPT ![l] = [@ EXCEPT !.req = r, !.of = r,
                              !.wire = IF ls[l].state = "destroyed" THEN "none" ELSE what]]

\* performAction sends the action on the present connection.
SendAction(r, attempt, ls, h) ==
  LET l == actionConnection IN
  \/ /\ l = 0
     /\ Open(r, "reconnect", attempt, 0, ls)
     /\ health' = h /\ UNCHANGED actionConnection
  \/ /\ l # 0 /\ ls[l].state = "closed"
     /\ IF attempt = 0 /\ ~run[r].cancelled
          THEN DropAndOpen(r, 1, 0, ls)
          ELSE Settle(r, "disconnected") /\ Drop(ls)
  \/ /\ l # 0 /\ ls[l].state # "closed" /\ ls[l].req # NoReq
     /\ Settle(r, "internal") /\ Keep(ls, h)
  \/ /\ l # 0 /\ ls[l].state # "closed" /\ ls[l].req = NoReq
     /\ Await(r, "action", l, attempt, 0)
     /\ Keep(Write(r, l, "sent", ls), h)

\* One turn of the loop of performAction: ensureHealth, then the action.
Attempt(r, attempt) ==
  LET l == actionConnection IN
  \/ l # 0 /\ health /\ SendAction(r, attempt, link, health)
  \/ /\ l # 0 /\ ~health
     /\ \/ link[l].state = "closed" /\ DropAndOpen(r, attempt, 1, link)
        \/ link[l].state # "closed" /\ Busy(l) /\ Settle(r, "internal") /\ Drop(link)
        \/ /\ link[l].state # "closed" /\ ~Busy(l)
           /\ Await(r, "health", l, attempt, 0)
           /\ Keep(Write(r, l, "health", link), health)
  \/ /\ l = 0
     /\ Open(r, "connect", attempt, 0, link)
     /\ UNCHANGED <<actionConnection, health>>
-----------------------------------------------------------------------------
\* Callers.

Request(r) ==
  /\ run[r].pc = "idle"
  /\ run' = [run EXCEPT ![r].pc = "queued"]
  /\ lane' = Append(lane, r)
  /\ UNCHANGED <<answer, link, actionConnection, health, ran, faults>>

CancelAndReject(r, reason) ==
  /\ run' = [run EXCEPT ![r].pc = IF @ = "queued" THEN "over" ELSE @,
                         ![r].cancelled = TRUE, ![r].fired = @ \cup {reason},
                         ![r].cancelling = @ \cup {reason}]
  /\ Drop(link)
  /\ UNCHANGED <<answer, lane>>

\* The health that is remembered lacks a capability that the request needs.
Unfit(r) ==
  /\ actionConnection # 0 /\ health
  /\ Strike("unfit") /\ Settle(r, "error") /\ Keep(link, health)

\* The request owns the lane: run() is called.
Begin(r) ==
  /\ lane # <<>> /\ Head(lane) = r /\ run[r].pc = "queued"
  /\ \/ run[r].aborted /\ CancelAndReject(r, "cancelled") /\ UNCHANGED faults
     \/ ~run[r].aborted /\ Attempt(r, 0) /\ UNCHANGED faults
     \/ ~run[r].aborted /\ Unfit(r)
  /\ UNCHANGED ran

Abort(r) ==
  /\ "abort" \in Faults
  /\ Quiet /\ r \in Contextual /\ answer[r] = "none" /\ ~run[r].aborted
  /\ \/ /\ run[r].pc = "queued"
        /\ run' = [run EXCEPT ![r].aborted = TRUE]
        /\ UNCHANGED <<lane, answer, link, actionConnection, health>>
     \/ /\ run[r].pc \notin {"idle", "queued"} /\ "cancelled" \notin run[r].fired
        /\ CancelAndReject(r, "cancelled")
  /\ UNCHANGED <<ran, faults>>

\* A run that was aborted before it began has no timer.
Deadline(r) ==
  /\ "deadline" \in Faults
  /\ Quiet /\ r \in Contextual /\ answer[r] = "none"
  /\ run[r].pc \notin {"idle", "queued"} /\ ~run[r].aborted /\ "deadline" \notin run[r].fired
  /\ CancelAndReject(r, "deadline")
  /\ UNCHANGED <<ran, faults>>

\* CancelTurn was answered or a second has passed; or it failed.
Cancelled(r, reason) ==
  /\ Quiet /\ reason \in run[r].cancelling
  /\ \E a \in {reason, "cancel_failed"} : answer' = [answer EXCEPT ![r] = a]
  /\ run' = [run EXCEPT ![r].cancelling = {}]
  /\ lane' = Tail(lane)
  /\ UNCHANGED <<link, actionConnection, health, ran, faults>>

Close ==
  /\ Strike("close")
  /\ Quiet /\ Drop(link)
  /\ UNCHANGED <<lane, run, answer, ran>>
-----------------------------------------------------------------------------
\* The network.

\* A new connection becomes the action connection, whatever was cancelled or
\* opened in the meantime, and the run writes to it.
Connected(l) ==
  LET r == link[l].req
      open == [link EXCEPT ![l] = [@ EXCEPT !.state = "open",
                 !.wire = IF run[r].pc = "connect" THEN "health" ELSE "sent"]]
  IN
  /\ Quiet /\ link[l].state = "connecting"
  /\ link' = open /\ actionConnection' = l
  /\ run' = [run EXCEPT ![r].pc = IF @ = "connect" THEN "health" ELSE "action"]
  /\ UNCHANGED <<lane, answer, health, ran, faults>>

ConnectFails(l) ==
  LET r == link[l].req
      gone == [link EXCEPT ![l] = [@ EXCEPT !.state = "closed", !.req = NoReq]]
  IN
  /\ Strike("refused")
  /\ Quiet /\ link[l].state = "connecting"
  /\ \/ /\ run[r].pc = "connect" /\ run[r].hattempt = 0
        /\ DropAndOpen(r, run[r].attempt, 1, gone)
     \/ /\ run[r].pc = "reconnect" /\ run[r].attempt = 0 /\ ~run[r].cancelled
        /\ DropAndOpen(r, 1, 0, gone)
     \/ /\ IF run[r].pc = "connect" THEN run[r].hattempt = 1
           ELSE run[r].attempt = 1 \/ run[r].cancelled
        /\ Settle(r, "restart") /\ Drop(gone)
  /\ UNCHANGED ran

Answered(l) == [link EXCEPT ![l] = [@ EXCEPT !.req = NoReq, !.wire = "none"]]

HealthReply(l) ==
  LET r == link[l].req IN
  /\ Quiet /\ link[l].state = "open" /\ Busy(l) /\ link[l].wire = "health"
  /\ \/ SendAction(r, run[r].attempt, Answered(l), TRUE) /\ UNCHANGED faults
     \/ Strike("unfit") /\ Settle(r, "error") /\ Drop(Answered(l))
     \/ Strike("unfit") /\ Settle(r, "error") /\ Keep(Answered(l), TRUE)
  /\ UNCHANGED ran

\* The service, which reads a connection line by line, begins the action, and it
\* takes effect.  It does so whether or not the client still listens.
ServiceBegins(l) ==
  /\ Quiet /\ link[l].wire = "sent"
  /\ link' = [link EXCEPT ![l].wire = "begun"]
  /\ ran' = [ran EXCEPT ![link[l].of] = @ + 1]
  /\ UNCHANGED <<lane, run, answer, actionConnection, health, faults>>

ServiceFinishes(l) ==
  /\ Quiet /\ link[l].wire = "begun"
  /\ link' = [link EXCEPT ![l].wire = "done"]
  /\ UNCHANGED <<lane, run, answer, actionConnection, health, ran, faults>>

\* An action that was finished is answered ok, or with an error; one that was
\* not begun may be refused, or asked for again.
ActionReply(l) ==
  LET r == link[l].req IN
  /\ Quiet /\ link[l].state = "open" /\ Busy(l) /\ link[l].wire \in {"sent", "begun", "done"}
  /\ \/ /\ link[l].wire = "done" /\ Settle(r, "ok")
        /\ Keep(Answered(l), health) /\ UNCHANGED faults
     \/ /\ Settle(r, "error")
        /\ Keep(Answered(l), health) /\ UNCHANGED faults
     \/ /\ Strike("reconnect")
        /\ link[l].wire = "sent" /\ run[r].attempt = 0 /\ ~run[r].cancelled
        /\ DropAndOpen(r, 1, 0, Answered(l))
  /\ UNCHANGED ran

\* The socket is destroyed, but stays the action connection if it served an action.
GarbledReply(l) ==
  LET r == link[l].req
      ls == [link EXCEPT ![l] = [@ EXCEPT !.state = "destroyed", !.req = NoReq]]
  IN
  /\ Quiet /\ link[l].state = "open" /\ Busy(l) /\ Strike("garbled")
  /\ Settle(r, "error")
  /\ IF run[r].pc = "health" THEN Drop(ls) ELSE Keep(ls, health)
  /\ UNCHANGED ran

\* Mutant: nobody asks whether the action was written.
BugLost(r) == IF run[r].pc = "health" THEN "restart" ELSE "disconnected"

\* mapDisconnect, of a request that was written.
Lost(r) ==
  CASE run[r].pc = "health" -> "restart"
    [] run[r].pc # "health" /\ r \in Mutations -> "unknown"
    [] OTHER -> "disconnected"

\* Mutant: a request that was written is tried again too.
BugClosed(l) ==
  LET r == link[l].req
      ls == [link EXCEPT ![l] = [@ EXCEPT !.state = "closed", !.req = NoReq]]
  IN
  /\ \/ ~Busy(l) /\ Keep(ls, health) /\ UNCHANGED <<lane, run, answer>>
     \/ /\ Busy(l)
        /\ IF run[r].pc = "action" /\ run[r].attempt = 0 /\ ~run[r].cancelled
             THEN DropAndOpen(r, 1, 0, ls)
             ELSE Settle(r, Lost(r)) /\ Drop(ls)
  /\ UNCHANGED ran

\* A link is closed, by the service or by this process; a request in flight on
\* it has been written.
Closed(l) ==
  LET r == link[l].req
      ls == [link EXCEPT ![l] = [@ EXCEPT !.state = "closed", !.req = NoReq]]
  IN
  /\ \/ ~Busy(l) /\ Keep(ls, health) /\ UNCHANGED <<lane, run, answer>>
     \/ Busy(l) /\ Drop(ls) /\ Settle(r, Lost(r))
  /\ UNCHANGED ran

ServiceCloses(l) == Quiet /\ link[l].state = "open" /\ Strike("broken") /\ Closed(l)
SocketCloses(l) == link[l].state \in {"dropped", "destroyed"} /\ Closed(l) /\ UNCHANGED faults
-----------------------------------------------------------------------------
Caller(r) ==
  \/ Request(r) \/ Begin(r) \/ Abort(r) \/ Deadline(r)
  \/ \E reason \in Reasons : Cancelled(r, reason)

Network(l) ==
  \/ Connected(l) \/ ConnectFails(l) \/ HealthReply(l) \/ ServiceBegins(l)
  \/ ServiceFinishes(l) \/ ActionReply(l) \/ GarbledReply(l)
  \/ ServiceCloses(l) \/ SocketCloses(l)

Next == Close \/ (\E r \in Reqs : Caller(r)) \/ (\E l \in Links : Network(l))

Spec == Init /\ [][Next]_vars

\* What is due in this process happens: a request begins, a destroyed socket
\* closes, a timer fires, CancelTurn ends within a second.  Nothing is assumed
\* of the service.
LiveSpec ==
  /\ Spec
  /\ WF_vars(\E l \in Links : SocketCloses(l))
  /\ \A r \in Reqs : WF_vars(Begin(r)) /\ WF_vars(Deadline(r))
                     /\ WF_vars(\E reason \in Reasons : Cancelled(r, reason))
-----------------------------------------------------------------------------
TypeOK ==
  /\ run \in [Reqs -> [ pc : Waits \cup {"idle", "queued", "over"}, link : 0 .. Len(link),
                        attempt : 0 .. 1, hattempt : 0 .. 1, cancelled : BOOLEAN,
                        aborted : BOOLEAN, fired : SUBSET Reasons,
                        cancelling : SUBSET Reasons ]]
  /\ lane \in Seq(Reqs) /\ answer \in [Reqs -> Answers]
  /\ \A l \in Links : link[l] \in
       [ state : {"connecting", "open", "dropped", "destroyed", "closed"},
         req : Reqs \cup {NoReq}, of : Reqs,
         wire : {"none", "health", "sent", "begun", "done"} ]
  /\ actionConnection \in 0 .. Len(link) /\ health \in BOOLEAN
  /\ ran \in [Reqs -> Nat] /\ faults \in 0 .. MaxFaults

\* What an answer tells the caller of the action.
Verdict(r, a) ==
  CASE a = "none" -> "nothing"
    [] a = "ok" -> "done"
    [] a \in {"restart", "internal"} -> "never"
    [] a = "disconnected" /\ r \in Mutations -> "never"
    [] OTHER -> "unknown"
Told == [r \in Reqs |-> Verdict(r, answer[r])]

\* Whatever fails, is retried or given up, and however late a run goes on: an
\* action takes effect at most once, ok means that it did, and a caller told to
\* restart the service, or that the connection closed under a mutation, may
\* safely ask again (mapDisconnect, NdjsonDisconnectError.wrote).
Promise == INSTANCE Mutation WITH told <- Told
KeepsWord == Promise!Spec

\* No socket is forgotten: one that is open is the action connection, or a run
\* awaits it (dropActionConnection on every path that retries).
NoLeak ==
  \A l \in Links :
    link[l].state \in {"connecting", "open"} =>
      l = actionConnection \/ \E r \in Reqs : run[r].pc \in Waits /\ run[r].link = l

\* Every request with a deadline is settled, with a service that never answers,
\* and however many requests are before it (withDeadline, actionTail).
EveryRequestSettled == \A r \in Contextual : (run[r].pc # "idle") ~> (answer[r] # "none")

\* Nothing is written for a request once it was cancelled or its deadline passed.
NothingWrittenLate ==
  [][\A l \in Links' :
       link'[l].wire = "sent" /\ (l \in Links => link[l].wire # "sent") =>
         ~run[link'[l].of].cancelled]_vars

\* No request finds another one in flight on its connection.
NeverBusy == \A r \in Reqs : answer[r] # "internal"

\* A caller is told that its turn was cancelled only of an action that was not
\* finished.
CancelledMeansStopped ==
  [][\A r \in Reqs :
       answer[r] = "none" /\ answer'[r] = "cancelled" =>
         ~\E l \in Links : link[l].of = r /\ link[l].wire = "done"]_vars
=============================================================================
