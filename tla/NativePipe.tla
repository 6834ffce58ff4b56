------------------------------ MODULE NativePipe ------------------------------
(***************************************************************************)
(* The sockets that trusted code in a kernel opens through its host:       *)
(* NativePipeBroker and the part of KernelChild that talks to it           *)
(* (runtime/cua-node/src/host), the private channel to the kernel, and     *)
(* createNativePipe in the kernel (runtime/cua-node/src/kernel/kernel.ts). *)
(*                                                                         *)
(* One KernelChild runs one process after the other; a process draws its   *)
(* own token, and counts its connections and requests from the start.      *)
(* The host and the kernel are each one thread; the channel is a FIFO in   *)
(* both directions and is lost with its process.  A socket delivers what   *)
(* its peer sends in order: item n is the n-th of a connection.            *)
(***************************************************************************)
EXTENDS Naturals, Sequences, FiniteSets

CONSTANTS
  MaxProcs,     \* bound: processes
  MaxCells,     \* bound: cells, over all processes
  MaxConns,     \* bound: connections of a process
  MaxRequests,  \* bound: requests of a process
  MaxData,      \* bound: items a peer sends
  Faults        \* what can go wrong, see FaultKinds

FaultKinds ==
  { "exit",       \* the process exits, breaks the protocol or is terminated
    "slow",       \* looking a path up outlasts the process that asked for it
    "invalid",    \* the path is no socket of this user, or no longer the same
    "unreachable",\* no connection is made
    "lost" }      \* the peer closes, or the socket fails

ASSUME NativePipeAssumption ==
  /\ Faults \subseteq FaultKinds
  /\ {MaxProcs, MaxCells, MaxConns, MaxRequests, MaxData} \subseteq Nat

Conns == 1 .. MaxConns
Cells == 1 .. MaxCells
Requests == 1 .. MaxRequests
-----------------------------------------------------------------------------
VARIABLES
  \* of the host
  live,         \* the process that has shown its token, 0 if there is none
  born,         \* processes so far
  active,       \* activeExecId, of KernelChild and of the broker; 0 is null
  cells,        \* cells so far
  table,        \* the connections of the broker
  looking,      \* connect and list_directory requests whose path is looked up
  \* the channel
  up, down,     \* messages to the host, and to the kernel
  \* of the kernel
  running,      \* runningExecution; 0 is null
  state,        \* the connections made by createConnection
  asked,        \* requests so far
  waiters       \* bridgeWaiters: the requests without an answer

host == <<live, born, active, cells, table, looking>>
channel == <<up, down>>
kernel == <<running, state, asked, waiters>>
vars == <<host, channel, kernel>>

NoConn == [st |-> "none", of |-> 0, exec |-> 0, req |-> 0, sent |-> 0]
Opened == Len(state)

Init ==
  /\ live = 0 /\ born = 0 /\ active = 0 /\ cells = 0
  /\ table = [c \in Conns |-> NoConn] /\ looking = {}
  /\ up = <<>> /\ down = <<>>
  /\ running = 0 /\ state = <<>> /\ asked = 0 /\ waiters = {}
-----------------------------------------------------------------------------
(* Messages.                                                               *)

Request(op, conn, exec) == [type |-> op, conn |-> conn, exec |-> exec, req |-> asked + 1]
Result(exec) == [type |-> "result", exec |-> exec]
Exec(exec) == [type |-> "exec", exec |-> exec]
Response(req, ok) == [type |-> "response", req |-> req, ok |-> ok]
Data(conn, n, exec) == [type |-> "data", conn |-> conn, n |-> n, exec |-> exec]
Gone(conn, exec) == [type |-> "closed", conn |-> conn, exec |-> exec]

\* KernelChild sends nothing when it has no process.
Sent(messages) == IF live = 0 THEN down ELSE down \o messages

\* The execution that an event is reported to.
Told(c) == IF active # 0 THEN active ELSE table[c].exec
-----------------------------------------------------------------------------
(* Processes and cells.                                                    *)

\* Mutant: the connections stay in the table.
BugClosedAll == table
\* closeAll
ClosedAll == [c \in Conns |-> NoConn]

NewChannel == up' = <<>> /\ down' = <<>>
NewKernel == running' = 0 /\ state' = <<>> /\ asked' = 0 /\ waiters' = {}

\* privileged_bridge_handshake of the next process.
Handshake ==
  /\ live = 0 /\ born < MaxProcs
  /\ "slow" \in Faults \/ looking = {}
  /\ live' = born + 1 /\ born' = born + 1
  /\ table' = ClosedAll /\ active' = 0
  /\ NewChannel /\ NewKernel
  /\ UNCHANGED <<cells, looking>>

\* handleExit, terminate
Exit ==
  /\ "exit" \in Faults /\ live # 0
  /\ live' = 0 /\ active' = 0 /\ table' = ClosedAll
  /\ NewChannel /\ NewKernel
  /\ UNCHANGED <<born, cells, looking>>

\* KernelChild.execute
Execute ==
  /\ live # 0 /\ active = 0 /\ cells < MaxCells
  /\ cells' = cells + 1 /\ active' = cells + 1
  /\ down' = Sent(<<Exec(cells + 1)>>)
  /\ UNCHANGED <<live, born, table, looking, up, kernel>>
-----------------------------------------------------------------------------
(* The code in the kernel.                                                 *)

\* Mutant: the counter of requests stands still.
BugAsk(op, conn, exec) ==
  /\ waiters' = waiters \cup {asked + 1} /\ asked' = asked
  /\ up' = Append(up, Request(op, conn, exec))

Ask(op, conn, exec) ==
  /\ asked < MaxRequests
  /\ asked' = asked + 1 /\ waiters' = waiters \cup {asked + 1}
  /\ up' = Append(up, Request(op, conn, exec))

CreateConnection ==
  /\ running # 0 /\ Opened < MaxConns
  /\ Ask("connect", Opened + 1, running)
  /\ state' = Append(state, [st |-> "connecting", req |-> asked + 1, exec |-> running,
                             heard |-> FALSE, got |-> <<>>, pending |-> <<>>])
  /\ UNCHANGED <<host, down, running>>

ListDirectory ==
  /\ running # 0
  /\ Ask("list_directory", 0, running)
  /\ UNCHANGED <<host, down, running, state>>

\* on("data", ...): what came before is handed over.
Listen(c) ==
  /\ running # 0 /\ state[c].st = "open" /\ ~state[c].heard
  /\ state' = [state EXCEPT ![c] = [state[c] EXCEPT !.heard = TRUE, !.pending = <<>>,
                                                    !.got = @ \o state[c].pending]]
  /\ UNCHANGED <<host, channel, running, asked, waiters>>

Write(c) ==
  /\ running # 0 /\ state[c].st = "open"
  /\ Ask("write", c, running)
  /\ state' = [state EXCEPT ![c].exec = running]
  /\ UNCHANGED <<host, down, running>>

End(c) ==
  /\ running # 0 /\ state[c].st = "open"
  /\ Ask("close", c, running)
  /\ state' = [state EXCEPT ![c].st = "closed"]
  /\ UNCHANGED <<host, down, running>>

CellEnds ==
  /\ running # 0
  /\ up' = Append(up, Result(running)) /\ running' = 0
  /\ UNCHANGED <<host, down, state, asked, waiters>>
-----------------------------------------------------------------------------
(* The kernel takes the next message.                                      *)

Takes(kind) == down # <<>> /\ Head(down).type = kind /\ down' = Tail(down)

HandleExec ==
  /\ Takes("exec")
  /\ running' = Head(down).exec
  /\ UNCHANGED <<host, up, state, asked, waiters>>

\* receiveBridge with an answer: only connect has something to change.
HandleResponse ==
  /\ Takes("response")
  /\ LET m == Head(down) IN
     /\ waiters' = waiters \ {m.req}
     /\ state' = [c \in 1 .. Opened |->
          IF state[c].req = m.req /\ state[c].st = "connecting"
            THEN [state[c] EXCEPT !.st = IF m.ok THEN "open" ELSE "closed"]
            ELSE state[c]]
  /\ UNCHANGED <<host, up, running, asked>>

\* The execution that the listeners of c run in.
Context(c, exec) == IF running # 0 /\ exec = running THEN running ELSE state[c].exec

\* Mutant: what comes before the first listener is dropped.
BugKept(c, n) == state[c].pending
Kept(c, n) == Append(state[c].pending, n)

\* receive: a listener may write an answer, in the context of the connection.
HandleData ==
  /\ Takes("data")
  /\ LET m == Head(down) IN
     /\ state' = [c \in 1 .. Opened |->
          IF c # m.conn THEN state[c]
          ELSE IF state[c].heard
          THEN [state[c] EXCEPT !.exec = Context(c, m.exec), !.got = Append(@, m.n)]
          ELSE [state[c] EXCEPT !.exec = Context(c, m.exec), !.pending = Kept(c, m.n)]]
     /\ \/ UNCHANGED <<up, asked, waiters>>
        \/ \E c \in 1 .. Opened :
             /\ c = m.conn /\ state[c].heard /\ state[c].st = "open"
             /\ Ask("write", c, Context(c, m.exec))
  /\ UNCHANGED <<host, running>>

HandleClosed ==
  /\ Takes("closed")
  /\ LET m == Head(down) IN
     state' = [c \in 1 .. Opened |->
       IF c = m.conn THEN [state[c] EXCEPT !.st = "closed", !.exec = Context(c, m.exec)]
                     ELSE state[c]]
  /\ UNCHANGED <<host, up, running, asked, waiters>>
-----------------------------------------------------------------------------
(* The host takes the next request.                                        *)

Asked(op) == up # <<>> /\ Head(up).type = op /\ up' = Tail(up)

HandleResult ==
  /\ Asked("result")
  /\ active' = 0
  /\ UNCHANGED <<live, born, cells, table, looking, down, kernel>>

\* A connection may be made, and a directory listed, only by the running cell.
HandleLookup ==
  /\ Asked("connect") \/ Asked("list_directory")
  /\ LET m == Head(up) IN
     IF m.exec = active
       THEN /\ looking' = looking \cup {[conn |-> m.conn, exec |-> m.exec, req |-> m.req, of |-> live]}
            /\ UNCHANGED down
       ELSE down' = Sent(<<Response(m.req, FALSE)>>) /\ UNCHANGED looking
  /\ UNCHANGED <<live, born, active, cells, table, kernel>>

\* Mutant: a cell may not use the connection of an earlier one.
BugAllowed(c, exec) == active = table[c].exec /\ exec = active
\* An open connection is for the running cell, or else for the last that used it.
Allowed(c, exec) == (active # 0 /\ exec = active) \/ exec = table[c].exec
Used(c, exec) == IF active # 0 /\ exec = active THEN [table EXCEPT ![c].exec = exec] ELSE table

\* A write to a connection that is being made is kept by the socket.
HandleWrite ==
  /\ Asked("write")
  /\ LET m == Head(up)
         ok == table[m.conn].st # "none" /\ Allowed(m.conn, m.exec)
     IN /\ table' = IF ok THEN Used(m.conn, m.exec) ELSE table
        /\ down' = Sent(<<Response(m.req, ok)>>)
  /\ UNCHANGED <<live, born, active, cells, looking, kernel>>

\* Mutant: the kernel is not told.
BugFinished(c, t) == <<>>
\* finish: the connection leaves the table, and the kernel is told.
Finished(c, t) == <<Gone(c, IF active # 0 THEN active ELSE t[c].exec)>>

HandleClose ==
  /\ Asked("close")
  /\ LET m == Head(up)
         c == m.conn
         here == table[c].st # "none"
         ok == here /\ Allowed(c, m.exec)
     IN /\ table' = IF ok THEN [table EXCEPT ![c] = NoConn] ELSE table
        /\ down' = Sent((IF ok THEN Finished(c, Used(c, m.exec)) ELSE <<>>)
                          \o <<Response(m.req, here => ok)>>)
  /\ UNCHANGED <<live, born, active, cells, looking, kernel>>
-----------------------------------------------------------------------------
(* Files and sockets.                                                      *)

\* The path has been looked up; nobody asks whose process wanted it.
Connect(job) ==
  /\ job.conn # 0
  /\ looking' = looking \ {job}
  /\ \/ /\ table[job.conn].st = "none"
        /\ table' = [table EXCEPT ![job.conn] =
                       [st |-> "connecting", of |-> job.of, exec |-> job.exec,
                        req |-> job.req, sent |-> 0]]
        /\ UNCHANGED down
     \/ /\ table[job.conn].st # "none" \/ "invalid" \in Faults
        /\ down' = Sent(<<Response(job.req, FALSE)>>)
        /\ UNCHANGED table
  /\ UNCHANGED <<live, born, active, cells, up, kernel>>

Listed(job) ==
  /\ job.conn = 0
  /\ looking' = looking \ {job}
  /\ \E ok \in BOOLEAN : down' = Sent(<<Response(job.req, ok)>>)
  /\ UNCHANGED <<live, born, active, cells, table, up, kernel>>

Connected(c) ==
  /\ table[c].st = "connecting"
  /\ table' = [table EXCEPT ![c].st = "verifying"]
  /\ UNCHANGED <<live, born, active, cells, looking, channel, kernel>>

\* The path still names the same socket, of the same user.
Verified(c) ==
  /\ table[c].st = "verifying"
  /\ table' = [table EXCEPT ![c].st = "open"]
  /\ down' = Sent(<<Response(table[c].req, TRUE)>>)
  /\ UNCHANGED <<live, born, active, cells, looking, up, kernel>>

\* Mutant: the kernel gets no answer.
BugRejected(c) == down
Rejected(c) == Sent(<<Response(table[c].req, FALSE)>>)

\* rejectBeforeAuthorization: an error, a close, the timeout, another socket.
ConnectFails(c) ==
  /\ \/ table[c].st = "connecting" /\ "unreachable" \in Faults
     \/ table[c].st = "verifying" /\ Faults \cap {"invalid", "unreachable"} # {}
  /\ table' = [table EXCEPT ![c] = NoConn]
  /\ down' = Rejected(c)
  /\ UNCHANGED <<live, born, active, cells, looking, up, kernel>>

\* The socket is paused until the connection is open.
PeerSends(c) ==
  /\ table[c].st = "open" /\ table[c].sent < MaxData
  /\ table' = [table EXCEPT ![c].sent = @ + 1]
  /\ down' = Sent(<<Data(c, table[c].sent + 1, Told(c))>>)
  /\ UNCHANGED <<live, born, active, cells, looking, up, kernel>>

PeerCloses(c) ==
  /\ "lost" \in Faults /\ table[c].st = "open"
  /\ table' = [table EXCEPT ![c] = NoConn]
  /\ down' = Sent(Finished(c, table))
  /\ UNCHANGED <<live, born, active, cells, looking, up, kernel>>
-----------------------------------------------------------------------------
Cell ==
  \/ CreateConnection \/ ListDirectory \/ CellEnds
  \/ \E c \in 1 .. Opened : Listen(c) \/ Write(c) \/ End(c)

KernelReceives == HandleExec \/ HandleResponse \/ HandleData \/ HandleClosed
HostReceives == HandleResult \/ HandleLookup \/ HandleWrite \/ HandleClose
LooksUp == \E job \in looking : Connect(job) \/ Listed(job)
Makes(c) == Connected(c) \/ Verified(c) \/ ConnectFails(c)

Next ==
  \/ Handshake \/ Exit \/ Execute
  \/ Cell \/ KernelReceives \/ HostReceives \/ LooksUp
  \/ \E c \in Conns : Makes(c) \/ PeerSends(c) \/ PeerCloses(c)

Spec == Init /\ [][Next]_vars

\* Both threads take the messages that wait for them, files are looked up, and a
\* connection is made or refused, at the latest by the timer of connect.
LiveSpec ==
  /\ Spec
  /\ WF_vars(KernelReceives) /\ WF_vars(HostReceives) /\ WF_vars(LooksUp)
  /\ \A c \in Conns : WF_vars(Makes(c))
-----------------------------------------------------------------------------
TypeOK ==
  /\ live \in 0 .. MaxProcs /\ born \in 0 .. MaxProcs
  /\ active \in 0 .. MaxCells /\ cells \in 0 .. MaxCells /\ running \in 0 .. MaxCells
  /\ \A c \in Conns :
       /\ table[c].st \in {"none", "connecting", "verifying", "open"}
       /\ table[c].sent \in 0 .. MaxData
  /\ Opened <= MaxConns
  /\ \A c \in 1 .. Opened :
       /\ state[c].st \in {"connecting", "open", "closed"}
       /\ Len(state[c].got) + Len(state[c].pending) <= MaxData
  /\ asked \in 0 .. MaxRequests /\ waiters \subseteq 1 .. asked

Have(c) == Len(state[c].got) + Len(state[c].pending)

\* Where the data of a connection stands on its way to the kernel.
OnWay(c) == {i \in 1 .. Len(down) : down[i].type = "data" /\ down[i].conn = c}

\* The data of a connection reaches the code in the kernel in the order in which
\* it was sent, without a gap, whenever it begins to listen: what the kernel has
\* are the first items, and those on their way are the ones that follow, up to the
\* last one sent.  None of it is of an earlier connection with the same number.
InOrder ==
  \A c \in 1 .. Opened :
    /\ \A i \in 1 .. Have(c) : (state[c].got \o state[c].pending)[i] = i
    /\ \A i, j \in OnWay(c) : i < j => down[i].n < down[j].n
    /\ \E last \in Have(c) .. MaxData :
         /\ {down[i].n : i \in OnWay(c)} = Have(c) + 1 .. last
         /\ table[c].st = "open" => last = table[c].sent

\* While a process lives, the broker's table holds its connections only: what an
\* earlier one opened, or began to open, cannot answer to a number of its own.
OwnConnections == live # 0 => \A c \in Conns : table[c].st # "none" => table[c].of = live

\* A connection that the kernel believes open is open in the host, or the message
\* that it was closed is on its way.
LossReported ==
  \A c \in 1 .. Opened :
    state[c].st = "open" =>
      table[c].st = "open" \/ \E i \in 1 .. Len(down) : down[i].type = "closed" /\ down[i].conn = c

\* Every request of a process that goes on is answered.
EveryRequestAnswered ==
  \A r \in Requests : (r \in waiters) ~> (r \notin waiters)

\* What a listener, or a cell, writes to an open connection is not refused
\* (requireActiveExecution is not meant for the answers of listeners).
NeverRefused ==
  [][HandleWrite /\ table[Head(up).conn].st = "open" => down'[Len(down')].ok]_vars
=============================================================================
