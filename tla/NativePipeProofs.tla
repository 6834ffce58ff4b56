--------------------------- MODULE NativePipeProofs ---------------------------
(***************************************************************************)
(* The sockets of trusted code, for every number of processes, cells,      *)
(* connections, requests and items, and with every fault but one: that a   *)
(* path is still looked up when the process that asked for it has gone     *)
(* ("slow").  With that fault OwnConnections does not hold (run            *)
(* stale_pipe), and nothing that rests on it.                              *)
(*                                                                         *)
(* The invariant follows a connection and a request through the four       *)
(* places where they can be: a message to the host, a path that is looked  *)
(* up, a row of the table, a message to the kernel.  Known says that all   *)
(* of these speak of connections that the kernel has made; Once, that a    *)
(* connection that is still to be made is in one of the places only; and   *)
(* Sound, for each connection, that the kernel has heard nothing of it     *)
(* until then, and from then on hears everything, in order, the end last.  *)
(***************************************************************************)
EXTENDS NativePipe, TLAPS

-----------------------------------------------------------------------------
(* The invariant.                                                          *)

Execs == 0 .. MaxCells
ConnRec == [ st : {"none", "connecting", "verifying", "open"}, of : Nat, exec : Execs,
             req : Nat, sent : 0 .. MaxData ]
StateRec == [ st : {"connecting", "open", "closed"}, req : Nat, exec : Execs,
              heard : BOOLEAN, got : Seq(Nat), pending : Seq(Nat) ]
Job == [ conn : 0 .. MaxConns, exec : Execs, req : Nat, of : Nat ]
UpMsg ==
  [ type : {"connect", "write", "close", "list_directory"}, conn : 0 .. MaxConns,
    exec : Execs, req : Nat ] \cup [ type : {"result"}, exec : Execs ]
DownMsg ==
  [ type : {"exec"}, exec : Execs ] \cup [ type : {"response"}, req : Nat, ok : BOOLEAN ]
  \cup [ type : {"data"}, conn : Conns, n : Nat, exec : Execs ]
  \cup [ type : {"closed"}, conn : Conns, exec : Execs ]

Typed ==
  /\ live \in 0 .. MaxProcs /\ born \in 0 .. MaxProcs /\ live <= born
  /\ active \in Execs /\ cells \in Execs /\ running \in Execs
  /\ table \in [Conns -> ConnRec] /\ looking \subseteq Job
  /\ up \in Seq(UpMsg) /\ down \in Seq(DownMsg)
  /\ state \in Seq(StateRec) /\ Opened <= MaxConns
  /\ asked \in 0 .. MaxRequests /\ waiters \subseteq 1 .. asked

Ours == 1 .. Opened
Ups == 1 .. Len(up)
Downs == 1 .. Len(down)

\* Without a process there is nothing of one.
Dead ==
  live = 0 => /\ up = <<>> /\ down = <<>> /\ state = <<>> /\ running = 0
              /\ asked = 0 /\ waiters = {} /\ active = 0

\* The request r did not ask for a connection.
Plain(r) == \A c \in Ours : state[c].req # r

\* Messages, jobs and the table speak of connections that the kernel has.
UpKnown ==
  \A i \in Ups :
    /\ up[i].type = "connect" => up[i].conn \in Ours /\ up[i].req = state[up[i].conn].req
    /\ up[i].type \in {"write", "close"} =>
         up[i].conn \in Ours /\ state[up[i].conn].st # "connecting" /\ Plain(up[i].req)
    /\ up[i].type = "list_directory" => up[i].conn = 0 /\ Plain(up[i].req)
    /\ up[i].type # "result" => up[i].req \in 1 .. asked
JobsKnown ==
  live # 0 => \A job \in looking :
    /\ job.of = live /\ job.req \in 1 .. asked
    /\ job.conn # 0 => job.conn \in Ours /\ job.req = state[job.conn].req
    /\ job.conn = 0 => Plain(job.req)
TableKnown ==
  live # 0 => \A c \in Conns : table[c].st # "none" =>
    c \in Ours /\ table[c].of = live /\ table[c].req = state[c].req
DownKnown ==
  \A i \in Downs :
    /\ down[i].type \in {"data", "closed"} => down[i].conn \in Ours
    /\ down[i].type = "response" => down[i].req \in 1 .. asked
ReqsKnown ==
  /\ \A c \in Ours : state[c].req \in 1 .. asked
  /\ \A c, d \in Ours : state[c].req = state[d].req => c = d

\* A connection is asked for once, and is in one place only.
Once ==
  live # 0 =>
    /\ \A i, j \in Ups :
         up[i].type = "connect" /\ up[j].type = "connect" /\ up[i].conn = up[j].conn => i = j
    /\ \A i \in Ups : up[i].type = "connect" =>
         table[up[i].conn].st = "none" /\ \A job \in looking : job.conn # up[i].conn
    /\ \A job \in looking : job.conn # 0 =>
         /\ table[job.conn].st = "none"
         /\ \A k \in looking : k.conn = job.conn => k = job

Making(c) == table[c].st \in {"connecting", "verifying"}
\* Connection c has not been made yet, but may be.
Coming(c) ==
  \/ \E i \in Ups : up[i].type = "connect" /\ up[i].conn = c
  \/ \E job \in looking : job.conn = c
  \/ Making(c)
\* Then the kernel has heard nothing of it, and nothing is on its way.
Silent(c) ==
  /\ state[c].st = "connecting" /\ Have(c) = 0
  /\ \A i \in Downs :
       /\ down[i].type \in {"data", "closed"} => down[i].conn # c
       /\ down[i].type = "response" => down[i].req # state[c].req
NoneSent == \A c \in Conns : table[c].st # "open" => table[c].sent = 0

ClosedAfter(c, i) == \E j \in Downs : j > i /\ down[j].type = "closed" /\ down[j].conn = c
\* A connection that the kernel is about to believe open is open, or the kernel
\* is told afterwards that it was closed.
Opening(c) ==
  \A i \in Downs :
    state[c].st = "connecting" /\ down[i].type = "response" /\ down[i].ok /\ down[i].req = state[c].req
      => table[c].st = "open" \/ ClosedAfter(c, i)
Loss(c) == state[c].st = "open" => table[c].st = "open" \/ ClosedAfter(c, 0)

Order(c) ==
  /\ \A i \in 1 .. Have(c) : (state[c].got \o state[c].pending)[i] = i
  /\ \A i, j \in OnWay(c) : i < j => down[i].n < down[j].n
  /\ \E last \in Have(c) .. MaxData :
       /\ {down[i].n : i \in OnWay(c)} = Have(c) + 1 .. last
       /\ table[c].st = "open" => last = table[c].sent

\* What is so of each connection.
Sound(c) ==
  /\ Coming(c) => Silent(c)
  /\ state[c].heard => state[c].pending = <<>>
  /\ Opening(c) /\ Loss(c) /\ Order(c)

\* The request r has not got lost.
Somewhere(r) ==
  \/ \E i \in Ups : up[i].type # "result" /\ up[i].req = r
  \/ \E job \in looking : job.req = r
  \/ \E c \in Conns : Making(c) /\ table[c].req = r
  \/ \E i \in Downs : down[i].type = "response" /\ down[i].req = r
NothingForgotten == \A r \in waiters : Somewhere(r)

Known == UpKnown /\ JobsKnown /\ TableKnown /\ DownKnown /\ ReqsKnown
Inv ==
  /\ Typed /\ Dead /\ Known /\ Once /\ NoneSent
  /\ (\A c \in Ours : Sound(c)) /\ NothingForgotten
-----------------------------------------------------------------------------
(* Sequences.                                                              *)

LEMMA Bounds ==
  MaxProcs \in Nat /\ MaxCells \in Nat /\ MaxConns \in Nat /\ MaxRequests \in Nat /\ MaxData \in Nat
BY NativePipeAssumption

Took(s, t) == Len(s) > 0 /\ Len(t) = Len(s) - 1 /\ \A i \in 1 .. Len(t) : t[i] = s[i + 1]
Grew(s, t) == Len(t) >= Len(s) /\ \A i \in 1 .. Len(s) : t[i] = s[i]
\* ... by one message
GrewBy(s, t, m) == Grew(s, t) /\ Len(t) = Len(s) + 1 /\ t[Len(s) + 1] = m

LEMMA Adds ==
  ASSUME NEW S, NEW s \in Seq(S), NEW m \in S
  PROVE  Append(s, m) \in Seq(S) /\ GrewBy(s, Append(s, m), m) /\ Len(s) \in Nat
BY DEF GrewBy, Grew

LEMMA Joins ==
  ASSUME NEW S, NEW s \in Seq(S), NEW m \in S
  PROVE  s \o <<m>> \in Seq(S) /\ GrewBy(s, s \o <<m>>, m) /\ Len(s) \in Nat
BY DEF GrewBy, Grew

LEMMA JoinsTwo ==
  ASSUME NEW S, NEW s \in Seq(S), NEW m \in S, NEW n \in S
  PROVE  LET t == s \o (<<m>> \o <<n>>) IN
         t \in Seq(S) /\ Grew(s, t) /\ Len(t) = Len(s) + 2
         /\ t[Len(s) + 1] = m /\ t[Len(s) + 2] = n /\ Len(s) \in Nat
BY DEF Grew

LEMMA JoinsNone ==
  ASSUME NEW S, NEW s \in Seq(S), NEW m \in S
  PROVE  s \o (<<>> \o <<m>>) = s \o <<m>>
OBVIOUS

LEMMA Takes1 ==
  ASSUME NEW S, NEW s \in Seq(S), s # <<>>
  PROVE  /\ Tail(s) \in Seq(S) /\ Took(s, Tail(s)) /\ Head(s) = s[1] /\ Len(s) \in Nat
         /\ s[1] \in S /\ 1 \in 1 .. Len(s)
BY DEF Took

LEMMA Sets ==
  ASSUME NEW S, NEW s \in Seq(S), NEW n \in 1 .. Len(s), NEW r \in S, NEW t, t = [s EXCEPT ![n] = r]
  PROVE  /\ t \in Seq(S) /\ Len(t) = Len(s) /\ t[n] = r
         /\ \A m \in 1 .. Len(s) : m # n => t[m] = s[m]
OBVIOUS

-----------------------------------------------------------------------------
(* A connection, when the messages for the kernel grow or the first is taken.*)

\* The kernel has the same items of connection c, handed over or not.
SameItems(c) ==
  /\ state'[c].got \o state'[c].pending = state[c].got \o state[c].pending
  /\ Have(c)' = Have(c)
\* Its side of c is what it was, or is closed.
SameState(c) ==
  /\ state'[c].st \in {state[c].st, "closed"} /\ state'[c].req = state[c].req
  /\ Coming(c)' => state'[c].st = state[c].st
  /\ state'[c].heard => state'[c].pending = <<>>
  /\ SameItems(c)

\* The messages for the kernel that a step adds.
New(i) == i \in 1 .. Len(down') /\ i > Len(down)

LEMMA OrderGrew ==
  ASSUME Typed, NEW c \in Ours, Order(c), SameItems(c), Grew(down, down'), down' \in Seq(DownMsg),
         table'[c].st = "open" => table[c].st = "open" /\ table'[c].sent = table[c].sent,
         \A i : New(i) => ~(down'[i].type = "data" /\ down'[i].conn = c)
  PROVE  Order(c)'
<1>1. OnWay(c)' = OnWay(c)
  <2>1. Len(down) \in Nat /\ Len(down') \in Nat BY DEF Typed
  <2> QED BY <2>1 DEF OnWay, Grew, New
<1>2. \A i \in OnWay(c) : down'[i] = down[i] BY DEF OnWay, Grew
<1>3. Have(c)' = Have(c) BY DEF SameItems
<1>4. {down'[i].n : i \in OnWay(c)} = {down[i].n : i \in OnWay(c)} BY <1>2
<1> QED
  <2>1. \A i \in 1 .. Have(c)' : (state'[c].got \o state'[c].pending)[i] = i
    BY <1>3 DEF Order, SameItems
  <2>2. \A i, j \in OnWay(c)' : i < j => down'[i].n < down'[j].n
    BY <1>1, <1>2 DEF Order
  <2>3. \E last \in Have(c)' .. MaxData :
         /\ {down'[i].n : i \in OnWay(c)'} = Have(c)' + 1 .. last
         /\ table'[c].st = "open" => last = table'[c].sent
    BY <1>1, <1>3, <1>4 DEF Order
  <2> QED BY <2>1, <2>2, <2>3 DEF Order

LEMMA OrderTook ==
  ASSUME Typed, NEW c \in Ours, Order(c), SameItems(c), Took(down, down'), down' \in Seq(DownMsg),
         table'[c].st = "open" => table[c].st = "open" /\ table'[c].sent = table[c].sent,
         ~(down[1].type = "data" /\ down[1].conn = c)
  PROVE  Order(c)'
<1>0. Len(down) \in Nat /\ Len(down') \in Nat BY DEF Typed
<1>1. \A i \in OnWay(c) : i - 1 \in OnWay(c)' /\ down'[i - 1] = down[i]
  <2> SUFFICES ASSUME NEW i \in OnWay(c) PROVE i - 1 \in OnWay(c)' /\ down'[i - 1] = down[i]
    OBVIOUS
  <2>1. i \in 1 .. Len(down) /\ i # 1 BY DEF OnWay
  <2>2. i - 1 \in 1 .. Len(down') /\ (i - 1) + 1 = i BY <2>1, <1>0 DEF Took
  <2>3. down'[i - 1] = down[i] BY <2>2 DEF Took
  <2> QED BY <2>2, <2>3 DEF OnWay
<1>2. \A i \in OnWay(c)' : i + 1 \in OnWay(c) /\ down'[i] = down[i + 1]
  <2> SUFFICES ASSUME NEW i \in OnWay(c)' PROVE i + 1 \in OnWay(c) /\ down'[i] = down[i + 1]
    OBVIOUS
  <2>1. i \in 1 .. Len(down') BY DEF OnWay
  <2>2. i + 1 \in 1 .. Len(down) /\ down'[i] = down[i + 1] BY <2>1, <1>0 DEF Took
  <2> QED BY <2>2 DEF OnWay
<1>3. Have(c)' = Have(c) BY DEF SameItems
<1>4. {down'[i].n : i \in OnWay(c)'} = {down[i].n : i \in OnWay(c)}
  <2>1. ASSUME NEW i \in OnWay(c)' PROVE \E j \in OnWay(c) : down'[i].n = down[j].n
    BY <1>2
  <2>2. ASSUME NEW j \in OnWay(c) PROVE \E i \in OnWay(c)' : down'[i].n = down[j].n
    BY <1>1
  <2> QED BY <2>1, <2>2
<1> QED
  <2>1. \A i \in 1 .. Have(c)' : (state'[c].got \o state'[c].pending)[i] = i
    BY <1>3 DEF Order, SameItems
  <2>2. ASSUME NEW i \in OnWay(c)', NEW j \in OnWay(c)', i < j PROVE down'[i].n < down'[j].n
    <3>1. i \in 1 .. Len(down') /\ j \in 1 .. Len(down') BY DEF OnWay
    <3> QED BY <3>1, <2>2, <1>2 DEF Order
  <2>3. \E last \in Have(c)' .. MaxData :
         /\ {down'[i].n : i \in OnWay(c)'} = Have(c)' + 1 .. last
         /\ table'[c].st = "open" => last = table'[c].sent
    BY <1>3, <1>4 DEF Order
  <2> QED BY <2>1, <2>2, <2>3 DEF Order

LEMMA ClosedStays ==
  ASSUME Typed, Grew(down, down'), down' \in Seq(DownMsg), NEW c, NEW i \in Nat, ClosedAfter(c, i)
  PROVE  ClosedAfter(c, i)'
BY DEF ClosedAfter, Grew, Downs, Typed

LEMMA SoundGrew ==
  ASSUME Typed, NEW c \in Ours, Sound(c), SameState(c), Grew(down, down'), down' \in Seq(DownMsg),
         table'[c].st = "open" => table[c].st = "open" /\ table'[c].sent = table[c].sent,
         Coming(c)' => Coming(c),
         table[c].st = "open" =>
           \/ table'[c].st = "open"
           \/ \E i : New(i) /\ down'[i].type = "closed" /\ down'[i].conn = c,
         \A i : New(i) =>
           /\ down'[i].type = "data" => down'[i].conn # c
           /\ down'[i].type = "closed" /\ down'[i].conn = c => ~Coming(c)'
           /\ down'[i].type = "response" /\ down'[i].req = state[c].req => ~Coming(c)' /\ ~down'[i].ok
  PROVE  Sound(c)'
<1>1. Len(down) \in Nat /\ Len(down') \in Nat BY DEF Typed
<1>2. \A i \in Downs' : (i \in Downs /\ down'[i] = down[i]) \/ New(i)
  BY <1>1 DEF Downs, New, Grew
<1>3. Coming(c)' => Silent(c)'
  BY <1>2 DEF Sound, Silent, SameState, SameItems
<1>4. ASSUME NEW n \in Nat, n <= Len(down), table[c].st = "open" \/ ClosedAfter(c, n)
      PROVE  table'[c].st = "open" \/ ClosedAfter(c, n)'
  <2>1. CASE ClosedAfter(c, n) BY <2>1, ClosedStays
  <2>2. CASE table[c].st = "open" /\ table'[c].st # "open"
    <3>1. PICK i : New(i) /\ down'[i].type = "closed" /\ down'[i].conn = c BY <2>2
    <3>2. i \in Downs' /\ i > n BY <3>1, <1>1, <1>4 DEF New, Downs
    <3> QED BY <3>1, <3>2 DEF ClosedAfter
  <2> QED BY <2>1, <2>2, <1>4
<1>5. Opening(c)'
  <2> SUFFICES ASSUME NEW i \in Downs', state'[c].st = "connecting", down'[i].type = "response",
                      down'[i].ok, down'[i].req = state'[c].req
               PROVE  table'[c].st = "open" \/ ClosedAfter(c, i)'
    BY DEF Opening
  <2>1. i \in Downs /\ down'[i] = down[i] BY <1>2 DEF SameState
  <2>2. table[c].st = "open" \/ ClosedAfter(c, i) BY <2>1 DEF Sound, Opening, SameState
  <2>3. i \in Nat /\ i <= Len(down) BY <2>1 DEF Downs
  <2> QED BY <2>2, <2>3, <1>4
<1>6. Loss(c)'
  BY <1>4, <1>1 DEF Sound, Loss, SameState
<1>7. Order(c)'
  BY OrderGrew DEF Sound, SameState
<1> QED BY <1>3, <1>5, <1>6, <1>7 DEF Sound, SameState

LEMMA ClosedTook ==
  ASSUME Typed, Took(down, down'), down' \in Seq(DownMsg), NEW c, NEW n \in Nat, ClosedAfter(c, n),
         n > 0 \/ ~(down[1].type = "closed" /\ down[1].conn = c),
         NEW k \in Nat, k <= n, k < n \/ n = 0
  PROVE  ClosedAfter(c, k)'
<1>1. Len(down) \in Nat /\ Len(down') \in Nat BY DEF Typed
<1>2. PICK j \in Downs : j > n /\ down[j].type = "closed" /\ down[j].conn = c BY DEF ClosedAfter
<1>3. j # 1 /\ j \in 1 .. Len(down) BY <1>2 DEF Downs
<1>4. j - 1 \in Downs' /\ j - 1 >= n /\ (j - 1) + 1 = j /\ j - 1 > 0
  BY <1>1, <1>2, <1>3 DEF Downs, Took
<1>5. down'[j - 1] = down[j] BY <1>4 DEF Took, Downs
<1>6. j - 1 > k BY <1>1, <1>3, <1>4
<1> QED BY <1>2, <1>4, <1>5, <1>6 DEF ClosedAfter

LEMMA TellsTook ==
  ASSUME Typed, NEW c \in Ours, Sound(c), Took(down, down'), down' \in Seq(DownMsg),
         table'[c] = table[c], state'[c].req = state[c].req, state'[c].st \in {state[c].st, "closed"},
         down[1].type = "closed" /\ down[1].conn = c => state'[c].st = "closed"
  PROVE  Opening(c)' /\ Loss(c)'
<1>1. Len(down) \in Nat /\ Len(down') \in Nat BY DEF Typed
<1>2. \A i \in Downs' : i \in Nat /\ i + 1 \in Downs /\ down'[i] = down[i + 1]
  BY <1>1 DEF Downs, Took
<1>3. Opening(c)'
  <2> SUFFICES ASSUME NEW i \in Downs', state'[c].st = "connecting", down'[i].type = "response",
                      down'[i].ok, down'[i].req = state'[c].req
               PROVE  table'[c].st = "open" \/ ClosedAfter(c, i)'
    BY DEF Opening
  <2>1. i \in Nat /\ i + 1 \in Downs /\ down'[i] = down[i + 1] BY <1>2
  <2>2. table[c].st = "open" \/ ClosedAfter(c, i + 1) BY <2>1 DEF Sound, Opening
  <2>3. i + 1 \in Nat /\ i + 1 > 0 /\ i <= i + 1 /\ i < i + 1 BY <2>1
  <2> QED BY <2>1, <2>2, <2>3, ClosedTook
<1>4. Loss(c)'
  BY ClosedTook DEF Sound, Loss
<1> QED BY <1>3, <1>4

LEMMA SoundTook ==
  ASSUME Typed, NEW c \in Ours, Sound(c), SameState(c), Took(down, down'), down' \in Seq(DownMsg),
         table'[c] = table[c], Coming(c)' => Coming(c),
         down[1].type = "data" => down[1].conn # c,
         down[1].type = "closed" /\ down[1].conn = c => state'[c].st = "closed"
  PROVE  Sound(c)'
<1>1. Len(down) \in Nat /\ Len(down') \in Nat BY DEF Typed
<1>2. \A i \in Downs' : i \in Nat /\ i + 1 \in Downs /\ down'[i] = down[i + 1]
  BY <1>1 DEF Downs, Took
<1>3. Coming(c)' => Silent(c)'
  BY <1>2 DEF Sound, Silent, SameState, SameItems
<1>4. Opening(c)' /\ Loss(c)' BY TellsTook DEF SameState
<1>5. Order(c)'
  BY OrderTook DEF Sound, SameState
<1> QED BY <1>3, <1>4, <1>5 DEF Sound, SameState

-----------------------------------------------------------------------------
(* What the steps of the host do, and their types.                         *)

LEMMA SentOne ==
  ASSUME Typed, NEW m \in DownMsg, down' = Sent(<<m>>)
  PROVE  /\ down' \in Seq(DownMsg)
         /\ live # 0 => GrewBy(down, down', m)
         /\ live = 0 => down' = down
BY Joins DEF Typed, Sent

LEMMA SentTwo ==
  ASSUME Typed, NEW m \in DownMsg, NEW n \in DownMsg, down' = Sent(<<m>> \o <<n>>)
  PROVE  /\ down' \in Seq(DownMsg)
         /\ live # 0 => /\ Grew(down, down') /\ Len(down') = Len(down) + 2
                        /\ down'[Len(down) + 1] = m /\ down'[Len(down) + 2] = n
         /\ live = 0 => down' = down
<1>1. down \in Seq(DownMsg) BY DEF Typed
<1> QED BY <1>1, JoinsTwo DEF Sent

LEMMA UpHead ==
  ASSUME Typed, up # <<>>
  PROVE  /\ Head(up) = up[1] /\ up[1] \in UpMsg /\ Took(up, Tail(up)) /\ Tail(up) \in Seq(UpMsg)
         /\ 1 \in Ups /\ Len(up) \in Nat
         /\ up[1].type # "result" => up[1].conn \in 0 .. MaxConns /\ up[1].exec \in Execs
                                     /\ up[1].req \in Nat
<1>1. up \in Seq(UpMsg) BY DEF Typed
<1>2. /\ Head(up) = up[1] /\ up[1] \in UpMsg /\ Took(up, Tail(up)) /\ Tail(up) \in Seq(UpMsg)
      /\ 1 \in Ups /\ Len(up) \in Nat
  BY <1>1, Takes1 DEF Ups
<1> QED BY <1>2 DEF UpMsg

LEMMA DownHead ==
  ASSUME Typed, down # <<>>
  PROVE  /\ Head(down) = down[1] /\ down[1] \in DownMsg /\ Took(down, Tail(down))
         /\ Tail(down) \in Seq(DownMsg) /\ 1 \in Downs /\ Len(down) \in Nat
         /\ down[1].type \in {"exec", "response", "data", "closed"}
         /\ down[1].type = "exec" => down[1].exec \in Execs
         /\ down[1].type = "response" => down[1].req \in Nat /\ down[1].ok \in BOOLEAN
         /\ down[1].type = "data" => down[1].conn \in Conns /\ down[1].n \in Nat
         /\ down[1].type = "closed" => down[1].conn \in Conns
<1>1. down \in Seq(DownMsg) BY DEF Typed
<1>2. /\ Head(down) = down[1] /\ down[1] \in DownMsg /\ Took(down, Tail(down))
      /\ Tail(down) \in Seq(DownMsg) /\ 1 \in Downs /\ Len(down) \in Nat
  BY <1>1, Takes1 DEF Downs
<1> QED BY <1>2 DEF DownMsg

LEMMA Row ==
  ASSUME Typed, NEW c \in Conns
  PROVE  /\ table[c] \in ConnRec /\ table[c].st \in {"none", "connecting", "verifying", "open"}
         /\ table[c].of \in Nat /\ table[c].exec \in Execs /\ table[c].req \in Nat
         /\ table[c].sent \in 0 .. MaxData
BY DEF Typed, ConnRec

LEMMA NoRow == NoConn \in ConnRec /\ NoConn.st = "none" /\ NoConn.sent = 0
BY NativePipeAssumption DEF NoConn, ConnRec, Execs

LEMMA PutRow ==
  ASSUME Typed, NEW c \in Conns, NEW r \in ConnRec, table' = [table EXCEPT ![c] = r]
  PROVE  table' \in [Conns -> ConnRec] /\ table'[c] = r
         /\ \A d \in Conns : d # c => table'[d] = table[d]
BY DEF Typed

LEMMA Messages ==
  /\ \A r \in Nat : \A ok \in BOOLEAN :
       LET m == Response(r, ok) IN m \in DownMsg /\ m.type = "response" /\ m.req = r /\ m.ok = ok
  /\ \A c \in Conns, n \in Nat, e \in Execs :
       LET m == Data(c, n, e) IN m \in DownMsg /\ m.type = "data" /\ m.conn = c /\ m.n = n
  /\ \A c \in Conns, e \in Execs :
       LET m == Gone(c, e) IN m \in DownMsg /\ m.type = "closed" /\ m.conn = c
  /\ \A e \in Execs : LET m == Exec(e) IN m \in DownMsg /\ m.type = "exec" /\ m.exec = e
BY DEF Response, Data, Gone, Exec, DownMsg

\* What a step of the host leaves alone.
HostStep == UNCHANGED <<live, born, cells, kernel>>
\* What it may not spoil.
Fit == Typed /\ NoneSent

LEMMA FitHost ==
  ASSUME Fit, HostStep, active' \in Execs, table' \in [Conns -> ConnRec], looking' \subseteq Job,
         up' \in Seq(UpMsg), down' \in Seq(DownMsg), NoneSent'
  PROVE  Fit'
BY DEF Fit, Typed, HostStep, kernel, Opened

LEMMA ExecuteFit ==
  ASSUME Fit, Execute
  PROVE  Fit' /\ live # 0 /\ GrewBy(down, down', Exec(cells + 1)) /\ cells + 1 \in Execs
<1>1. cells + 1 \in Execs BY Bounds DEF Fit, Typed, Execute, Execs
<1>2. down' \in Seq(DownMsg) /\ GrewBy(down, down', Exec(cells + 1))
  BY <1>1, SentOne, Messages DEF Execute, Fit
<1>3. Fit' BY <1>1, <1>2 DEF Execute, Fit, Typed, NoneSent, kernel, Execs, Opened
<1> QED BY <1>1, <1>2, <1>3 DEF Execute

LEMMA ResultFit ==
  ASSUME Fit, HandleResult
  PROVE  Fit' /\ Took(up, up') /\ up[1].type = "result"
<1>1. up' \in Seq(UpMsg) /\ Took(up, up') /\ up[1].type = "result"
  BY UpHead DEF HandleResult, Asked, Fit
<1>2. 0 \in Execs BY NativePipeAssumption DEF Execs
<1>3. Fit' BY <1>1, <1>2 DEF HandleResult, Fit, Typed, NoneSent, kernel, Opened
<1> QED BY <1>1, <1>3

LEMMA UsedTable ==
  ASSUME Typed, NEW c \in Conns, NEW e \in Execs
  PROVE  /\ Used(c, e) \in [Conns -> ConnRec]
         /\ \A d \in Conns : /\ Used(c, e)[d].st = table[d].st /\ Used(c, e)[d].of = table[d].of
                             /\ Used(c, e)[d].req = table[d].req /\ Used(c, e)[d].sent = table[d].sent
<1>1. table \in [Conns -> ConnRec] /\ table[c] \in ConnRec BY DEF Typed
<1>2. [table[c] EXCEPT !.exec = e] \in ConnRec
      /\ [table[c] EXCEPT !.exec = e].st = table[c].st
      /\ [table[c] EXCEPT !.exec = e].of = table[c].of
      /\ [table[c] EXCEPT !.exec = e].req = table[c].req
      /\ [table[c] EXCEPT !.exec = e].sent = table[c].sent
  BY <1>1 DEF ConnRec
<1>3. Used(c, e) = table \/ Used(c, e) = [table EXCEPT ![c] = [table[c] EXCEPT !.exec = e]]
  BY DEF Used
<1> QED BY <1>1, <1>2, <1>3

\* A message, but for its type, that goes to the kernel if there is one.
Adding(m) == down' \in Seq(DownMsg) /\ (live # 0 => GrewBy(down, down', m)) /\ (live = 0 => down' = down)
\* Fields of the table that do not depend on who used a connection.
SameRow(c) ==
  /\ table'[c].st = table[c].st /\ table'[c].of = table[c].of
  /\ table'[c].req = table[c].req /\ table'[c].sent = table[c].sent

LEMMA LookupFit ==
  ASSUME Fit, HandleLookup
  PROVE  /\ Fit' /\ Took(up, up') /\ table' = table
         /\ up[1].type \in {"connect", "list_directory"}
         /\ \/ /\ looking' = looking \cup
                     {[conn |-> up[1].conn, exec |-> up[1].exec, req |-> up[1].req, of |-> live]}
               /\ down' = down
            \/ looking' = looking /\ Adding(Response(up[1].req, FALSE))
<1>1. /\ up' \in Seq(UpMsg) /\ Took(up, up') /\ up[1].type \in {"connect", "list_directory"}
      /\ Head(up) = up[1] /\ up[1].conn \in 0 .. MaxConns /\ up[1].exec \in Execs /\ up[1].req \in Nat
  BY UpHead DEF HandleLookup, Asked, Fit
<1> DEFINE job == [conn |-> up[1].conn, exec |-> up[1].exec, req |-> up[1].req, of |-> live]
<1>2. job \in Job
  <2>1. live \in Nat BY DEF Fit, Typed
  <2> QED BY <1>1, <2>1 DEF Job
<1>3. Response(up[1].req, FALSE) \in DownMsg BY <1>1, Messages
<1>4. \/ looking' = looking \cup {job} /\ down' = down
      \/ looking' = looking /\ down' = Sent(<<Response(up[1].req, FALSE)>>)
  BY <1>1 DEF HandleLookup
<1>5. \/ looking' = looking \cup {job} /\ down' = down
      \/ looking' = looking /\ Adding(Response(up[1].req, FALSE))
  BY <1>3, <1>4, SentOne DEF Adding, Fit
<1>6. down' \in Seq(DownMsg) /\ looking' \subseteq Job
  BY <1>2, <1>5 DEF Adding, Fit, Typed
<1>7. Fit'
  BY <1>1, <1>6, FitHost DEF HandleLookup, HostStep, Fit, Typed, NoneSent
<1> QED BY <1>1, <1>5, <1>7 DEF HandleLookup

\* Connections that are asked for by number are numbers of the table.
LEMMA WriteFit ==
  ASSUME Fit, HandleWrite, up[1].conn \in Conns
  PROVE  /\ Fit' /\ Took(up, up') /\ up[1].type = "write"
         /\ \A c \in Conns : SameRow(c)
         /\ \E ok \in BOOLEAN : Adding(Response(up[1].req, ok))
<1>1. /\ up' \in Seq(UpMsg) /\ Took(up, up') /\ up[1].type = "write"
      /\ Head(up) = up[1] /\ up[1].exec \in Execs /\ up[1].req \in Nat
  BY UpHead DEF HandleWrite, Asked, Fit
<1>2. table' = table \/ table' = Used(up[1].conn, up[1].exec)
  BY <1>1 DEF HandleWrite
<1>3. table' \in [Conns -> ConnRec] /\ \A c \in Conns : SameRow(c)
  BY <1>1, <1>2, UsedTable DEF Fit, SameRow, Typed
<1>4. \E ok \in BOOLEAN : down' = Sent(<<Response(up[1].req, ok)>>)
  <2>1. PICK ok : /\ ok = (table[up[1].conn].st # "none" /\ Allowed(up[1].conn, up[1].exec))
                  /\ down' = Sent(<<Response(up[1].req, ok)>>)
    BY <1>1 DEF HandleWrite
  <2>2. ok \in BOOLEAN BY <2>1
  <2> QED BY <2>1, <2>2
<1>5. \E ok \in BOOLEAN : Adding(Response(up[1].req, ok))
  BY <1>1, <1>4, SentOne, Messages DEF Adding, Fit
<1>6. NoneSent' BY <1>3 DEF Fit, NoneSent, SameRow
<1>7. Fit'
  BY <1>1, <1>3, <1>5, <1>6, FitHost DEF HandleWrite, HostStep, Fit, Typed, Adding
<1> QED BY <1>1, <1>3, <1>5, <1>7

LEMMA CloseFit ==
  ASSUME Fit, HandleClose, up[1].conn \in Conns
  PROVE  LET c == up[1].conn IN
         /\ Fit' /\ Took(up, up') /\ up[1].type = "close"
         /\ \A d \in Conns : d # c => SameRow(d)
         /\ \/ SameRow(c) /\ \E ok \in BOOLEAN : Adding(Response(up[1].req, ok))
            \/ /\ table[c].st # "none" /\ table'[c] = NoConn /\ down' \in Seq(DownMsg)
               /\ live = 0 => down' = down
               /\ live # 0 => /\ Grew(down, down') /\ Len(down') = Len(down) + 2
                              /\ \E e \in Execs : down'[Len(down) + 1] = Gone(c, e)
                              /\ down'[Len(down) + 2] = Response(up[1].req, TRUE)
<1> DEFINE c == up[1].conn
<1> DEFINE e == up[1].exec
<1> DEFINE r == up[1].req
<1>1. /\ up' \in Seq(UpMsg) /\ Took(up, up') /\ up[1].type = "close"
      /\ Head(up) = up[1] /\ e \in Execs /\ r \in Nat
  BY UpHead DEF HandleClose, Asked, Fit
<1>2. \A d \in Conns : table[d].exec \in Execs BY Row DEF Fit
<1>3. CASE ~(table[c].st # "none" /\ Allowed(c, e))
  <2>1. table' = table BY <1>1, <1>3 DEF HandleClose
  <2>2. \E ok \in BOOLEAN : down' = Sent(<<Response(r, ok)>>)
    <3>1. PICK ok : /\ ok = ((table[c].st # "none") => (table[c].st # "none" /\ Allowed(c, e)))
                    /\ down' = Sent(<<>> \o <<Response(r, ok)>>)
      BY <1>1, <1>3 DEF HandleClose
    <3>2. ok \in BOOLEAN BY <3>1
    <3>3. <<>> \o <<Response(r, ok)>> = <<Response(r, ok)>> OBVIOUS
    <3> QED BY <3>1, <3>2, <3>3
  <2>3. \E ok \in BOOLEAN : Adding(Response(r, ok))
    BY <1>1, <2>2, SentOne, Messages DEF Adding, Fit
  <2>4. Fit'
    BY <1>1, <2>1, <2>3, FitHost DEF HandleClose, HostStep, Fit, Typed, Adding, NoneSent
  <2> QED BY <1>1, <2>1, <2>3, <2>4 DEF SameRow
<1>4. CASE table[c].st # "none" /\ Allowed(c, e)
  <2>1. table' = [table EXCEPT ![c] = NoConn] BY <1>1, <1>4 DEF HandleClose
  <2>2. table' \in [Conns -> ConnRec] /\ table'[c] = NoConn
        /\ \A d \in Conns : d # c => table'[d] = table[d]
    BY <2>1, PutRow, NoRow DEF Fit
  <2>3. PICK g \in Execs : Finished(c, Used(c, e)) = <<Gone(c, g)>>
    <3>1. PICK g : g = (IF active # 0 THEN active ELSE Used(c, e)[c].exec) OBVIOUS
    <3>2. Used(c, e)[c] \in ConnRec BY <1>1, UsedTable DEF Fit
    <3>3. g \in Execs BY <3>1, <3>2 DEF ConnRec, Fit, Typed
    <3> QED BY <3>1, <3>3 DEF Finished
  <2>4. down' = Sent(<<Gone(c, g)>> \o <<Response(r, TRUE)>>)
    BY <1>1, <1>4, <2>3 DEF HandleClose
  <2>5. Gone(c, g) \in DownMsg /\ Response(r, TRUE) \in DownMsg BY <1>1, <2>3, Messages
  <2>6. down' \in Seq(DownMsg) /\ (live = 0 => down' = down)
        /\ (live # 0 => /\ Grew(down, down') /\ Len(down') = Len(down) + 2
                        /\ down'[Len(down) + 1] = Gone(c, g)
                        /\ down'[Len(down) + 2] = Response(r, TRUE))
    BY <2>4, <2>5, SentTwo DEF Fit
  <2>7. NoneSent' BY <2>2, NoRow DEF Fit, NoneSent
  <2>8. Fit'
    BY <1>1, <2>2, <2>6, <2>7, FitHost DEF HandleClose, HostStep, Fit, Typed
  <2> QED BY <1>1, <1>4, <2>2, <2>3, <2>6, <2>8 DEF SameRow
<1> QED BY <1>3, <1>4

LEMMA ConnectFit ==
  ASSUME Fit, NEW job \in looking, Connect(job)
  PROVE  /\ Fit' /\ job.conn \in Conns /\ up' = up /\ looking' = looking \ {job}
         /\ \A d \in Conns : d # job.conn => table'[d] = table[d]
         /\ LET c == job.conn IN
            \/ /\ table[c].st = "none" /\ table'[c].st = "connecting" /\ table'[c].of = job.of
               /\ table'[c].req = job.req /\ down' = down
            \/ table' = table /\ Adding(Response(job.req, FALSE))
<1>1. /\ job \in Job /\ job.conn \in Conns /\ job.req \in Nat /\ job.of \in Nat /\ job.exec \in Execs
      /\ 0 \in 0 .. MaxData
  BY Bounds DEF Connect, Fit, Typed, Job, Conns
<1> DEFINE r == [st |-> "connecting", of |-> job.of, exec |-> job.exec, req |-> job.req, sent |-> 0]
<1>2. r \in ConnRec BY <1>1 DEF ConnRec
<1>3. CASE table[job.conn].st = "none" /\ table' = [table EXCEPT ![job.conn] = r] /\ down' = down
  <2>1. table' \in [Conns -> ConnRec] /\ table'[job.conn] = r
        /\ \A d \in Conns : d # job.conn => table'[d] = table[d]
    BY <1>1, <1>2, <1>3, PutRow DEF Fit
  <2>2. NoneSent' BY <2>1 DEF Fit, NoneSent
  <2>3. Fit' BY <1>3, <2>1, <2>2, FitHost DEF Connect, HostStep, Fit, Typed
  <2> QED BY <1>1, <1>3, <2>1, <2>3 DEF Connect
<1>4. CASE table' = table /\ down' = Sent(<<Response(job.req, FALSE)>>)
  <2>1. Adding(Response(job.req, FALSE)) BY <1>1, <1>4, SentOne, Messages DEF Adding, Fit
  <2>2. Fit' BY <1>4, <2>1, FitHost DEF Connect, HostStep, Fit, Typed, Adding, NoneSent
  <2> QED BY <1>1, <1>4, <2>1, <2>2 DEF Connect
<1> QED BY <1>3, <1>4 DEF Connect

LEMMA ListedFit ==
  ASSUME Fit, NEW job \in looking, Listed(job)
  PROVE  /\ Fit' /\ job.conn = 0 /\ up' = up /\ looking' = looking \ {job} /\ table' = table
         /\ \E ok \in BOOLEAN : Adding(Response(job.req, ok))
<1>1. job.req \in Nat BY DEF Fit, Typed, Job
<1>2. \E ok \in BOOLEAN : Adding(Response(job.req, ok))
  BY <1>1, SentOne, Messages DEF Adding, Fit, Listed
<1>3. Fit' BY <1>2, FitHost DEF Listed, HostStep, Fit, Typed, Adding, NoneSent
<1> QED BY <1>2, <1>3 DEF Listed

\* A step of connection c that changes its row to r.
LEMMA RowFit ==
  ASSUME Fit, NEW c \in Conns, NEW r \in ConnRec, table' = [table EXCEPT ![c] = r],
         r.st # "open" => r.sent = 0, UNCHANGED <<live, born, active, cells, looking, up, kernel>>,
         down' \in Seq(DownMsg)
  PROVE  /\ Fit' /\ up' = up /\ looking' = looking /\ table'[c] = r
         /\ \A d \in Conns : d # c => table'[d] = table[d]
<1>1. table' \in [Conns -> ConnRec] /\ table'[c] = r
      /\ \A d \in Conns : d # c => table'[d] = table[d]
  BY PutRow DEF Fit
<1>2. NoneSent' BY <1>1 DEF Fit, NoneSent
<1>3. Fit' BY <1>1, <1>2, FitHost DEF HostStep, Fit, Typed
<1> QED BY <1>1, <1>3

LEMMA ConnectedFit ==
  ASSUME Fit, NEW c \in Conns, Connected(c)
  PROVE  /\ Fit' /\ up' = up /\ looking' = looking /\ down' = down
         /\ \A d \in Conns : d # c => table'[d] = table[d]
         /\ table[c].st = "connecting" /\ table'[c].st = "verifying"
         /\ table'[c].of = table[c].of /\ table'[c].req = table[c].req
<1> DEFINE r == [table[c] EXCEPT !.st = "verifying"]
<1>1. table[c] \in ConnRec BY Row DEF Fit
<1>2. r \in ConnRec /\ r.st = "verifying" /\ r.of = table[c].of /\ r.req = table[c].req
      /\ r.sent = table[c].sent
  BY <1>1 DEF ConnRec
<1>3. table' = [table EXCEPT ![c] = r] BY DEF Connected
<1>4. r.sent = 0 BY <1>2 DEF Connected, Fit, NoneSent
<1>5. down' = down /\ down' \in Seq(DownMsg) BY DEF Connected, channel, Fit, Typed
<1> HIDE DEF r
<1> QED BY <1>2, <1>3, <1>4, <1>5, RowFit DEF Connected, channel

LEMMA VerifiedFit ==
  ASSUME Fit, NEW c \in Conns, Verified(c)
  PROVE  /\ Fit' /\ up' = up /\ looking' = looking /\ Adding(Response(table[c].req, TRUE))
         /\ \A d \in Conns : d # c => table'[d] = table[d]
         /\ table[c].st = "verifying" /\ table'[c].st = "open" /\ table'[c].sent = 0
         /\ table'[c].of = table[c].of /\ table'[c].req = table[c].req
<1> DEFINE r == [table[c] EXCEPT !.st = "open"]
<1>1. table[c] \in ConnRec /\ table[c].req \in Nat BY Row DEF Fit
<1>2. r \in ConnRec /\ r.st = "open" /\ r.of = table[c].of /\ r.req = table[c].req
      /\ r.sent = table[c].sent
  BY <1>1 DEF ConnRec
<1>3. table' = [table EXCEPT ![c] = r] BY DEF Verified
<1>4. r.sent = 0 BY <1>2 DEF Verified, Fit, NoneSent
<1>5. Adding(Response(table[c].req, TRUE)) /\ down' \in Seq(DownMsg)
  BY <1>1, SentOne, Messages DEF Verified, Adding, Fit
<1> HIDE DEF r
<1> QED BY <1>2, <1>3, <1>4, <1>5, RowFit DEF Verified

LEMMA ConnectFailsFit ==
  ASSUME Fit, NEW c \in Conns, ConnectFails(c)
  PROVE  /\ Fit' /\ up' = up /\ looking' = looking /\ Adding(Response(table[c].req, FALSE))
         /\ \A d \in Conns : d # c => table'[d] = table[d]
         /\ Making(c) /\ table'[c].st = "none"
<1>1. table[c].req \in Nat BY Row DEF Fit
<1>2. Adding(Response(table[c].req, FALSE)) /\ down' \in Seq(DownMsg)
  BY <1>1, SentOne, Messages DEF ConnectFails, Rejected, Adding, Fit
<1>3. table' = [table EXCEPT ![c] = NoConn] BY DEF ConnectFails
<1>4. /\ Fit' /\ up' = up /\ looking' = looking /\ table'[c] = NoConn
      /\ \A d \in Conns : d # c => table'[d] = table[d]
  BY <1>2, <1>3, NoRow, RowFit DEF ConnectFails
<1> QED BY <1>2, <1>4, NoRow DEF ConnectFails, Making

LEMMA PeerSendsFit ==
  ASSUME Fit, NEW c \in Conns, PeerSends(c)
  PROVE  /\ Fit' /\ up' = up /\ looking' = looking
         /\ \E e \in Execs : Adding(Data(c, table[c].sent + 1, e))
         /\ \A d \in Conns : d # c => table'[d] = table[d]
         /\ table[c].st = "open" /\ table'[c].st = "open" /\ table'[c].sent = table[c].sent + 1
         /\ table'[c].of = table[c].of /\ table'[c].req = table[c].req
         /\ table[c].sent \in Nat /\ table[c].sent < MaxData
<1> DEFINE r == [table[c] EXCEPT !.sent = @ + 1]
<1>1. table[c] \in ConnRec /\ table[c].sent \in 0 .. MaxData /\ table[c].exec \in Execs
  BY Row DEF Fit
<1>2. table[c].sent + 1 \in 0 .. MaxData /\ table[c].sent + 1 \in Nat
  BY <1>1, Bounds DEF PeerSends
<1>3. r \in ConnRec /\ r.st = table[c].st /\ r.of = table[c].of /\ r.req = table[c].req
      /\ r.sent = table[c].sent + 1
  BY <1>1, <1>2 DEF ConnRec
<1>4. table' = [table EXCEPT ![c] = r] BY DEF PeerSends
<1>5. PICK e \in Execs : e = Told(c) BY <1>1 DEF Told, Fit, Typed
<1>6. Adding(Data(c, table[c].sent + 1, e)) /\ down' \in Seq(DownMsg)
  <2>1. down' = Sent(<<Data(c, table[c].sent + 1, e)>>) BY <1>5 DEF PeerSends
  <2> QED BY <1>2, <2>1, SentOne, Messages DEF Adding, Fit
<1>7. table[c].st = "open" BY DEF PeerSends
<1> HIDE DEF r
<1>8. /\ Fit' /\ up' = up /\ looking' = looking /\ table'[c] = r
      /\ \A d \in Conns : d # c => table'[d] = table[d]
  <2>1. PICK row : row = r OBVIOUS
  <2>2. /\ row \in ConnRec /\ table' = [table EXCEPT ![c] = row] /\ row.st = "open"
        /\ UNCHANGED <<live, born, active, cells, looking, up, kernel>> /\ down' \in Seq(DownMsg)
    BY <1>3, <1>4, <1>6, <1>7, <2>1 DEF PeerSends
  <2>3. /\ Fit' /\ up' = up /\ looking' = looking /\ table'[c] = row
        /\ \A d \in Conns : d # c => table'[d] = table[d]
    BY <2>2, RowFit
  <2> QED BY <2>1, <2>3
<1>9. \E x \in Execs : Adding(Data(c, table[c].sent + 1, x)) BY <1>6
<1>10. table[c].sent \in Nat /\ table[c].sent < MaxData BY <1>1 DEF PeerSends
<1> QED BY <1>3, <1>7, <1>8, <1>9, <1>10

LEMMA PeerClosesFit ==
  ASSUME Fit, NEW c \in Conns, PeerCloses(c)
  PROVE  /\ Fit' /\ up' = up /\ looking' = looking
         /\ \E e \in Execs : Adding(Gone(c, e))
         /\ \A d \in Conns : d # c => table'[d] = table[d]
         /\ table[c].st = "open" /\ table'[c].st = "none"
<1>1. PICK e : e = (IF active # 0 THEN active ELSE table[c].exec) OBVIOUS
<1>2. e \in Execs BY <1>1, Row DEF Fit, Typed
<1>3. down' = Sent(<<Gone(c, e)>>) BY <1>1 DEF PeerCloses, Finished
<1>4. Adding(Gone(c, e)) /\ down' \in Seq(DownMsg)
  BY <1>2, <1>3, SentOne, Messages DEF Adding, Fit
<1>5. table' = [table EXCEPT ![c] = NoConn] BY DEF PeerCloses
<1>6. /\ Fit' /\ up' = up /\ looking' = looking /\ table'[c] = NoConn
      /\ \A d \in Conns : d # c => table'[d] = table[d]
  BY <1>4, <1>5, NoRow, RowFit DEF PeerCloses
<1> QED BY <1>2, <1>4, <1>6, NoRow DEF PeerCloses

-----------------------------------------------------------------------------
(* Steps of the host: what they keep of each part of the invariant.        *)

LEMMA OursConns ==
  ASSUME Typed
  PROVE  Len(state) \in Nat /\ Opened = Len(state) /\ \A c \in Ours : c \in Conns /\ c \in Nat
<1>1. Len(state) \in Nat /\ Opened = Len(state) /\ Opened <= MaxConns BY DEF Typed, Opened
<1> QED BY <1>1, Bounds DEF Ours, Conns

\* The host keeps the requests that wait, or takes the first one.
UpKept == up' \in Seq(UpMsg) /\ (up' = up \/ Took(up, up'))

LEMMA UpShift ==
  ASSUME Typed, UpKept
  PROVE  \E k \in {0, 1} : \A i \in Ups' : i \in Nat /\ i + k \in Ups /\ up'[i] = up[i + k]
<1>1. Len(up) \in Nat /\ Len(up') \in Nat BY DEF Typed, UpKept
<1>2. CASE up' = up
  <2>1. \A i \in Ups' : i \in Nat /\ i + 0 \in Ups /\ up'[i] = up[i + 0] BY <1>1, <1>2 DEF Ups
  <2> QED BY <2>1
<1>3. CASE Took(up, up')
  <2>1. \A i \in Ups' : i \in Nat /\ i + 1 \in Ups /\ up'[i] = up[i + 1]
    BY <1>1, <1>3 DEF Ups, Took
  <2> QED BY <2>1
<1> QED BY <1>2, <1>3 DEF UpKept

Downer == down' \in Seq(DownMsg) /\ Grew(down, down')

JobKnown(job) ==
  /\ job.of = live /\ job.req \in 1 .. asked
  /\ job.conn # 0 => job.conn \in Ours /\ job.req = state[job.conn].req
  /\ job.conn = 0 => Plain(job.req)
RowKnown(c, r) == c \in Ours /\ r.of = live /\ r.req = state[c].req

LEMMA HostKnown ==
  ASSUME Typed, Known, live # 0, live' = live, UNCHANGED kernel, UpKept, Downer,
         \A job \in looking' : job \in looking \/ JobKnown(job),
         \A c \in Conns : table'[c].st # "none" =>
           \/ table[c].st # "none" /\ table'[c].of = table[c].of /\ table'[c].req = table[c].req
           \/ RowKnown(c, table'[c]),
         \A i : New(i) =>
           /\ down'[i].type \in {"data", "closed"} => down'[i].conn \in Ours
           /\ down'[i].type = "response" => down'[i].req \in 1 .. asked
  PROVE  Known'
<1>1. state' = state /\ asked' = asked /\ Ours' = Ours BY DEF kernel, Ours, Opened
<1>2. \A r : Plain(r)' = Plain(r) BY <1>1 DEF Plain
<1>3. UpKnown'
  <2>1. PICK k \in {0, 1} : \A i \in Ups' : i \in Nat /\ i + k \in Ups /\ up'[i] = up[i + k]
    BY UpShift
  <2> QED BY <1>1, <2>1 DEF Known, UpKnown, Plain
<1>4. JobsKnown' BY <1>1 DEF Known, JobsKnown, JobKnown, Plain
<1>5. TableKnown' BY <1>1 DEF Known, TableKnown, RowKnown
<1>6. DownKnown'
  <2>1. \A i \in Downs' : New(i) \/ (i \in Downs /\ down'[i] = down[i])
    <3>1. Len(down) \in Nat /\ Len(down') \in Nat BY DEF Typed, Downer
    <3>2. Grew(down, down') BY DEF Downer
    <3> QED BY <3>1, <3>2 DEF Downs, New, Grew
  <2> QED BY <1>1, <2>1 DEF Known, DownKnown
<1>7. ReqsKnown' BY <1>1 DEF Known, ReqsKnown
<1> QED BY <1>3, <1>4, <1>5, <1>6, <1>7 DEF Known

LEMMA HostOnce ==
  ASSUME Typed, Once, live # 0, live' = live, UpKept, looking' \subseteq looking,
         \A c \in Conns : table[c].st = "none" => table'[c].st = "none",
         UpKnown, JobsKnown
  PROVE  Once'
<1>1. PICK k \in {0, 1} : \A i \in Ups' : i \in Nat /\ i + k \in Ups /\ up'[i] = up[i + k]
  BY UpShift
<1>2. \A c \in Ours : c \in Conns BY OursConns
<1>3. ASSUME NEW i \in Ups', NEW j \in Ups', up'[i].type = "connect", up'[j].type = "connect",
             up'[i].conn = up'[j].conn
      PROVE  i = j
  <2>1. i + k = j + k BY <1>1, <1>3 DEF Once
  <2> QED BY <1>1, <2>1
<1>4. ASSUME NEW i \in Ups', up'[i].type = "connect"
      PROVE  table'[up'[i].conn].st = "none" /\ \A job \in looking' : job.conn # up'[i].conn
  <2>1. i + k \in Ups /\ up'[i] = up[i + k] BY <1>1
  <2>2. table[up[i + k].conn].st = "none" /\ \A job \in looking : job.conn # up[i + k].conn
    BY <1>4, <2>1 DEF Once
  <2>3. up[i + k].conn \in Conns BY <1>2, <1>4, <2>1 DEF UpKnown
  <2> QED BY <2>1, <2>2, <2>3
<1>5. ASSUME NEW job \in looking', job.conn # 0
      PROVE  table'[job.conn].st = "none" /\ \A q \in looking' : q.conn = job.conn => q = job
  <2>1. job.conn \in Conns BY <1>2, <1>5 DEF JobsKnown
  <2> QED BY <1>5, <2>1 DEF Once
<1> QED BY <1>3, <1>4, <1>5 DEF Once

Handled(r) ==
  \/ \E job \in looking' : job.req = r
  \/ \E c \in Conns : Making(c)' /\ table'[c].req = r
  \/ \E i \in Downs' : down'[i].type = "response" /\ down'[i].req = r

LEMMA HostForgetsNone ==
  ASSUME Typed, NothingForgotten, UNCHANGED kernel, Downer, up' \in Seq(UpMsg),
         up' = up \/ (Took(up, up') /\ (up[1].type # "result" => Handled(up[1].req))),
         \A job \in looking : job \in looking' \/ Handled(job.req),
         \A c \in Conns : Making(c) =>
           (Making(c)' /\ table'[c].req = table[c].req) \/ Handled(table[c].req)
  PROVE  NothingForgotten'
<1> SUFFICES ASSUME NEW r \in waiters PROVE Somewhere(r)'
  BY DEF NothingForgotten, kernel
<1>0. Somewhere(r) BY DEF NothingForgotten
<1>1. Handled(r) => Somewhere(r)' BY DEF Handled, Somewhere
<1>2. CASE \E i \in Ups : up[i].type # "result" /\ up[i].req = r
  <2>1. PICK i \in Ups : up[i].type # "result" /\ up[i].req = r BY <1>2
  <2>2. CASE up' = up BY <2>1, <2>2 DEF Somewhere, Ups
  <2>3. CASE Took(up, up') /\ i = 1 /\ up' # up BY <1>1, <2>1, <2>3
  <2>4. CASE Took(up, up') /\ i # 1
    <3>1. i - 1 \in 1 .. Len(up') /\ (i - 1) + 1 = i BY <2>4, <2>1 DEF Ups, Took, Typed
    <3>2. up'[i - 1] = up[i] BY <3>1, <2>4 DEF Took
    <3> QED BY <2>1, <3>1, <3>2 DEF Somewhere, Ups
  <2> QED BY <2>2, <2>3, <2>4
<1>3. CASE \E job \in looking : job.req = r BY <1>1, <1>3 DEF Somewhere
<1>4. CASE \E c \in Conns : Making(c) /\ table[c].req = r BY <1>1, <1>4 DEF Somewhere
<1>5. CASE \E i \in Downs : down[i].type = "response" /\ down[i].req = r
  <2>1. PICK i \in Downs : down[i].type = "response" /\ down[i].req = r BY <1>5
  <2>2. i \in Downs' /\ down'[i] = down[i] BY DEF Downs, Downer, Grew, Typed
  <2> QED BY <2>1, <2>2 DEF Somewhere
<1> QED BY <1>0, <1>2, <1>3, <1>4, <1>5 DEF Somewhere

\* Without a process, only the table and the jobs that outlived it change.
LEMMA DeadHost ==
  ASSUME Inv, live = 0, live' = live, UNCHANGED kernel, up' = up, down' = down, active' = active, Fit'
  PROVE  Inv'
<1>1. state = <<>> /\ up = <<>> /\ down = <<>> /\ waiters = {} BY DEF Inv, Dead
<1>2. state' = <<>> /\ up' = <<>> /\ down' = <<>> /\ waiters' = {} BY <1>1 DEF kernel
<1>3. Ours' = {} /\ Ups' = {} /\ Downs' = {} BY <1>2 DEF Ours, Ups, Downs, Opened
<1>4. Known' BY <1>3 DEF Known, UpKnown, JobsKnown, TableKnown, DownKnown, ReqsKnown
<1>5. Once' BY DEF Once
<1>6. Dead' BY DEF Dead, Inv, kernel
<1> QED BY <1>2, <1>3, <1>4, <1>5, <1>6 DEF Inv, NothingForgotten, Fit

LEMMA AddingNew ==
  ASSUME Typed, NEW m, Adding(m), live # 0
  PROVE  Downer /\ (\A i : New(i) => down'[i] = m) /\ (\E i : New(i) /\ down'[i] = m)
         /\ \E i \in Downs' : down'[i] = m
<1>1. Len(down) \in Nat /\ Len(down') = Len(down) + 1 /\ down'[Len(down) + 1] = m
  BY DEF Typed, Adding, GrewBy
<1>2. \A i : New(i) => i = Len(down) + 1 BY <1>1 DEF New
<1>3. New(Len(down) + 1) /\ Len(down) + 1 \in Downs' BY <1>1 DEF New, Downs
<1>4. Downer BY DEF Adding, GrewBy, Downer
<1> QED BY <1>1, <1>2, <1>3, <1>4

LEMMA SameDown ==
  ASSUME Typed, down' = down
  PROVE  Downer /\ \A i : ~New(i)
BY DEF Typed, Downer, Grew, New

LEMMA SameUp == ASSUME Typed, up' = up PROVE UpKept
BY DEF UpKept, Typed

LEMMA ComesFrom ==
  ASSUME Typed, UpKept, looking' \subseteq looking, NEW c,
         Making(c)' => Making(c) \/ \E job \in looking : job.conn = c
  PROVE  Coming(c)' => Coming(c)
<1>1. PICK k \in {0, 1} : \A i \in Ups' : i \in Nat /\ i + k \in Ups /\ up'[i] = up[i + k]
  BY UpShift
<1> QED BY <1>1 DEF Coming

\* Steps that leave the kernel alone, and of a connection at most close it.
LEMMA HostSound ==
  ASSUME Typed, UNCHANGED kernel, NEW c \in Ours, Sound(c), Downer,
         table'[c].st = "open" => table[c].st = "open" /\ table'[c].sent = table[c].sent,
         Coming(c)' => Coming(c),
         table[c].st = "open" =>
           \/ table'[c].st = "open"
           \/ \E i : New(i) /\ down'[i].type = "closed" /\ down'[i].conn = c,
         \A i : New(i) =>
           /\ down'[i].type = "data" => down'[i].conn # c
           /\ down'[i].type = "closed" /\ down'[i].conn = c => ~Coming(c)'
           /\ down'[i].type = "response" /\ down'[i].req = state[c].req => ~Coming(c)' /\ ~down'[i].ok
  PROVE  Sound(c)'
<1>1. SameState(c) BY DEF SameState, SameItems, kernel, Sound, Have
<1> QED BY <1>1, SoundGrew DEF Downer

LEMMA ExecuteInv ==
  ASSUME Inv, Execute
  PROVE  Inv'
<1>1. Fit BY DEF Inv, Fit
<1>2. Typed BY DEF Inv
<1>3. Fit' /\ live # 0 /\ GrewBy(down, down', Exec(cells + 1)) /\ cells + 1 \in Execs
  BY <1>1, ExecuteFit
<1>4. Exec(cells + 1).type = "exec" BY DEF Exec
<1>5. Adding(Exec(cells + 1)) BY <1>3 DEF Adding, Fit, Typed
<1>6. Downer /\ \A i : New(i) => down'[i].type = "exec" BY <1>2, <1>3, <1>4, <1>5, AddingNew
<1>7. UNCHANGED <<live, table, looking, up, kernel>> BY DEF Execute
<1>8. UpKept BY <1>2, <1>7, SameUp
<1>9. Known' BY <1>2, <1>3, <1>6, <1>7, <1>8, HostKnown DEF Inv
<1>10. Once' BY <1>7 DEF Inv, Once, Ups
<1>11. NothingForgotten'
  <2>1. \A c \in Conns : Making(c) => (Making(c)' /\ table'[c].req = table[c].req)
    BY <1>7 DEF Making
  <2> QED BY <1>2, <1>6, <1>7, <1>8, <2>1, HostForgetsNone DEF Inv, UpKept
<1>12. ASSUME NEW c \in Ours PROVE Sound(c)'
  <2>1. Coming(c)' => Coming(c) BY <1>7 DEF Coming, Making, Ups
  <2>2. Sound(c) BY DEF Inv
  <2> QED BY <1>2, <1>6, <1>7, <2>1, <2>2, HostSound
<1>13. Ours' = Ours BY <1>7 DEF kernel, Ours, Opened
<1>14. Dead' BY <1>3, <1>7 DEF Dead
<1> QED BY <1>3, <1>9, <1>10, <1>11, <1>12, <1>13, <1>14 DEF Inv, Fit

LEMMA ResultInv ==
  ASSUME Inv, HandleResult
  PROVE  Inv'
<1>1. Fit BY DEF Inv, Fit
<1>2. Typed BY DEF Inv
<1>3. Fit' /\ Took(up, up') /\ up[1].type = "result" BY <1>1, ResultFit
<1>4. live # 0 BY DEF Inv, Dead, HandleResult, Asked
<1>5. UNCHANGED <<live, table, looking, down, kernel>> BY DEF HandleResult
<1>6. Downer /\ \A i : ~New(i) BY <1>2, <1>5, SameDown
<1>7. UpKept BY <1>3 DEF UpKept, Fit, Typed
<1>8. Known' BY <1>2, <1>4, <1>5, <1>6, <1>7, HostKnown DEF Inv
<1>9. Once' BY <1>2, <1>4, <1>5, <1>7, HostOnce DEF Inv, Known
<1>10. NothingForgotten'
  <2>1. \A c \in Conns : Making(c) => (Making(c)' /\ table'[c].req = table[c].req)
    BY <1>5 DEF Making
  <2> QED BY <1>2, <1>3, <1>5, <1>6, <1>7, <2>1, HostForgetsNone DEF Inv, UpKept
<1>11. ASSUME NEW c \in Ours PROVE Sound(c)'
  <2>1. Coming(c)' => Coming(c) BY <1>2, <1>5, <1>7, ComesFrom DEF Making
  <2>2. Sound(c) BY DEF Inv
  <2> QED BY <1>2, <1>5, <1>6, <2>1, <2>2, HostSound
<1>12. Ours' = Ours BY <1>5 DEF kernel, Ours, Opened
<1>13. Dead' BY <1>4, <1>5 DEF Dead
<1> QED BY <1>3, <1>8, <1>9, <1>10, <1>11, <1>12, <1>13 DEF Inv, Fit

LEMMA HostInv ==
  ASSUME Inv, live # 0, live' = live, UNCHANGED kernel, Fit', Known', Once', NothingForgotten',
         \A c \in Ours : Sound(c)'
  PROVE  Inv'
<1>1. Ours' = Ours BY DEF kernel, Ours, Opened
<1>2. Dead' BY DEF Dead
<1> QED BY <1>1, <1>2 DEF Inv, Fit

\* The first request is no longer in the queue.
LEMMA UpTook ==
  ASSUME Typed, Took(up, up'), up' \in Seq(UpMsg)
  PROVE  UpKept /\ 1 \in Ups /\ \A i \in Ups' : i \in Nat /\ i + 1 \in Ups /\ i + 1 # 1 /\ up'[i] = up[i + 1]
<1>1. Len(up) \in Nat /\ Len(up') \in Nat BY DEF Typed
<1> QED BY <1>1 DEF UpKept, Ups, Took

\* The first request, if it asked for connection c, was the only trace of it.
LEMMA AskedHere ==
  ASSUME Inv, live # 0, Took(up, up'), up' \in Seq(UpMsg), up[1].type = "connect",
         looking' = looking, table' = table, NEW c, c = up[1].conn
  PROVE  ~Coming(c)'
<1>1. 1 \in Ups /\ \A i \in Ups' : i \in Nat /\ i + 1 \in Ups /\ i + 1 # 1 /\ up'[i] = up[i + 1]
  BY UpTook DEF Inv
<1>2. \A i \in Ups' : up'[i].type = "connect" => up'[i].conn # up[1].conn
  BY <1>1 DEF Inv, Once
<1>3. table[c].st = "none" /\ \A job \in looking : job.conn # c
  BY <1>1 DEF Inv, Once
<1> QED BY <1>2, <1>3 DEF Coming, Making

LEMMA LookupInv ==
  ASSUME Inv, HandleLookup
  PROVE  Inv'
<1>1. Fit /\ Typed BY DEF Inv, Fit
<1> DEFINE job == [conn |-> up[1].conn, exec |-> up[1].exec, req |-> up[1].req, of |-> live]
<1>2. /\ Fit' /\ Took(up, up') /\ table' = table
      /\ up[1].type \in {"connect", "list_directory"}
      /\ \/ looking' = looking \cup {job} /\ down' = down
         \/ looking' = looking /\ Adding(Response(up[1].req, FALSE))
  BY <1>1, LookupFit
<1>3. live # 0 BY DEF Inv, Dead, HandleLookup, Asked
<1>4. UNCHANGED kernel /\ live' = live BY DEF HandleLookup
<1>5. up' \in Seq(UpMsg) BY <1>2 DEF Fit, Typed
<1>6. UpKept /\ 1 \in Ups
      /\ \A i \in Ups' : i \in Nat /\ i + 1 \in Ups /\ i + 1 # 1 /\ up'[i] = up[i + 1]
  BY <1>1, <1>2, <1>5, UpTook
<1>7. /\ up[1].req \in 1 .. asked
      /\ up[1].type = "connect" => up[1].conn \in Ours /\ up[1].req = state[up[1].conn].req
      /\ up[1].type = "list_directory" => up[1].conn = 0 /\ Plain(up[1].req)
  BY <1>2, <1>6 DEF Inv, Known, UpKnown
<1>8. up[1].req \in Nat BY <1>1, <1>7 DEF Typed
<1>9. \A c \in Ours : c \in Nat /\ c # 0 /\ c \in Conns
  BY <1>1, OursConns DEF Ours
<1>10. \A c \in Conns : Making(c) => (Making(c)' /\ table'[c].req = table[c].req)
  BY <1>2 DEF Making
<1>11. CASE looking' = looking \cup {job} /\ down' = down
  <2>1. Downer /\ \A i : ~New(i) BY <1>1, <1>11, SameDown
  <2>2. JobKnown(job) BY <1>2, <1>7, <1>9 DEF JobKnown
  <2>3. job \in looking' /\ job.req = up[1].req /\ job.conn = up[1].conn BY <1>11
  <2> HIDE DEF job
  <2>4. Known' BY <1>1, <1>2, <1>3, <1>4, <1>6, <1>11, <2>1, <2>2, HostKnown DEF Inv
  <2>5. job.conn # 0 => /\ up[1].type = "connect" /\ table[job.conn].st = "none"
                        /\ \A k \in looking : k.conn # job.conn
                        /\ \A i \in Ups' : up'[i].type = "connect" => up'[i].conn # job.conn
    <3> SUFFICES ASSUME job.conn # 0
                 PROVE /\ up[1].type = "connect" /\ table[job.conn].st = "none"
                       /\ \A k \in looking : k.conn # job.conn
                       /\ \A i \in Ups' : up'[i].type = "connect" => up'[i].conn # job.conn
      OBVIOUS
    <3>1. up[1].type = "connect" BY <1>2, <1>7, <2>3
    <3>2. Once BY DEF Inv
    <3> QED BY <1>3, <1>6, <2>3, <3>1, <3>2 DEF Once
  <2>6. Once'
    <3>1. ASSUME NEW i \in Ups', NEW j \in Ups', up'[i].type = "connect", up'[j].type = "connect",
                 up'[i].conn = up'[j].conn
          PROVE  i = j
      <4>1. i + 1 = j + 1 BY <1>3, <1>6, <3>1 DEF Inv, Once
      <4> QED BY <1>6, <4>1
    <3>2. ASSUME NEW i \in Ups', up'[i].type = "connect"
          PROVE  table'[up'[i].conn].st = "none" /\ \A k \in looking' : k.conn # up'[i].conn
      <4>1. i + 1 \in Ups /\ up'[i] = up[i + 1] BY <1>6
      <4>2. table[up'[i].conn].st = "none" /\ \A k \in looking : k.conn # up'[i].conn
        BY <1>3, <3>2, <4>1 DEF Inv, Once
      <4>3. up'[i].conn \in Ours BY <3>2, <4>1 DEF Inv, Known, UpKnown
      <4>4. job.conn # up'[i].conn BY <1>9, <2>5, <3>2, <4>3
      <4> QED BY <1>2, <1>11, <4>2, <4>4
    <3>3. ASSUME NEW q \in looking', q.conn # 0
          PROVE  table'[q.conn].st = "none" /\ \A k \in looking' : k.conn = q.conn => k = q
      <4>1. CASE q = job BY <1>2, <1>11, <2>5, <3>3, <4>1
      <4>2. CASE q # job
        <5>1. q \in looking BY <1>11, <4>2
        <5>2. table[q.conn].st = "none" /\ \A k \in looking : k.conn = q.conn => k = q
          BY <1>3, <3>3, <5>1 DEF Inv, Once
        <5>3. job.conn # q.conn BY <2>5, <3>3, <5>1
        <5> QED BY <1>2, <1>11, <5>2, <5>3
      <4> QED BY <4>1, <4>2
    <3> QED BY <3>1, <3>2, <3>3 DEF Once
  <2>7. NothingForgotten'
    <3>1. Handled(up[1].req) BY <2>3 DEF Handled
    <3> QED BY <1>1, <1>2, <1>4, <1>5, <1>10, <1>11, <2>1, <3>1, HostForgetsNone DEF Inv
  <2>8. ASSUME NEW c \in Ours PROVE Sound(c)'
    <3>1. Coming(c)' => Coming(c)
      <4>1. job.conn = c => Coming(c) BY <1>6, <1>9, <2>3, <2>5 DEF Coming
      <4>2. (\E i \in Ups' : up'[i].type = "connect" /\ up'[i].conn = c) => Coming(c)
        BY <1>6 DEF Coming
      <4> QED BY <1>2, <1>11, <4>1, <4>2 DEF Coming, Making
    <3>2. Sound(c) BY DEF Inv
    <3> QED BY <1>1, <1>2, <1>4, <2>1, <3>1, <3>2, HostSound
  <2> QED BY <1>2, <1>3, <1>4, <2>4, <2>6, <2>7, <2>8, HostInv
<1>12. CASE looking' = looking /\ Adding(Response(up[1].req, FALSE))
  <2>1. PICK m : m = Response(up[1].req, FALSE) OBVIOUS
  <2>2. m.type = "response" /\ m.req = up[1].req /\ m.ok = FALSE
    BY <1>8, <2>1, Messages
  <2>3. Downer /\ (\A i : New(i) => down'[i] = m) /\ (\E i \in Downs' : down'[i] = m)
    BY <1>1, <1>3, <1>12, <2>1, AddingNew
  <2>4. Known'
    BY <1>1, <1>2, <1>3, <1>4, <1>6, <1>7, <1>12, <2>2, <2>3, HostKnown DEF Inv
  <2>5. Once' BY <1>1, <1>2, <1>3, <1>4, <1>6, <1>12, HostOnce DEF Inv, Known
  <2>6. NothingForgotten'
    <3>1. Handled(up[1].req) BY <2>2, <2>3 DEF Handled
    <3> QED BY <1>1, <1>2, <1>4, <1>5, <1>10, <1>12, <2>3, <3>1, HostForgetsNone DEF Inv
  <2>7. ASSUME NEW c \in Ours PROVE Sound(c)'
    <3>1. Coming(c)' => Coming(c)
      BY <1>1, <1>2, <1>6, <1>12, ComesFrom DEF Making
    <3>2. Sound(c) BY DEF Inv
    <3>3. up[1].req = state[c].req => ~Coming(c)'
      <4> SUFFICES ASSUME up[1].req = state[c].req PROVE ~Coming(c)' OBVIOUS
      <4>1. up[1].type = "connect" BY <1>2, <1>7 DEF Plain
      <4>2. up[1].conn = c BY <1>7, <4>1 DEF Inv, Known, ReqsKnown
      <4> QED BY <1>2, <1>3, <1>5, <1>12, <4>1, <4>2, AskedHere
    <3> QED BY <1>1, <1>2, <1>4, <2>2, <2>3, <3>1, <3>2, <3>3, HostSound
  <2> QED BY <1>2, <1>3, <1>4, <2>4, <2>5, <2>6, <2>7, HostInv
<1> QED BY <1>2, <1>11, <1>12

\* The first request was for a connection that the kernel has made.
LEMMA UsesMade ==
  ASSUME Inv, Took(up, up'), up' \in Seq(UpMsg), up[1].type \in {"write", "close"}
  PROVE  LET c == up[1].conn IN
         /\ c \in Ours /\ c \in Conns /\ ~Coming(c)
         /\ up[1].req \in 1 .. asked /\ up[1].req \in Nat /\ Plain(up[1].req)
<1>1. Typed BY DEF Inv
<1>2. 1 \in Ups BY <1>1, UpTook
<1>3. up[1].conn \in Ours /\ state[up[1].conn].st # "connecting" /\ Plain(up[1].req)
      /\ up[1].req \in 1 .. asked
  BY <1>2 DEF Inv, Known, UpKnown
<1>4. ~Coming(up[1].conn) BY <1>3 DEF Inv, Sound, Silent
<1>5. up[1].req \in Nat BY <1>1, <1>3 DEF Typed
<1> QED BY <1>1, <1>3, <1>4, <1>5, OursConns

LEMMA WriteInv ==
  ASSUME Inv, HandleWrite
  PROVE  Inv'
<1>1. Fit /\ Typed BY DEF Inv, Fit
<1>2. up' \in Seq(UpMsg) /\ Took(up, up') /\ up[1].type = "write"
  BY <1>1, UpHead DEF HandleWrite, Asked
<1>3. /\ up[1].conn \in Ours /\ up[1].conn \in Conns
      /\ up[1].req \in 1 .. asked /\ up[1].req \in Nat /\ Plain(up[1].req)
  BY <1>2, UsesMade
<1>4. Fit' /\ (\A c \in Conns : SameRow(c)) /\ \E ok \in BOOLEAN : Adding(Response(up[1].req, ok))
  BY <1>1, <1>3, WriteFit
<1>5. live # 0 BY DEF Inv, Dead, HandleWrite, Asked
<1>6. UNCHANGED kernel /\ live' = live /\ looking' = looking BY DEF HandleWrite
<1>7. UpKept BY <1>2 DEF UpKept
<1>8. PICK ok \in BOOLEAN : Adding(Response(up[1].req, ok)) BY <1>4
<1>9. PICK m : m = Response(up[1].req, ok) OBVIOUS
<1>10. m.type = "response" /\ m.req = up[1].req BY <1>3, <1>9, Messages
<1>11. Downer /\ (\A i : New(i) => down'[i] = m) /\ (\E i \in Downs' : down'[i] = m)
  BY <1>1, <1>5, <1>8, <1>9, AddingNew
<1>12. Known'
  BY <1>1, <1>3, <1>4, <1>5, <1>6, <1>7, <1>10, <1>11, HostKnown DEF Inv, SameRow
<1>13. Once' BY <1>1, <1>4, <1>5, <1>6, <1>7, HostOnce DEF Inv, Known, SameRow
<1>14. NothingForgotten'
  <2>1. Handled(up[1].req) BY <1>10, <1>11 DEF Handled
  <2>2. \A c \in Conns : Making(c) => (Making(c)' /\ table'[c].req = table[c].req)
    BY <1>4 DEF Making, SameRow
  <2> QED BY <1>1, <1>2, <1>6, <1>11, <2>1, <2>2, HostForgetsNone DEF Inv
<1>15. ASSUME NEW c \in Ours PROVE Sound(c)'
  <2>1. c \in Conns BY <1>1, OursConns
  <2>2. SameRow(c) BY <1>4, <2>1
  <2>3. Coming(c)' => Coming(c) BY <1>1, <1>6, <1>7, <2>2, ComesFrom DEF Making, SameRow
  <2>4. Sound(c) BY DEF Inv
  <2>5. up[1].req # state[c].req BY <1>3 DEF Plain
  <2> QED BY <1>1, <1>6, <1>10, <1>11, <2>2, <2>3, <2>4, <2>5, HostSound DEF SameRow
<1> QED BY <1>4, <1>5, <1>6, <1>12, <1>13, <1>14, <1>15, HostInv

LEMMA CloseInv ==
  ASSUME Inv, HandleClose
  PROVE  Inv'
<1> DEFINE c == up[1].conn
<1> DEFINE r == up[1].req
<1>1. Fit /\ Typed BY DEF Inv, Fit
<1>2. up' \in Seq(UpMsg) /\ Took(up, up') /\ up[1].type = "close"
  BY <1>1, UpHead DEF HandleClose, Asked
<1>3. c \in Ours /\ c \in Conns /\ ~Coming(c) /\ r \in 1 .. asked /\ r \in Nat /\ Plain(r)
  BY <1>2, UsesMade
<1>4. /\ Fit' /\ \A d \in Conns : d # c => SameRow(d)
      /\ \/ SameRow(c) /\ \E ok \in BOOLEAN : Adding(Response(r, ok))
         \/ /\ table[c].st # "none" /\ table'[c] = NoConn /\ down' \in Seq(DownMsg)
            /\ live = 0 => down' = down
            /\ live # 0 => /\ Grew(down, down') /\ Len(down') = Len(down) + 2
                           /\ \E e \in Execs : down'[Len(down) + 1] = Gone(c, e)
                           /\ down'[Len(down) + 2] = Response(r, TRUE)
  BY <1>1, <1>3, CloseFit
<1> HIDE DEF c, r
<1>5. live # 0 BY DEF Inv, Dead, HandleClose, Asked
<1>6. UNCHANGED kernel /\ live' = live /\ looking' = looking BY DEF HandleClose
<1>7. UpKept BY <1>2 DEF UpKept
<1>8. /\ Downer /\ (\E i \in Downs' : down'[i].type = "response" /\ down'[i].req = r)
      /\ \A i : New(i) =>
           /\ down'[i].type \in {"response", "closed"}
           /\ down'[i].type = "closed" => down'[i].conn = c
           /\ down'[i].type = "response" => down'[i].req = r
      /\ \/ SameRow(c)
         \/ /\ table[c].st # "none" /\ table'[c].st = "none"
            /\ \E i : New(i) /\ down'[i].type = "closed" /\ down'[i].conn = c
  <2>1. CASE SameRow(c) /\ \E ok \in BOOLEAN : Adding(Response(r, ok))
    <3>1. PICK ok \in BOOLEAN : Adding(Response(r, ok)) BY <2>1
    <3>2. PICK m : m = Response(r, ok) OBVIOUS
    <3>3. m.type = "response" /\ m.req = r BY <1>3, <3>2, Messages
    <3>4. Downer /\ (\A i : New(i) => down'[i] = m) /\ (\E i \in Downs' : down'[i] = m)
      BY <1>1, <1>5, <3>1, <3>2, AddingNew
    <3> QED BY <2>1, <3>3, <3>4
  <2>2. CASE /\ table[c].st # "none" /\ table'[c] = NoConn /\ down' \in Seq(DownMsg)
             /\ Grew(down, down') /\ Len(down') = Len(down) + 2
             /\ \E e \in Execs : down'[Len(down) + 1] = Gone(c, e)
             /\ down'[Len(down) + 2] = Response(r, TRUE)
    <3>1. PICK e \in Execs : down'[Len(down) + 1] = Gone(c, e) BY <2>2
    <3>2. down'[Len(down) + 1].type = "closed" /\ down'[Len(down) + 1].conn = c
          /\ down'[Len(down) + 2].type = "response" /\ down'[Len(down) + 2].req = r
      <4>1. Gone(c, e).type = "closed" /\ Gone(c, e).conn = c BY <1>3, Messages
      <4>2. Response(r, TRUE).type = "response" /\ Response(r, TRUE).req = r BY <1>3, Messages
      <4> QED BY <2>2, <3>1, <4>1, <4>2
    <3>3. Len(down) \in Nat BY <1>1 DEF Typed
    <3>4. New(Len(down) + 1) /\ (\A i : New(i) => i = Len(down) + 1 \/ i = Len(down) + 2)
          /\ Len(down) + 2 \in Downs'
      BY <2>2, <3>3 DEF New, Downs
    <3>5. Downer BY <2>2 DEF Downer
    <3>6. table'[c].st = "none" BY <2>2, NoRow
    <3> QED BY <2>2, <3>2, <3>4, <3>5, <3>6
  <2> QED BY <1>4, <1>5, <2>1, <2>2
<1>9. \A d \in Conns : SameRow(d) \/ (d = c /\ table[c].st # "none" /\ table'[c].st = "none")
  BY <1>4, <1>8
<1>10. Known'
  BY <1>1, <1>3, <1>5, <1>6, <1>7, <1>8, <1>9, HostKnown DEF Inv, SameRow
<1>11. Once' BY <1>1, <1>5, <1>6, <1>7, <1>9, HostOnce DEF Inv, Known, SameRow
<1>12. \A d \in Conns : Making(d) => SameRow(d) BY <1>3, <1>9 DEF Coming
<1>13. NothingForgotten'
  <2>1. Handled(up[1].req) BY <1>8 DEF Handled, r
  <2>2. \A d \in Conns : Making(d) => (Making(d)' /\ table'[d].req = table[d].req)
    BY <1>12 DEF Making, SameRow
  <2> QED BY <1>1, <1>2, <1>6, <1>8, <2>1, <2>2, HostForgetsNone DEF Inv
<1>14. ASSUME NEW d \in Ours PROVE Sound(d)'
  <2>1. d \in Conns BY <1>1, OursConns
  <2>2. Making(d)' => Making(d) BY <1>9, <2>1 DEF Making, SameRow
  <2>3. Coming(d)' => Coming(d) BY <1>1, <1>6, <1>7, <2>2, ComesFrom
  <2>4. Sound(d) BY DEF Inv
  <2>5. r # state[d].req BY <1>3 DEF Plain
  <2>6. table'[d].st = "open" => table[d].st = "open" /\ table'[d].sent = table[d].sent
    BY <1>9, <2>1 DEF SameRow
  <2>7. table[d].st = "open" =>
           \/ table'[d].st = "open"
           \/ \E i : New(i) /\ down'[i].type = "closed" /\ down'[i].conn = d
    BY <1>8, <1>9, <2>1 DEF SameRow
  <2>8. \A i : New(i) =>
           /\ down'[i].type = "data" => down'[i].conn # d
           /\ down'[i].type = "closed" /\ down'[i].conn = d => ~Coming(d)'
           /\ down'[i].type = "response" /\ down'[i].req = state[d].req => ~Coming(d)' /\ ~down'[i].ok
    BY <1>3, <1>8, <2>3, <2>5
  <2> QED BY <1>1, <1>6, <1>8, <2>3, <2>4, <2>6, <2>7, <2>8, HostSound
<1> QED BY <1>4, <1>5, <1>6, <1>10, <1>11, <1>13, <1>14, HostInv

-----------------------------------------------------------------------------
(* Files and sockets.                                                      *)

LEMMA InTable ==
  ASSUME Inv, live # 0, NEW c \in Conns, table[c].st # "none"
  PROVE  /\ c \in Ours /\ c # 0 /\ table[c].of = live /\ table[c].req = state[c].req
         /\ table[c].req \in Nat
         /\ \A i \in Ups : up[i].type = "connect" => up[i].conn # c
         /\ \A job \in looking : job.conn # c
         /\ \A d \in Ours : state[d].req = state[c].req => d = c
<1>1. c \in Ours /\ table[c].of = live /\ table[c].req = state[c].req
  BY DEF Inv, Known, TableKnown
<1>2. c # 0 BY DEF Conns
<1>3. \A i \in Ups : up[i].type = "connect" => up[i].conn # c BY DEF Inv, Once
<1>4. \A job \in looking : job.conn # c BY <1>2 DEF Inv, Once
<1>5. table[c].req \in Nat BY Row DEF Inv
<1>6. \A d \in Ours : state[d].req = state[c].req => d = c BY <1>1 DEF Inv, Known, ReqsKnown
<1> QED BY <1>1, <1>2, <1>3, <1>4, <1>5, <1>6

LEMMA ConnectInv ==
  ASSUME Inv, NEW job \in looking, Connect(job)
  PROVE  Inv'
<1>1. Fit /\ Typed BY DEF Inv, Fit
<1> DEFINE c == job.conn
<1>2. /\ Fit' /\ c \in Conns /\ up' = up /\ looking' = looking \ {job}
      /\ \A d \in Conns : d # c => table'[d] = table[d]
      /\ \/ /\ table[c].st = "none" /\ table'[c].st = "connecting" /\ table'[c].of = job.of
            /\ table'[c].req = job.req /\ down' = down
         \/ table' = table /\ Adding(Response(job.req, FALSE))
  BY <1>1, ConnectFit
<1>3. UNCHANGED kernel /\ live' = live /\ active' = active BY DEF Connect
<1>4. CASE live = 0 BY <1>2, <1>3, <1>4, DeadHost DEF Adding
<1>5. CASE live # 0
  <2>1. c # 0 BY <1>2 DEF Conns
  <2>2. /\ job.of = live /\ c \in Ours /\ job.req = state[c].req /\ job.req \in Nat
        /\ job.req \in 1 .. asked
    <3>1. job.of = live /\ c \in Ours /\ job.req = state[c].req /\ job.req \in 1 .. asked
      BY <1>5, <2>1 DEF Inv, Known, JobsKnown
    <3>2. job.req \in Nat BY <1>1 DEF Typed, Job
    <3> QED BY <3>1, <3>2
  <2>3. /\ table[c].st = "none"
        /\ \A i \in Ups : up[i].type = "connect" => up[i].conn # c
        /\ \A k \in looking' : k.conn # c
    BY <1>2, <1>5, <2>1 DEF Inv, Once
  <2>4. UpKept /\ looking' \subseteq looking /\ up' \in Seq(UpMsg)
    BY <1>1, <1>2, SameUp DEF UpKept
  <2> HIDE DEF c
  <2>5. \A d \in Conns : Making(d) => (Making(d)' /\ table'[d].req = table[d].req)
    BY <1>2, <2>3 DEF Making
  <2>6. \A d \in Ours : d \in Conns BY <1>1, OursConns
  <2>7. CASE /\ table[c].st = "none" /\ table'[c].st = "connecting" /\ table'[c].of = job.of
             /\ table'[c].req = job.req /\ down' = down
    <3>1. Downer /\ \A i : ~New(i) BY <1>1, <2>7, SameDown
    <3>2. \A d \in Conns : table'[d] = table[d] \/ RowKnown(d, table'[d])
      BY <1>2, <2>2, <2>7 DEF RowKnown
    <3>3. Known' BY <1>1, <1>3, <1>5, <2>4, <3>1, <3>2, HostKnown DEF Inv
    <3>4. Once'
      <4>1. ASSUME NEW i \in Ups', up'[i].type = "connect"
            PROVE  table'[up'[i].conn].st = "none" /\ \A k \in looking' : k.conn # up'[i].conn
        <5>1. i \in Ups /\ up'[i] = up[i] BY <1>2 DEF Ups
        <5>2. table[up[i].conn].st = "none" /\ \A k \in looking : k.conn # up[i].conn
          BY <1>5, <4>1, <5>1 DEF Inv, Once
        <5>3. up[i].conn \in Conns /\ up[i].conn # c
          BY <2>3, <2>6, <4>1, <5>1 DEF Inv, Known, UpKnown
        <5> QED BY <1>2, <2>4, <5>1, <5>2, <5>3
      <4>2. ASSUME NEW q \in looking', q.conn # 0
            PROVE  table'[q.conn].st = "none" /\ \A k \in looking' : k.conn = q.conn => k = q
        <5>1. q \in looking /\ q.conn # c BY <2>3, <2>4
        <5>2. table[q.conn].st = "none" /\ \A k \in looking : k.conn = q.conn => k = q
          BY <1>5, <4>2, <5>1 DEF Inv, Once
        <5>3. q.conn \in Conns BY <1>5, <2>6, <4>2, <5>1 DEF Inv, Known, JobsKnown
        <5> QED BY <1>2, <2>4, <5>1, <5>2, <5>3
      <4>3. \A i, j \in Ups' :
              up'[i].type = "connect" /\ up'[j].type = "connect" /\ up'[i].conn = up'[j].conn => i = j
        BY <1>2, <1>5 DEF Inv, Once, Ups
      <4> QED BY <4>1, <4>2, <4>3 DEF Once
    <3>5. NothingForgotten'
      <4>1. Handled(job.req) BY <1>2, <2>7 DEF Handled, Making
      <4>2. \A k \in looking : k \in looking' \/ Handled(k.req) BY <1>2, <4>1
      <4> QED BY <1>1, <1>2, <1>3, <2>4, <2>5, <3>1, <4>2, HostForgetsNone DEF Inv
    <3>6. ASSUME NEW d \in Ours PROVE Sound(d)'
      <4>1. d \in Conns BY <2>6
      <4>2. Making(d)' => Making(d) \/ \E k \in looking : k.conn = d
        BY <1>2, <4>1 DEF Making, c
      <4>3. Coming(d)' => Coming(d) BY <1>1, <2>4, <4>2, ComesFrom
      <4>4. Sound(d) BY DEF Inv
      <4>5. /\ table'[d].st = "open" => table[d].st = "open" /\ table'[d].sent = table[d].sent
            /\ table[d].st = "open" => table'[d].st = "open"
        BY <1>2, <2>7, <4>1
      <4> QED BY <1>1, <1>3, <3>1, <4>3, <4>4, <4>5, HostSound
    <3> QED BY <1>2, <1>3, <1>5, <3>3, <3>4, <3>5, <3>6, HostInv
  <2>8. CASE table' = table /\ Adding(Response(job.req, FALSE))
    <3>1. PICK m : m = Response(job.req, FALSE) OBVIOUS
    <3>2. m.type = "response" /\ m.req = job.req /\ m.ok = FALSE BY <2>2, <3>1, Messages
    <3>3. Downer /\ (\A i : New(i) => down'[i] = m) /\ (\E i \in Downs' : down'[i] = m)
      BY <1>1, <1>5, <2>8, <3>1, AddingNew
    <3>4. Known' BY <1>1, <1>3, <1>5, <2>2, <2>4, <2>8, <3>2, <3>3, HostKnown DEF Inv
    <3>5. Once' BY <1>1, <1>3, <1>5, <2>4, <2>8, HostOnce DEF Inv, Known
    <3>6. NothingForgotten'
      <4>1. Handled(job.req) BY <3>2, <3>3 DEF Handled
      <4>2. \A k \in looking : k \in looking' \/ Handled(k.req) BY <1>2, <4>1
      <4> QED BY <1>1, <1>2, <1>3, <2>4, <2>5, <3>3, <4>2, HostForgetsNone DEF Inv
    <3>7. ASSUME NEW d \in Ours PROVE Sound(d)'
      <4>1. Coming(d)' => Coming(d) BY <1>1, <2>4, <2>8, ComesFrom DEF Making
      <4>2. Sound(d) BY DEF Inv
      <4>3. job.req = state[d].req => ~Coming(d)'
        <5> SUFFICES ASSUME job.req = state[d].req PROVE ~Coming(d)' OBVIOUS
        <5>1. d = c BY <2>2 DEF Inv, Known, ReqsKnown
        <5> QED BY <1>2, <2>3, <2>8, <5>1 DEF Coming, Making, Ups
      <4> QED BY <1>1, <1>3, <2>8, <3>2, <3>3, <4>1, <4>2, <4>3, HostSound
    <3> QED BY <1>2, <1>3, <1>5, <3>4, <3>5, <3>6, <3>7, HostInv
  <2> QED BY <1>2, <2>7, <2>8 DEF c
<1> QED BY <1>4, <1>5

LEMMA ListedInv ==
  ASSUME Inv, NEW job \in looking, Listed(job)
  PROVE  Inv'
<1>1. Fit /\ Typed BY DEF Inv, Fit
<1>2. /\ Fit' /\ job.conn = 0 /\ up' = up /\ looking' = looking \ {job} /\ table' = table
      /\ \E ok \in BOOLEAN : Adding(Response(job.req, ok))
  BY <1>1, ListedFit
<1>3. UNCHANGED kernel /\ live' = live /\ active' = active BY DEF Listed
<1>4. CASE live = 0 BY <1>2, <1>3, <1>4, DeadHost DEF Adding
<1>5. CASE live # 0
  <2>1. Plain(job.req) /\ job.req \in Nat /\ job.req \in 1 .. asked
    <3>1. Plain(job.req) /\ job.req \in 1 .. asked BY <1>2, <1>5 DEF Inv, Known, JobsKnown
    <3>2. job.req \in Nat BY <1>1 DEF Typed, Job
    <3> QED BY <3>1, <3>2
  <2>2. UpKept /\ looking' \subseteq looking /\ up' \in Seq(UpMsg)
    BY <1>1, <1>2, SameUp DEF UpKept
  <2>3. PICK ok \in BOOLEAN : Adding(Response(job.req, ok)) BY <1>2
  <2>4. PICK m : m = Response(job.req, ok) OBVIOUS
  <2>5. m.type = "response" /\ m.req = job.req BY <2>1, <2>4, Messages
  <2>6. Downer /\ (\A i : New(i) => down'[i] = m) /\ (\E i \in Downs' : down'[i] = m)
    BY <1>1, <1>5, <2>3, <2>4, AddingNew
  <2>7. Known' BY <1>1, <1>2, <1>3, <1>5, <2>1, <2>2, <2>5, <2>6, HostKnown DEF Inv
  <2>8. Once' BY <1>1, <1>2, <1>3, <1>5, <2>2, HostOnce DEF Inv, Known
  <2>9. NothingForgotten'
    <3>1. Handled(job.req) BY <2>5, <2>6 DEF Handled
    <3>2. \A k \in looking : k \in looking' \/ Handled(k.req) BY <1>2, <3>1
    <3>3. \A d \in Conns : Making(d) => (Making(d)' /\ table'[d].req = table[d].req)
      BY <1>2 DEF Making
    <3> QED BY <1>1, <1>2, <1>3, <2>2, <2>6, <3>2, <3>3, HostForgetsNone DEF Inv
  <2>10. ASSUME NEW d \in Ours PROVE Sound(d)'
    <3>1. Coming(d)' => Coming(d) BY <1>1, <1>2, <2>2, ComesFrom DEF Making
    <3>2. Sound(d) BY DEF Inv
    <3>3. job.req # state[d].req BY <2>1 DEF Plain
    <3> QED BY <1>1, <1>2, <1>3, <2>5, <2>6, <3>1, <3>2, <3>3, HostSound
  <2> QED BY <1>2, <1>3, <1>5, <2>7, <2>8, <2>9, <2>10, HostInv
<1> QED BY <1>4, <1>5

\* What a step of connection c must keep, but for Sound(c) itself, when its row
\* stays in the table or leaves it with an answer or a report.
LEMMA RowInv ==
  ASSUME Inv, live # 0, live' = live, UNCHANGED kernel, Fit', up' = up, looking' = looking,
         NEW c \in Conns, \A d \in Conns : d # c => table'[d] = table[d],
         table[c].st # "none",
         table'[c].st # "none" => table'[c].of = table[c].of /\ table'[c].req = table[c].req,
         Downer,
         \A i : New(i) =>
           /\ down'[i].type \in {"data", "closed", "response"}
           /\ down'[i].type \in {"data", "closed"} => down'[i].conn = c
           /\ down'[i].type = "response" => down'[i].req = state[c].req,
         Making(c) => Making(c)' \/ Handled(table[c].req),
         Making(c)' => Making(c) /\ table'[c].st # "none",
         Sound(c)'
  PROVE  Inv'
<1>1. Typed BY DEF Inv
<1>2. /\ c \in Ours /\ c # 0
      /\ \A i \in Ups : up[i].type = "connect" => up[i].conn # c
      /\ \A job \in looking : job.conn # c
      /\ \A d \in Ours : state[d].req = state[c].req => d = c
  BY InTable
<1>3. UpKept /\ up' \in Seq(UpMsg) BY <1>1, SameUp DEF UpKept
<1>0. state[c].req \in 1 .. asked BY <1>2 DEF Inv, Known, ReqsKnown
<1>4. Known' BY <1>0, <1>1, <1>2, <1>3, HostKnown DEF Inv
<1>5. \A d \in Conns : table[d].st = "none" => table'[d].st = "none" OBVIOUS
<1>6. Once' BY <1>1, <1>3, <1>5, HostOnce DEF Inv, Known
<1>7. NothingForgotten'
  <2>1. \A d \in Conns : Making(d) =>
          (Making(d)' /\ table'[d].req = table[d].req) \/ Handled(table[d].req)
    <3> SUFFICES ASSUME NEW d \in Conns, Making(d)
                 PROVE  (Making(d)' /\ table'[d].req = table[d].req) \/ Handled(table[d].req)
      OBVIOUS
    <3>1. CASE d = c BY <3>1
    <3>2. CASE d # c BY <3>2 DEF Making
    <3> QED BY <3>1, <3>2
  <2> QED BY <1>1, <1>3, <2>1, HostForgetsNone DEF Inv
<1>8. ASSUME NEW d \in Ours PROVE Sound(d)'
  <2>1. CASE d = c BY <2>1
  <2>2. CASE d # c
    <3>1. d \in Conns /\ table'[d] = table[d] BY <1>1, <2>2, OursConns
    <3>2. Making(d)' => Making(d) BY <3>1 DEF Making
    <3>3. Coming(d)' => Coming(d) BY <1>1, <1>3, <3>2, ComesFrom
    <3>4. Sound(d) BY DEF Inv
    <3>5. state[d].req # state[c].req BY <1>2, <2>2
    <3> QED BY <1>1, <2>2, <3>1, <3>3, <3>4, <3>5, HostSound
  <2> QED BY <2>1, <2>2
<1> QED BY <1>4, <1>6, <1>7, <1>8, HostInv

LEMMA Entry ==
  ASSUME Typed, NEW c \in Ours
  PROVE  /\ state[c] \in StateRec /\ state[c].got \in Seq(Nat) /\ state[c].pending \in Seq(Nat)
         /\ Len(state[c].got) \in Nat /\ Len(state[c].pending) \in Nat /\ Have(c) \in Nat
         /\ state[c].st \in {"connecting", "open", "closed"} /\ state[c].heard \in BOOLEAN
<1>1. state[c] \in StateRec BY DEF Typed, Ours, Opened
<1>2. state[c].got \in Seq(Nat) /\ state[c].pending \in Seq(Nat) BY <1>1 DEF StateRec
<1>3. Len(state[c].got) \in Nat /\ Len(state[c].pending) \in Nat BY <1>2
<1>4. \A a, b \in Nat : a + b \in Nat OBVIOUS
<1>5. Have(c) \in Nat BY <1>3, <1>4, Zenon DEF Have
<1>6. state[c].st \in {"connecting", "open", "closed"} /\ state[c].heard \in BOOLEAN
  BY <1>1 DEF StateRec
<1> QED BY <1>1, <1>2, <1>3, <1>5, <1>6

LEMMA ConnectedInv ==
  ASSUME Inv, NEW c \in Conns, Connected(c)
  PROVE  Inv'
<1>1. Fit /\ Typed BY DEF Inv, Fit
<1>2. /\ Fit' /\ up' = up /\ looking' = looking /\ down' = down
      /\ \A d \in Conns : d # c => table'[d] = table[d]
      /\ table[c].st = "connecting" /\ table'[c].st = "verifying"
      /\ table'[c].of = table[c].of /\ table'[c].req = table[c].req
  BY <1>1, ConnectedFit
<1>3. UNCHANGED kernel /\ live' = live /\ active' = active BY DEF Connected
<1>4. CASE live = 0 BY <1>2, <1>3, <1>4, DeadHost
<1>5. CASE live # 0
  <2>1. Downer /\ \A i : ~New(i) BY <1>1, <1>2, SameDown
  <2>2. c \in Ours BY <1>2, <1>5, InTable
  <2>3. Making(c) /\ Making(c)' BY <1>2 DEF Making
  <2>4. Coming(c)' => Coming(c) BY <2>3 DEF Coming
  <2>5. Sound(c) BY <2>2 DEF Inv
  <2>6. Sound(c)' BY <1>1, <1>2, <1>3, <2>1, <2>2, <2>4, <2>5, HostSound
  <2> QED BY <1>2, <1>3, <1>5, <2>1, <2>3, <2>6, RowInv
<1> QED BY <1>4, <1>5

LEMMA VerifiedInv ==
  ASSUME Inv, NEW c \in Conns, Verified(c)
  PROVE  Inv'
<1>1. Fit /\ Typed BY DEF Inv, Fit
<1>2. /\ Fit' /\ up' = up /\ looking' = looking /\ Adding(Response(table[c].req, TRUE))
      /\ \A d \in Conns : d # c => table'[d] = table[d]
      /\ table[c].st = "verifying" /\ table'[c].st = "open" /\ table'[c].sent = 0
      /\ table'[c].of = table[c].of /\ table'[c].req = table[c].req
  BY <1>1, VerifiedFit
<1>3. UNCHANGED kernel /\ live' = live /\ active' = active BY DEF Verified
<1>4. CASE live = 0 BY <1>2, <1>3, <1>4, DeadHost DEF Adding
<1>5. CASE live # 0
  <2>1. /\ c \in Ours /\ table[c].req = state[c].req /\ table[c].req \in Nat
        /\ \A i \in Ups : up[i].type = "connect" => up[i].conn # c
        /\ \A job \in looking : job.conn # c
    BY <1>2, <1>5, InTable
  <2>2. PICK m : m = Response(table[c].req, TRUE) OBVIOUS
  <2>3. m.type = "response" /\ m.req = state[c].req BY <2>1, <2>2, Messages
  <2>4. Downer /\ (\A i : New(i) => down'[i] = m) /\ (\E i \in Downs' : down'[i] = m)
    BY <1>1, <1>2, <1>5, <2>2, AddingNew
  <2>5. Sound(c)'
    <3>1. Sound(c) /\ Silent(c) BY <1>2, <2>1 DEF Inv, Sound, Coming, Making
    <3>2. ~Coming(c)' BY <1>2, <2>1 DEF Coming, Making, Ups
    <3>3. state'[c] = state[c] /\ Have(c)' = 0 BY <1>3, <3>1 DEF kernel, Silent, Have
    <3>4. OnWay(c)' = {}
      <4>1. Len(down) \in Nat /\ Len(down') \in Nat BY <1>1, <2>4 DEF Typed, Downer
      <4>2. \A i \in 1 .. Len(down') : New(i) \/ (i \in Downs /\ down'[i] = down[i])
        BY <2>4, <4>1 DEF New, Downs, Downer, Grew
      <4>3. \A i \in 1 .. Len(down') : ~(down'[i].type = "data" /\ down'[i].conn = c)
        BY <2>3, <2>4, <3>1, <4>2 DEF Silent
      <4> QED BY <4>3 DEF OnWay
    <3>5. {down'[i].n : i \in OnWay(c)'} = Have(c)' + 1 .. 0
      <4>1. Have(c)' + 1 .. 0 = {} BY <3>3
      <4>2. {down'[i].n : i \in OnWay(c)'} = {} BY <3>4
      <4> QED BY <4>1, <4>2
    <3>6. 0 \in Have(c)' .. MaxData BY <3>3, Bounds
    <3>7. \E last \in Have(c)' .. MaxData :
            /\ {down'[i].n : i \in OnWay(c)'} = Have(c)' + 1 .. last
            /\ table'[c].st = "open" => last = table'[c].sent
      BY <1>2, <3>5, <3>6
    <3>8. Order(c)' BY <3>3, <3>4, <3>7 DEF Order
    <3> QED BY <1>2, <3>1, <3>2, <3>3, <3>8 DEF Sound, Opening, Loss
  <2>6. Handled(table[c].req) BY <2>1, <2>3, <2>4 DEF Handled
  <2>7. ~Making(c)' BY <1>2 DEF Making
  <2> QED BY <1>2, <1>3, <1>5, <2>3, <2>4, <2>5, <2>6, <2>7, RowInv
<1> QED BY <1>4, <1>5

LEMMA ConnectFailsInv ==
  ASSUME Inv, NEW c \in Conns, ConnectFails(c)
  PROVE  Inv'
<1>1. Fit /\ Typed BY DEF Inv, Fit
<1>2. /\ Fit' /\ up' = up /\ looking' = looking /\ Adding(Response(table[c].req, FALSE))
      /\ \A d \in Conns : d # c => table'[d] = table[d]
      /\ Making(c) /\ table'[c].st = "none"
  BY <1>1, ConnectFailsFit
<1>3. UNCHANGED kernel /\ live' = live /\ active' = active BY DEF ConnectFails
<1>4. CASE live = 0 BY <1>2, <1>3, <1>4, DeadHost DEF Adding
<1>5. CASE live # 0
  <2>0. table[c].st # "none" /\ table[c].st # "open" BY <1>2 DEF Making
  <2>1. /\ c \in Ours /\ table[c].req = state[c].req /\ table[c].req \in Nat
        /\ \A i \in Ups : up[i].type = "connect" => up[i].conn # c
        /\ \A job \in looking : job.conn # c
    BY <2>0, <1>5, InTable
  <2>2. PICK m : m = Response(table[c].req, FALSE) OBVIOUS
  <2>3. m.type = "response" /\ m.req = state[c].req /\ m.ok = FALSE BY <2>1, <2>2, Messages
  <2>4. Downer /\ (\A i : New(i) => down'[i] = m) /\ (\E i \in Downs' : down'[i] = m)
    BY <1>1, <1>2, <1>5, <2>2, AddingNew
  <2>5. ~Making(c)' BY <1>2 DEF Making
  <2>6. ~Coming(c)' BY <1>2, <2>1, <2>5 DEF Coming, Ups
  <2>7. Sound(c) BY <2>1 DEF Inv
  <2>8. Sound(c)' BY <1>1, <1>2, <1>3, <2>0, <2>1, <2>3, <2>4, <2>6, <2>7, HostSound
  <2>9. Handled(table[c].req) BY <2>1, <2>3, <2>4 DEF Handled
  <2> QED BY <1>2, <1>3, <1>5, <2>0, <2>3, <2>4, <2>5, <2>8, <2>9, RowInv
<1> QED BY <1>4, <1>5

LEMMA PeerClosesInv ==
  ASSUME Inv, NEW c \in Conns, PeerCloses(c)
  PROVE  Inv'
<1>1. Fit /\ Typed BY DEF Inv, Fit
<1>2. /\ Fit' /\ up' = up /\ looking' = looking
      /\ \E e \in Execs : Adding(Gone(c, e))
      /\ \A d \in Conns : d # c => table'[d] = table[d]
      /\ table[c].st = "open" /\ table'[c].st = "none"
  BY <1>1, PeerClosesFit
<1>3. UNCHANGED kernel /\ live' = live /\ active' = active BY DEF PeerCloses
<1>4. CASE live = 0 BY <1>2, <1>3, <1>4, DeadHost DEF Adding
<1>5. CASE live # 0
  <2>1. /\ c \in Ours
        /\ \A i \in Ups : up[i].type = "connect" => up[i].conn # c
        /\ \A job \in looking : job.conn # c
    BY <1>2, <1>5, InTable
  <2>2. PICK e \in Execs : Adding(Gone(c, e)) BY <1>2
  <2>3. PICK m : m = Gone(c, e) OBVIOUS
  <2>4. m.type = "closed" /\ m.conn = c BY <2>3, Messages
  <2>5. Downer /\ (\A i : New(i) => down'[i] = m) /\ (\E i : New(i) /\ down'[i] = m)
    BY <1>1, <1>5, <2>2, <2>3, AddingNew
  <2>6. ~Making(c) /\ ~Making(c)' BY <1>2 DEF Making
  <2>7. ~Coming(c)' BY <1>2, <2>1, <2>6 DEF Coming, Ups
  <2>8. Sound(c) BY <2>1 DEF Inv
  <2>9. Sound(c)' BY <1>1, <1>2, <1>3, <2>1, <2>4, <2>5, <2>7, <2>8, HostSound
  <2> QED BY <1>2, <1>3, <1>5, <2>4, <2>5, <2>6, <2>9, RowInv
<1> QED BY <1>4, <1>5

LEMMA PeerSendsInv ==
  ASSUME Inv, NEW c \in Conns, PeerSends(c)
  PROVE  Inv'
<1>1. Fit /\ Typed BY DEF Inv, Fit
<1>2. /\ Fit' /\ up' = up /\ looking' = looking
      /\ \E e \in Execs : Adding(Data(c, table[c].sent + 1, e))
      /\ \A d \in Conns : d # c => table'[d] = table[d]
      /\ table[c].st = "open" /\ table'[c].st = "open" /\ table'[c].sent = table[c].sent + 1
      /\ table'[c].of = table[c].of /\ table'[c].req = table[c].req
      /\ table[c].sent \in Nat /\ table[c].sent < MaxData
  BY <1>1, PeerSendsFit
<1>3. UNCHANGED kernel /\ live' = live /\ active' = active BY DEF PeerSends
<1>4. CASE live = 0 BY <1>2, <1>3, <1>4, DeadHost DEF Adding
<1>5. CASE live # 0
  <2>1. /\ c \in Ours
        /\ \A i \in Ups : up[i].type = "connect" => up[i].conn # c
        /\ \A job \in looking : job.conn # c
    BY <1>2, <1>5, InTable
  <2> DEFINE n == table[c].sent + 1
  <2>2. PICK e \in Execs : Adding(Data(c, n, e)) BY <1>2
  <2>3. PICK m : m = Data(c, n, e) OBVIOUS
  <2>4. m.type = "data" /\ m.conn = c /\ m.n = n
    <3>1. n \in Nat BY <1>2
    <3> QED BY <2>3, <3>1, Messages
  <2>5. Downer /\ GrewBy(down, down', m) /\ (\A i : New(i) => down'[i] = m)
    BY <1>1, <1>5, <2>2, <2>3, AddingNew DEF Adding
  <2>6. ~Making(c) /\ ~Making(c)' BY <1>2 DEF Making
  <2>7. ~Coming(c)' BY <1>2, <2>1, <2>6 DEF Coming, Ups
  <2>8. Sound(c) BY <2>1 DEF Inv
  <2>9. Order(c)'
    <3> DEFINE p == Len(down) + 1
    <3>1. Len(down) \in Nat /\ Len(down') = p /\ down'[p] = m
          /\ \A i \in 1 .. Len(down) : down'[i] = down[i]
      BY <1>1, <2>5 DEF Typed, GrewBy, Grew
    <3>2. state'[c] = state[c] /\ Have(c)' = Have(c) BY <1>3 DEF kernel, Have
    <3>3. PICK last \in Have(c) .. MaxData :
            /\ {down[i].n : i \in OnWay(c)} = Have(c) + 1 .. last
            /\ last = table[c].sent
      BY <1>2, <2>8 DEF Sound, Order
    <3>4. Have(c) \in Nat BY <1>1, <2>1, Entry
    <3>5. p \notin OnWay(c) /\ OnWay(c)' = OnWay(c) \cup {p}
          /\ \A i \in OnWay(c) : i \in Nat /\ i < p /\ down'[i] = down[i]
      BY <2>4, <3>1 DEF OnWay
    <3>6. \A i \in OnWay(c) : down[i].n \in Have(c) + 1 .. last /\ down[i].n < n
      <4>1. \A i \in OnWay(c) : down[i].n \in Have(c) + 1 .. last BY <3>3
      <4> QED BY <1>2, <3>3, <3>4, <4>1
    <3>7. ASSUME NEW i \in OnWay(c)', NEW j \in OnWay(c)', i < j PROVE down'[i].n < down'[j].n
      <4>1. i # p /\ i \in OnWay(c)
        BY <3>1, <3>5, <3>7
      <4>2. CASE j = p BY <2>4, <3>1, <3>5, <3>6, <4>1, <4>2
      <4>3. CASE j # p
        <5>1. j \in OnWay(c) BY <3>5, <4>3
        <5>2. down[i].n < down[j].n BY <2>8, <3>7, <4>1, <5>1 DEF Sound, Order
        <5> QED BY <3>5, <4>1, <5>1, <5>2
      <4> QED BY <4>2, <4>3
    <3>8. {down'[i].n : i \in OnWay(c)'} = Have(c) + 1 .. n
      <4>1. {down'[i].n : i \in OnWay(c)'} = {down[i].n : i \in OnWay(c)} \cup {n}
        <5>1. \A i \in OnWay(c) : down'[i].n = down[i].n BY <3>5
        <5>2. down'[p].n = n BY <2>4, <3>1
        <5> HIDE DEF n, p
        <5> QED BY <3>5, <5>1, <5>2
      <4>2. Have(c) + 1 .. n = (Have(c) + 1 .. last) \cup {n} BY <1>2, <3>3, <3>4
      <4> QED BY <3>3, <4>1, <4>2
    <3>9. n \in Have(c) .. MaxData BY <1>2, <3>3, <3>4, Bounds
    <3>10. \A i \in 1 .. Have(c)' : (state'[c].got \o state'[c].pending)[i] = i
      BY <2>8, <3>2 DEF Sound, Order
    <3>11. table'[c].st = "open" => n = table'[c].sent BY <1>2
    <3> HIDE DEF n, p
    <3> QED BY <3>2, <3>7, <3>8, <3>9, <3>10, <3>11 DEF Order
  <2>10. Sound(c)'
    <3>1. state'[c] = state[c] BY <1>3 DEF kernel
    <3> QED BY <1>2, <2>7, <2>8, <2>9, <3>1 DEF Sound, Opening, Loss
  <2> QED BY <1>2, <1>3, <1>5, <2>4, <2>5, <2>6, <2>10, RowInv
<1> QED BY <1>4, <1>5

-----------------------------------------------------------------------------
(* Steps of the kernel: what they keep of each part of the invariant.      *)

\* Messages that follow what the host has been sent already.
Asks(m) ==
  \/ m.type = "result"
  \/ /\ m.req = asked + 1 /\ asked' = asked + 1
     /\ \/ m.type = "connect" /\ m.conn \in Ours' \ Ours
        \/ m.type = "list_directory" /\ m.conn = 0 /\ Ours' = Ours
        \/ /\ m.type \in {"write", "close"} /\ m.conn \in Ours /\ Ours' = Ours
           /\ state'[m.conn].st # "connecting"
UpMore == up' \in Seq(UpMsg) /\ Grew(up, up') /\ \A i \in Ups' : i \in Ups \/ Asks(up'[i])
\* The kernel keeps its connections; one it adds has the next request.
Keeps ==
  /\ \A c \in Ours :
       /\ c \in Ours' /\ state'[c].req = state[c].req
       /\ state[c].st # "connecting" => state'[c].st # "connecting"
  /\ \A c, d \in Ours' \ Ours : c = d
  /\ \A c \in Ours' \ Ours : c \in Conns /\ state'[c].req = asked + 1 /\ asked' = asked + 1
\* What is left for the kernel was there before.
DownLess == down' \in Seq(DownMsg) /\ (down' = down \/ Took(down, down'))

LEMMA DownShift ==
  ASSUME Typed, DownLess
  PROVE  \E k \in {0, 1} : \A i \in Downs' : i \in Nat /\ i + k \in Downs /\ down'[i] = down[i + k]
<1>1. Len(down) \in Nat /\ Len(down') \in Nat BY DEF Typed, DownLess
<1>2. CASE down' = down
  <2>1. \A i \in Downs' : i \in Nat /\ i + 0 \in Downs /\ down'[i] = down[i + 0]
    BY <1>1, <1>2 DEF Downs
  <2> QED BY <2>1
<1>3. CASE Took(down, down')
  <2>1. \A i \in Downs' : i \in Nat /\ i + 1 \in Downs /\ down'[i] = down[i + 1]
    BY <1>1, <1>3 DEF Downs, Took
  <2> QED BY <2>1
<1> QED BY <1>2, <1>3 DEF DownLess

PlainNext(r) == \A c \in Ours' : state'[c].req # r

LEMMA KernelKnown ==
  ASSUME Typed, Known, UNCHANGED host, Keeps, UpMore, DownLess, asked' \in Nat, asked' >= asked
  PROVE  Known'
<1>0. asked \in Nat /\ \A r \in 1 .. asked : r \in 1 .. asked' /\ r # asked + 1
  BY DEF Typed
<1>1. \A r \in 1 .. asked : Plain(r) => PlainNext(r)
  BY <1>0 DEF Plain, PlainNext, Keeps
<1>2. Ours' = Ours => PlainNext(asked + 1)
  BY <1>0 DEF Keeps, PlainNext, Known, ReqsKnown
<1>3. ReqsKnown'
  <2>1. \A c \in Ours' : c \in Ours \/ (state'[c].req = asked + 1 /\ asked' = asked + 1)
    BY DEF Keeps
  <2>2. asked' = asked + 1 => asked + 1 \in 1 .. asked' BY <1>0
  <2>3. \A c \in Ours' : state'[c].req \in 1 .. asked'
    BY <1>0, <2>1, <2>2 DEF Keeps, Known, ReqsKnown
  <2>4. \A c, d \in Ours' : state'[c].req = state'[d].req => c = d
    BY <1>0 DEF Keeps, Known, ReqsKnown
  <2> QED BY <2>3, <2>4 DEF ReqsKnown
<1>4. UpKnown'
  <2> SUFFICES ASSUME NEW i \in Ups'
               PROVE /\ up'[i].type = "connect" => up'[i].conn \in Ours' /\ up'[i].req = state'[up'[i].conn].req
                     /\ up'[i].type \in {"write", "close"} =>
                          up'[i].conn \in Ours' /\ state'[up'[i].conn].st # "connecting" /\ PlainNext(up'[i].req)
                     /\ up'[i].type = "list_directory" => up'[i].conn = 0 /\ PlainNext(up'[i].req)
                     /\ up'[i].type # "result" => up'[i].req \in 1 .. asked'
    BY DEF UpKnown, Plain, PlainNext
  <2>1. CASE i \in Ups
    <3>1. up'[i] = up[i] BY <2>1 DEF UpMore, Grew, Ups
    <3>2. PICK m : m = up[i] OBVIOUS
    <3>3. up'[i] = m BY <3>1, <3>2
    <3>4. /\ m.type = "connect" => m.conn \in Ours /\ m.req = state[m.conn].req
          /\ m.type \in {"write", "close"} =>
               m.conn \in Ours /\ state[m.conn].st # "connecting" /\ Plain(m.req)
          /\ m.type = "list_directory" => m.conn = 0 /\ Plain(m.req)
          /\ m.type # "result" => m.req \in 1 .. asked
      BY <2>1, <3>2 DEF Known, UpKnown
    <3>5. m.req \in 1 .. asked /\ Plain(m.req) => PlainNext(m.req) BY <1>1
    <3>6. m.type \in {"connect", "write", "close", "list_directory", "result"}
      BY <2>1, <3>2 DEF Typed, UpMsg, Ups
    <3> QED BY <1>0, <3>3, <3>4, <3>5, <3>6 DEF Keeps
  <2>2. CASE i \notin Ups
    <3>1. PICK m : m = up'[i] OBVIOUS
    <3>2. Asks(m) BY <2>2, <3>1 DEF UpMore
    <3>3. asked' = asked + 1 => asked + 1 \in 1 .. asked' BY <1>0
    <3>4. m.type = "connect" => m.conn \in Ours' /\ m.req = state'[m.conn].req
      BY <3>2 DEF Asks, Keeps
    <3>5. m.type \in {"write", "close"} =>
            m.conn \in Ours' /\ state'[m.conn].st # "connecting" /\ m.req = asked + 1 /\ Ours' = Ours
      BY <3>2 DEF Asks
    <3>6. m.type = "list_directory" => m.conn = 0 /\ m.req = asked + 1 /\ Ours' = Ours
      BY <3>2 DEF Asks
    <3>7. m.type # "result" => m.req = asked + 1 /\ asked' = asked + 1
      BY <3>2 DEF Asks
    <3> QED BY <1>0, <1>2, <3>1, <3>3, <3>4, <3>5, <3>6, <3>7
  <2> QED BY <2>1, <2>2
<1>5. JobsKnown'
  BY <1>0, <1>1 DEF Known, JobsKnown, Keeps, host, Plain, PlainNext
<1>6. TableKnown'
  BY DEF Known, TableKnown, Keeps, host
<1>7. DownKnown'
  <2>1. PICK k \in {0, 1} : \A i \in Downs' : i \in Nat /\ i + k \in Downs /\ down'[i] = down[i + k]
    BY DownShift
  <2> QED BY <1>0, <2>1 DEF Known, DownKnown, Keeps
<1> QED BY <1>3, <1>4, <1>5, <1>6, <1>7 DEF Known

LEMMA KernelOnce ==
  ASSUME Typed, Known, Once, UNCHANGED host, live # 0, Keeps, UpMore,
         \A i, j \in Ups' \ Ups : up'[i].type = "connect" /\ up'[j].type = "connect" => i = j
  PROVE  Once'
<1>1. \A i \in Ups : i \in Ups' /\ up'[i] = up[i]
  <2>1. Len(up) \in Nat /\ Len(up') \in Nat BY DEF Typed, UpMore
  <2> QED BY <2>1 DEF UpMore, Grew, Ups
<1>2. \A i \in Ups : up[i].type = "connect" => up[i].conn \in Ours BY DEF Known, UpKnown
<1>3. \A i \in Ups' \ Ups : up'[i].type = "connect" => up'[i].conn \in Ours' \ Ours
  BY DEF UpMore, Asks
<1>4. \A c \in Ours' \ Ours : table[c].st = "none" /\ c # 0 /\ \A job \in looking : job.conn # c
  <2> SUFFICES ASSUME NEW c \in Ours' \ Ours
               PROVE  table[c].st = "none" /\ c # 0 /\ \A job \in looking : job.conn # c
    OBVIOUS
  <2>1. c \in Conns /\ c # 0 BY DEF Keeps, Conns
  <2>2. table[c].st = "none" BY <2>1 DEF Known, TableKnown
  <2>3. \A job \in looking : job.conn # c BY <2>1 DEF Known, JobsKnown
  <2> QED BY <2>1, <2>2, <2>3
<1>5. ASSUME NEW i \in Ups', NEW j \in Ups', up'[i].type = "connect", up'[j].type = "connect",
             up'[i].conn = up'[j].conn
      PROVE  i = j
  <2>1. CASE i \in Ups /\ j \in Ups BY <1>1, <1>5, <2>1 DEF Once
  <2>2. CASE i \notin Ups /\ j \notin Ups BY <1>5, <2>2
  <2>3. CASE i \in Ups /\ j \notin Ups BY <1>1, <1>2, <1>3, <1>5, <2>3
  <2>4. CASE i \notin Ups /\ j \in Ups BY <1>1, <1>2, <1>3, <1>5, <2>4
  <2> QED BY <2>1, <2>2, <2>3, <2>4
<1>6. ASSUME NEW i \in Ups', up'[i].type = "connect"
      PROVE  table[up'[i].conn].st = "none" /\ \A job \in looking : job.conn # up'[i].conn
  <2>1. CASE i \in Ups BY <1>1, <1>6, <2>1 DEF Once
  <2>2. CASE i \notin Ups BY <1>3, <1>4, <1>6, <2>2
  <2> QED BY <2>1, <2>2
<1>7. table' = table /\ looking' = looking /\ live' = live BY DEF host
<1> QED BY <1>5, <1>6, <1>7 DEF Once

LEMMA KernelForgetsNone ==
  ASSUME Typed, NothingForgotten, UNCHANGED host, up' \in Seq(UpMsg), Grew(up, up'), DownLess,
         Took(down, down') /\ down[1].type = "response" => down' = down \/ down[1].req \notin waiters',
         \A r \in waiters' : r \in waiters \/ \E i \in Ups' : up'[i].type # "result" /\ up'[i].req = r
  PROVE  NothingForgotten'
<1> SUFFICES ASSUME NEW r \in waiters' PROVE Somewhere(r)'
  BY DEF NothingForgotten
<1>1. CASE r \notin waiters BY <1>1 DEF Somewhere
<1>2. CASE r \in waiters
  <2>0. Somewhere(r) BY <1>2 DEF NothingForgotten
  <2>1. CASE \E i \in Ups : up[i].type # "result" /\ up[i].req = r
    <3>1. Len(up) \in Nat /\ Len(up') \in Nat BY DEF Typed
    <3>2. \A i \in Ups : i \in Ups' /\ up'[i] = up[i] BY <3>1 DEF Grew, Ups
    <3> QED BY <2>1, <3>2 DEF Somewhere
  <2>2. CASE \E job \in looking : job.req = r BY <2>2 DEF Somewhere, host
  <2>3. CASE \E c \in Conns : Making(c) /\ table[c].req = r
    BY <2>3 DEF Somewhere, Making, host
  <2>4. CASE \E i \in Downs : down[i].type = "response" /\ down[i].req = r
    <3>1. PICK i \in Downs : down[i].type = "response" /\ down[i].req = r BY <2>4
    <3>2. CASE down' = down BY <3>1, <3>2 DEF Somewhere, Downs
    <3>3. CASE Took(down, down') /\ down' # down
      <4>1. i # 1 BY <3>1, <3>3
      <4>2. i - 1 \in 1 .. Len(down') /\ (i - 1) + 1 = i BY <3>1, <3>3, <4>1 DEF Downs, Took, Typed
      <4>3. down'[i - 1] = down[i] BY <3>3, <4>2 DEF Took
      <4> QED BY <3>1, <4>2, <4>3 DEF Somewhere, Downs
    <3> QED BY <3>2, <3>3 DEF DownLess
  <2> QED BY <2>0, <2>1, <2>2, <2>3, <2>4 DEF Somewhere
<1> QED BY <1>1, <1>2

LEMMA AskFit ==
  ASSUME Typed, NEW op \in {"connect", "write", "close", "list_directory"},
         NEW c \in 0 .. MaxConns, NEW e \in Execs, Ask(op, c, e)
  PROVE  /\ asked \in Nat /\ asked' = asked + 1 /\ asked' \in 0 .. MaxRequests
         /\ waiters' = waiters \cup {asked + 1} /\ waiters' \subseteq 1 .. asked'
         /\ up' \in Seq(UpMsg) /\ Grew(up, up')
         /\ \A i \in Ups' \ Ups : /\ i = Len(up) + 1 /\ up'[i].type = op /\ up'[i].conn = c
                                  /\ up'[i].req = asked + 1
         /\ \E i \in Ups' : i \notin Ups
<1>1. asked \in Nat /\ asked' = asked + 1 /\ asked' \in 0 .. MaxRequests
  BY Bounds DEF Ask, Typed
<1>2. waiters' = waiters \cup {asked + 1} /\ waiters' \subseteq 1 .. asked'
  BY <1>1 DEF Ask, Typed
<1>3. PICK m : m = Request(op, c, e) OBVIOUS
<1>4. m \in UpMsg /\ m.type = op /\ m.conn = c /\ m.req = asked + 1
  BY <1>1, <1>3 DEF Request, UpMsg
<1>5. up \in Seq(UpMsg) /\ up' = Append(up, m) BY <1>3 DEF Typed, Ask
<1>6. up' \in Seq(UpMsg) /\ GrewBy(up, up', m) /\ Len(up) \in Nat BY <1>4, <1>5, Adds
<1>7. \A i \in Ups' \ Ups : i = Len(up) + 1 BY <1>6 DEF GrewBy, Ups
<1>8. Len(up) + 1 \in Ups' \ Ups BY <1>6 DEF GrewBy, Ups
<1> QED BY <1>1, <1>2, <1>4, <1>6, <1>7, <1>8 DEF GrewBy

LEMMA StatePut ==
  ASSUME Typed, NEW c \in Ours, NEW r \in StateRec, state' = [state EXCEPT ![c] = r]
  PROVE  /\ state' \in Seq(StateRec) /\ Len(state') = Len(state) /\ Ours' = Ours
         /\ state'[c] = r /\ \A d \in Ours : d # c => state'[d] = state[d]
<1>1. state \in Seq(StateRec) /\ c \in 1 .. Len(state) BY DEF Typed, Ours, Opened
<1>2. /\ state' \in Seq(StateRec) /\ Len(state') = Len(state) /\ state'[c] = r
      /\ \A d \in 1 .. Len(state) : d # c => state'[d] = state[d]
  BY <1>1, Sets
<1> QED BY <1>2 DEF Ours, Opened

LEMMA StateMap ==
  ASSUME Typed, NEW f \in [Ours -> StateRec], state' = f
  PROVE  state' \in Seq(StateRec) /\ Len(state') = Len(state) /\ Ours' = Ours
<1>1. Len(state) \in Nat BY DEF Typed
<1>2. f \in [1 .. Len(state) -> StateRec] BY DEF Ours, Opened
<1>3. f \in Seq(StateRec) /\ Len(f) = Len(state) BY <1>1, <1>2
<1> QED BY <1>3 DEF Ours, Opened

LEMMA KernelFit ==
  ASSUME Fit, UNCHANGED host, up' \in Seq(UpMsg), down' \in Seq(DownMsg), running' \in Execs,
         state' \in Seq(StateRec), Len(state') <= MaxConns, asked' \in 0 .. MaxRequests,
         waiters' \subseteq 1 .. asked'
  PROVE  Fit'
BY DEF Fit, Typed, NoneSent, host, Opened

LEMMA KernelInv ==
  ASSUME Inv, live # 0, UNCHANGED host, Fit', Keeps, UpMore, DownLess, asked' >= asked,
         \A i, j \in Ups' \ Ups : up'[i].type = "connect" /\ up'[j].type = "connect" => i = j,
         Took(down, down') /\ down[1].type = "response" => down' = down \/ down[1].req \notin waiters',
         \A r \in waiters' : r \in waiters \/ \E i \in Ups' : up'[i].type # "result" /\ up'[i].req = r,
         \A c \in Ours' : Sound(c)'
  PROVE  Inv'
<1>1. Typed /\ Known /\ Once /\ NothingForgotten BY DEF Inv
<1>2. asked' \in Nat BY DEF Fit, Typed
<1>3. Known' BY <1>1, <1>2, KernelKnown
<1>4. Once' BY <1>1, KernelOnce
<1>5. NothingForgotten' BY <1>1, KernelForgetsNone DEF UpMore
<1>6. Dead' BY DEF Dead, host
<1> QED BY <1>3, <1>4, <1>5, <1>6 DEF Inv, Fit

\* No connection that was there is asked for again.
LEMMA KernelComing ==
  ASSUME UNCHANGED host, UpMore, NEW c \in Ours, Coming(c)'
  PROVE  Coming(c)
<1>1. CASE \E i \in Ups' : up'[i].type = "connect" /\ up'[i].conn = c
  <2>1. PICK i \in Ups' : up'[i].type = "connect" /\ up'[i].conn = c BY <1>1
  <2>2. i \in Ups BY <2>1 DEF UpMore, Asks
  <2>3. up'[i] = up[i] BY <2>2 DEF UpMore, Grew, Ups
  <2> QED BY <2>1, <2>2, <2>3 DEF Coming
<1>2. CASE ~\E i \in Ups' : up'[i].type = "connect" /\ up'[i].conn = c
  BY <1>2 DEF Coming, Making, host
<1> QED BY <1>1, <1>2

LEMMA KernelSound ==
  ASSUME Typed, UNCHANGED host, UpMore, down' = down, NEW c \in Ours, Sound(c), SameState(c)
  PROVE  Sound(c)'
<1>1. Grew(down, down') /\ down' \in Seq(DownMsg) /\ \A i : ~New(i)
  BY SameDown DEF Downer
<1>2. table' = table BY DEF host
<1>3. Coming(c)' => Coming(c) BY KernelComing
<1> QED BY <1>1, <1>2, <1>3, SoundGrew

LEMMA SameEntry ==
  ASSUME NEW c \in Ours, Sound(c), state'[c] = state[c]
  PROVE  SameState(c)
BY DEF SameState, SameItems, Sound, Have

LEMMA UpSame ==
  ASSUME Typed, up' = up
  PROVE  UpMore /\ Ups' = Ups
BY DEF UpMore, Grew, Ups, Typed

LEMMA DownSame ==
  ASSUME Typed, down' = down
  PROVE  DownLess /\ (Took(down, down') /\ down[1].type = "response" =>
                        down' = down \/ down[1].req \notin waiters')
BY DEF DownLess, Typed

\* While the kernel runs or has a message, its process lives.
LEMMA Lives == ASSUME Inv, running # 0 \/ down # <<>> PROVE live # 0
BY DEF Inv, Dead

LEMMA CellEndsInv ==
  ASSUME Inv, CellEnds
  PROVE  Inv'
<1>1. Fit /\ Typed BY DEF Inv, Fit
<1>2. UNCHANGED host /\ down' = down /\ state' = state /\ asked' = asked /\ waiters' = waiters
  BY DEF CellEnds
<1>3. live # 0 BY Lives DEF CellEnds
<1>4. PICK m : m = Result(running) OBVIOUS
<1>5. m \in UpMsg /\ m.type = "result" BY <1>1, <1>4 DEF Result, UpMsg, Typed
<1>6. up' \in Seq(UpMsg) /\ GrewBy(up, up', m) /\ Len(up) \in Nat
  <2>1. up \in Seq(UpMsg) /\ up' = Append(up, m) BY <1>1, <1>4 DEF CellEnds, Typed
  <2> QED BY <1>5, <2>1, Adds
<1>7. UpMore /\ \A i \in Ups' \ Ups : up'[i].type = "result"
  <2>1. \A i \in Ups' : i \in Ups \/ up'[i] = m BY <1>6 DEF GrewBy, Ups
  <2> QED BY <1>5, <1>6, <2>1 DEF UpMore, Asks, GrewBy
<1>8. Keeps BY <1>2 DEF Keeps, Ours, Opened
<1>9. Ours' = Ours BY <1>2 DEF Ours, Opened
<1>10. Fit'
  <2>1. 0 \in Execs BY Bounds DEF Execs
  <2> QED BY <1>1, <1>2, <1>6, <2>1, KernelFit DEF CellEnds, Typed, Opened
<1>11. ASSUME NEW c \in Ours PROVE Sound(c)'
  <2>1. Sound(c) BY DEF Inv
  <2>2. SameState(c) BY <1>2, <2>1, SameEntry
  <2> QED BY <1>1, <1>2, <1>7, <2>1, <2>2, KernelSound
<1>12. asked' >= asked BY <1>1, <1>2 DEF Typed
<1> QED BY <1>1, <1>2, <1>3, <1>7, <1>8, <1>9, <1>10, <1>11, <1>12, DownSame, KernelInv

\* Steps of a cell that ask the host for something and make no connection.
LEMMA AskInv ==
  ASSUME Inv, live # 0, UNCHANGED <<host, down, running>>,
         NEW op \in {"write", "close", "list_directory"},
         NEW c \in 0 .. MaxConns, NEW e \in Execs, Ask(op, c, e),
         op = "list_directory" <=> c = 0, c # 0 => c \in Ours /\ state'[c].st # "connecting",
         state' \in Seq(StateRec), Len(state') = Len(state),
         \A d \in Ours : SameState(d) /\ (state[d].st # "connecting" => state'[d].st # "connecting")
  PROVE  Inv'
<1>1. Fit /\ Typed BY DEF Inv, Fit
<1>2. /\ asked \in Nat /\ asked' = asked + 1 /\ asked' \in 0 .. MaxRequests
      /\ waiters' = waiters \cup {asked + 1} /\ waiters' \subseteq 1 .. asked'
      /\ up' \in Seq(UpMsg) /\ Grew(up, up')
      /\ \A i \in Ups' \ Ups : /\ i = Len(up) + 1 /\ up'[i].type = op /\ up'[i].conn = c
                               /\ up'[i].req = asked + 1
      /\ \E i \in Ups' : i \notin Ups
  BY <1>1, AskFit
<1>3. Ours' = Ours BY DEF Ours, Opened
<1>4. Keeps BY <1>3 DEF Keeps, SameState
<1>5. UpMore BY <1>2, <1>3 DEF UpMore, Asks
<1>6. Fit' BY <1>1, <1>2, KernelFit DEF Typed, Opened
<1>7. asked' >= asked BY <1>2
<1>8. ASSUME NEW d \in Ours PROVE Sound(d)'
  BY <1>1, <1>5, KernelSound DEF Inv
<1>9. \A r \in waiters' : r \in waiters \/ \E i \in Ups' : up'[i].type # "result" /\ up'[i].req = r
  BY <1>2
<1> QED BY <1>1, <1>2, <1>3, <1>4, <1>5, <1>6, <1>7, <1>8, <1>9, DownSame, KernelInv

LEMMA ListDirectoryInv ==
  ASSUME Inv, ListDirectory
  PROVE  Inv'
<1>1. Typed BY DEF Inv
<1>2. live # 0 BY Lives DEF ListDirectory
<1>3. 0 \in 0 .. MaxConns /\ running \in Execs BY <1>1, Bounds DEF Typed
<1>4. \A d \in Ours : Sound(d) BY DEF Inv
<1>5. state' = state BY DEF ListDirectory
<1>6. \A d \in Ours : SameState(d) BY <1>4, <1>5, SameEntry
<1> QED BY <1>1, <1>2, <1>3, <1>5, <1>6, AskInv DEF ListDirectory, Typed

LEMMA WriteStateInv ==
  ASSUME Inv, NEW c \in Ours, Write(c)
  PROVE  Inv'
<1>1. Typed BY DEF Inv
<1>2. live # 0 BY Lives DEF Write
<1>3. c \in 0 .. MaxConns /\ c # 0 /\ running \in Execs BY <1>1, OursConns DEF Typed, Conns
<1>4. PICK r : r = [state[c] EXCEPT !.exec = running] OBVIOUS
<1>5. state[c] \in StateRec BY <1>1, Entry
<1>6. /\ r \in StateRec /\ r.st = state[c].st /\ r.req = state[c].req /\ r.heard = state[c].heard
      /\ r.got = state[c].got /\ r.pending = state[c].pending
  BY <1>3, <1>4, <1>5 DEF StateRec
<1>7. state' = [state EXCEPT ![c] = r] BY <1>4 DEF Write
<1>8. /\ state' \in Seq(StateRec) /\ Len(state') = Len(state)
      /\ state'[c] = r /\ \A d \in Ours : d # c => state'[d] = state[d]
  BY <1>1, <1>6, <1>7, StatePut
<1>9. ASSUME NEW d \in Ours
      PROVE  SameState(d) /\ (state[d].st # "connecting" => state'[d].st # "connecting")
  <2>1. Sound(d) BY DEF Inv
  <2>2. CASE d # c BY <1>8, <2>1, <2>2, SameEntry
  <2>3. CASE d = c BY <1>6, <1>8, <2>1, <2>3 DEF SameState, SameItems, Sound, Have
  <2> QED BY <2>2, <2>3
<1> QED BY <1>2, <1>3, <1>6, <1>8, <1>9, AskInv DEF Write

\* The kernel knows of no connection that may still be made.
LEMMA NotComing ==
  ASSUME Inv, NEW c \in Ours, UNCHANGED host, UpMore, state[c].st # "connecting"
  PROVE  ~Coming(c)'
<1>1. ~Coming(c) BY DEF Inv, Sound, Silent
<1> QED BY <1>1, KernelComing

LEMMA EndInv ==
  ASSUME Inv, NEW c \in Ours, End(c)
  PROVE  Inv'
<1>1. Typed BY DEF Inv
<1>2. live # 0 BY Lives DEF End
<1>3. c \in 0 .. MaxConns /\ c # 0 /\ running \in Execs BY <1>1, OursConns DEF Typed, Conns
<1>4. PICK r : r = [state[c] EXCEPT !.st = "closed"] OBVIOUS
<1>5. state[c] \in StateRec BY <1>1, Entry
<1>6. /\ r \in StateRec /\ r.st = "closed" /\ r.req = state[c].req /\ r.heard = state[c].heard
      /\ r.got = state[c].got /\ r.pending = state[c].pending
  BY <1>3, <1>4, <1>5 DEF StateRec
<1>7. state' = [state EXCEPT ![c] = r] BY <1>4 DEF End
<1>8. /\ state' \in Seq(StateRec) /\ Len(state') = Len(state) /\ Ours' = Ours
      /\ state'[c] = r /\ \A d \in Ours : d # c => state'[d] = state[d]
  BY <1>1, <1>6, <1>7, StatePut
<1>9. UpMore
  <2>1. Ask("close", c, running) BY DEF End
  <2>2. /\ asked' = asked + 1 /\ up' \in Seq(UpMsg) /\ Grew(up, up')
        /\ \A i \in Ups' \ Ups : /\ i = Len(up) + 1 /\ up'[i].type = "close" /\ up'[i].conn = c
                                 /\ up'[i].req = asked + 1
    BY <1>1, <1>3, <2>1, AskFit
  <2> QED BY <1>6, <1>8, <2>2 DEF UpMore, Asks
<1>10. ~Coming(c)' BY <1>9, NotComing DEF End
<1>11. ASSUME NEW d \in Ours
      PROVE  SameState(d) /\ (state[d].st # "connecting" => state'[d].st # "connecting")
  <2>1. Sound(d) BY DEF Inv
  <2>2. CASE d # c BY <1>8, <2>1, <2>2, SameEntry
  <2>3. CASE d = c BY <1>6, <1>8, <1>10, <2>1, <2>3 DEF SameState, SameItems, Sound, Have
  <2> QED BY <2>2, <2>3
<1> QED BY <1>2, <1>3, <1>6, <1>8, <1>11, AskInv DEF End

LEMMA CreateConnectionInv ==
  ASSUME Inv, CreateConnection
  PROVE  Inv'
<1>1. Fit /\ Typed BY DEF Inv, Fit
<1>2. live # 0 BY Lives DEF CreateConnection
<1>0. PICK c : c = Len(state) + 1 OBVIOUS
<1>3. Len(state) \in Nat /\ c \in 1 .. MaxConns /\ c \in Conns /\ c \in 0 .. MaxConns /\ c \notin Ours
  BY <1>0, <1>1, Bounds DEF Typed, Opened, CreateConnection, Ours, Conns
<1>4. running \in Execs BY <1>1 DEF Typed
<1>5. Ask("connect", c, running) BY <1>0 DEF CreateConnection, Opened
<1>6. UNCHANGED host /\ down' = down /\ running' = running BY DEF CreateConnection
<1>7. PICK r : r = [st |-> "connecting", req |-> asked + 1, exec |-> running,
                    heard |-> FALSE, got |-> <<>>, pending |-> <<>>]
  OBVIOUS
<1>8. state' = Append(state, r) BY <1>7 DEF CreateConnection
<1>9. /\ asked \in Nat /\ asked' = asked + 1 /\ asked' \in 0 .. MaxRequests
      /\ waiters' = waiters \cup {asked + 1} /\ waiters' \subseteq 1 .. asked'
      /\ up' \in Seq(UpMsg) /\ Grew(up, up')
      /\ \A i \in Ups' \ Ups : /\ i = Len(up) + 1 /\ up'[i].type = "connect" /\ up'[i].conn = c
                               /\ up'[i].req = asked + 1
      /\ \E i \in Ups' : i \notin Ups
  BY <1>1, <1>3, <1>4, <1>5, AskFit
<1>10. <<>> \in Seq(Nat) /\ Len(<<>>) = 0 OBVIOUS
<1>11. r \in StateRec /\ r.st = "connecting" /\ r.req = asked + 1 /\ r.heard = FALSE
       /\ r.got = <<>> /\ r.pending = <<>>
  BY <1>4, <1>7, <1>9, <1>10 DEF StateRec
<1>12. state \in Seq(StateRec) BY <1>1 DEF Typed
<1>13. state' \in Seq(StateRec) /\ GrewBy(state, state', r) BY <1>8, <1>11, <1>12, Adds
<1>14. Len(state') = c /\ state'[c] = r /\ \A d \in Ours : state'[d] = state[d]
  BY <1>0, <1>13 DEF GrewBy, Grew, Ours, Opened
<1>15. Ours' = Ours \cup {c} BY <1>0, <1>3, <1>14 DEF Ours, Opened
<1>16. Keeps BY <1>3, <1>9, <1>11, <1>14, <1>15 DEF Keeps
<1>17. UpMore BY <1>3, <1>9, <1>15 DEF UpMore, Asks
<1>18. Len(state') <= MaxConns BY <1>3, <1>14
<1>19. down' \in Seq(DownMsg) BY <1>1, <1>6 DEF Typed
<1>20. Fit' BY <1>1, <1>4, <1>6, <1>9, <1>13, <1>18, <1>19, KernelFit
<1>21. ASSUME NEW d \in Ours PROVE Sound(d)'
  <2>1. Sound(d) BY DEF Inv
  <2>2. SameState(d) BY <1>14, <2>1, SameEntry
  <2> QED BY <1>1, <1>6, <1>17, <2>1, <2>2, KernelSound
<1>22. Sound(c)'
  <2>1. state'[c].got \o state'[c].pending = <<>> /\ Have(c)' = 0
    <3>1. <<>> \o <<>> = <<>> OBVIOUS
    <3>2. Have(c)' = 0 + 0 BY <1>10, <1>11, <1>14, Zenon DEF Have
    <3> QED BY <1>11, <1>14, <3>1, <3>2
  <2>2. \A i \in Downs' : /\ down'[i].type \in {"data", "closed"} => down'[i].conn # c
                          /\ down'[i].type = "response" => down'[i].req # asked + 1
    <3>1. \A x \in 1 .. asked : x # asked + 1 BY <1>9
    <3> QED BY <1>3, <1>6, <3>1 DEF Inv, Known, DownKnown, Downs
  <2>3. Silent(c)' BY <1>11, <1>14, <2>1, <2>2 DEF Silent
  <2>4. Opening(c)' BY <1>11, <1>14, <2>2 DEF Opening
  <2>5. Loss(c)' BY <1>11, <1>14 DEF Loss
  <2>6. OnWay(c)' = {} BY <2>2 DEF OnWay, Downs
  <2>7. table'[c].st = "none"
    <3>1. table[c].st = "none" BY <1>2, <1>3 DEF Inv, Known, TableKnown
    <3> QED BY <1>6, <3>1 DEF host
  <2>8. \E last \in Have(c)' .. MaxData :
          /\ {down'[i].n : i \in OnWay(c)'} = Have(c)' + 1 .. last
          /\ table'[c].st = "open" => last = table'[c].sent
    <3>1. {down'[i].n : i \in OnWay(c)'} = {} BY <2>6
    <3>2. Have(c)' + 1 .. 0 = {} /\ 0 \in Have(c)' .. MaxData BY <2>1, Bounds
    <3> QED BY <2>7, <3>1, <3>2
  <2>9. Order(c)' BY <2>1, <2>6, <2>8 DEF Order
  <2> QED BY <1>11, <1>14, <2>3, <2>4, <2>5, <2>9 DEF Sound
<1>23. \A d \in Ours' : Sound(d)' BY <1>15, <1>21, <1>22
<1>24. asked' >= asked BY <1>9
<1>25. \A x \in waiters' : x \in waiters \/ \E i \in Ups' : up'[i].type # "result" /\ up'[i].req = x
  BY <1>9
<1>26. \A i, j \in Ups' \ Ups : i = j BY <1>9
<1> QED BY <1>1, <1>2, <1>6, <1>16, <1>17, <1>20, <1>23, <1>24, <1>25, <1>26, DownSame, KernelInv

\* Steps of the kernel that ask for nothing and leave the messages to it alone.
LEMMA ListenInv ==
  ASSUME Inv, NEW c \in Ours, Listen(c)
  PROVE  Inv'
<1>1. Fit /\ Typed BY DEF Inv, Fit
<1>2. live # 0 BY Lives DEF Listen
<1>3. UNCHANGED <<host, channel, running, asked, waiters>> BY DEF Listen
<1>4. up' = up /\ down' = down BY <1>3 DEF channel
<1>5. /\ state[c] \in StateRec /\ state[c].got \in Seq(Nat) /\ state[c].pending \in Seq(Nat)
      /\ Len(state[c].got) \in Nat /\ Len(state[c].pending) \in Nat
  BY <1>1, Entry
<1>6. PICK g : g = state[c].got \o state[c].pending OBVIOUS
<1>6a. g \in Seq(Nat) BY <1>5, <1>6
<1>7. g \in Seq(Nat) /\ Len(g) = Len(state[c].got) + Len(state[c].pending) /\ g \o <<>> = g
      /\ <<>> \in Seq(Nat) /\ Len(<<>>) = 0
  BY <1>5, <1>6
<1>7a. PICK e : e = <<>> OBVIOUS
<1>8. PICK r : r = [state[c] EXCEPT !.heard = TRUE, !.pending = e, !.got = g] OBVIOUS
<1>9. /\ r \in StateRec /\ r.st = state[c].st /\ r.req = state[c].req
      /\ r.got = g /\ r.pending = <<>>
  <2>1. e \in Seq(Nat) BY <1>7, <1>7a
  <2>2. g \in Seq(Nat) BY <1>7
  <2>3. r \in StateRec /\ r.st = state[c].st /\ r.req = state[c].req /\ r.got = g /\ r.pending = e
    BY <1>5, <1>8, <2>1, <2>2 DEF StateRec
  <2> QED BY <1>7a, <2>3
<1>10. state' = [state EXCEPT ![c] = r]
  <2>1. [state[c] EXCEPT !.heard = TRUE, !.pending = e, !.got = @ \o state[c].pending] = r
    BY <1>5, <1>6, <1>8 DEF StateRec
  <2> QED BY <1>7a, <2>1, Zenon DEF Listen
<1>11. /\ state' \in Seq(StateRec) /\ Len(state') = Len(state) /\ Ours' = Ours
       /\ state'[c] = r /\ \A d \in Ours : d # c => state'[d] = state[d]
  BY <1>1, <1>9, <1>10, StatePut
<1>12. UpMore /\ Ups' = Ups BY <1>1, <1>4, UpSame
<1>13. Fit' BY <1>1, <1>3, <1>4, <1>11, KernelFit DEF Typed, Opened
<1>14. ASSUME NEW d \in Ours
       PROVE  SameState(d) /\ state'[d].st = state[d].st
  <2>1. Sound(d) BY DEF Inv
  <2>2. CASE d # c BY <1>11, <2>1, <2>2, SameEntry
  <2>3. CASE d = c
    <3>1. Have(c)' = Have(c)
      <4>1. Len(state'[c].got) = Len(g) /\ Len(state'[c].pending) = 0 BY <1>7, <1>9, <1>11
      <4>2. Have(c)' = Len(g) + 0 BY <4>1 DEF Have
      <4>3. Len(g) = Have(c) BY <1>7 DEF Have
      <4>4. Len(g) \in Nat BY <1>6a
      <4> QED BY <4>2, <4>3, <4>4
    <3> QED BY <1>6, <1>7, <1>9, <1>11, <2>3, <3>1 DEF SameState, SameItems
  <2> QED BY <2>2, <2>3
<1>15. Keeps BY <1>11, <1>14 DEF Keeps, SameState
<1>16. ASSUME NEW d \in Ours PROVE Sound(d)'
  BY <1>1, <1>3, <1>4, <1>12, <1>14, KernelSound DEF Inv
<1>17. asked' >= asked BY <1>1, <1>3 DEF Typed
<1> QED BY <1>1, <1>2, <1>3, <1>4, <1>11, <1>12, <1>13, <1>15, <1>16, <1>17, DownSame, KernelInv

\* The kernel has taken the first message.
LEMMA DownTook ==
  ASSUME Typed, NEW kind, Takes(kind)
  PROVE  /\ DownLess /\ Took(down, down') /\ down' \in Seq(DownMsg)
         /\ Head(down) = down[1] /\ down[1].type = kind /\ 1 \in Downs /\ down # <<>>
BY DownHead DEF Takes, DownLess

LEMMA KernelSoundTook ==
  ASSUME Typed, UNCHANGED host, UpMore, Took(down, down'), down' \in Seq(DownMsg),
         NEW c \in Ours, Sound(c), SameState(c),
         down[1].type = "data" => down[1].conn # c,
         down[1].type = "closed" /\ down[1].conn = c => state'[c].st = "closed"
  PROVE  Sound(c)'
<1>1. table' = table BY DEF host
<1>2. Coming(c)' => Coming(c) BY KernelComing
<1> QED BY <1>1, <1>2, SoundTook

LEMMA HandleExecInv ==
  ASSUME Inv, HandleExec
  PROVE  Inv'
<1>1. Fit /\ Typed BY DEF Inv, Fit
<1>2. /\ DownLess /\ Took(down, down') /\ down' \in Seq(DownMsg)
      /\ Head(down) = down[1] /\ down[1].type = "exec" /\ 1 \in Downs /\ down # <<>>
  BY <1>1, DownTook DEF HandleExec
<1>3. live # 0 BY <1>2, Lives
<1>4. UNCHANGED <<host, up, state, asked, waiters>> BY DEF HandleExec
<1>5. running' \in Execs
  <2>1. running' = down[1].exec BY <1>2 DEF HandleExec
  <2> QED BY <1>1, <1>2, <2>1, DownHead
<1>6. UpMore /\ Ups' = Ups /\ Ours' = Ours BY <1>1, <1>4, UpSame DEF Ours, Opened
<1>7. Fit' BY <1>1, <1>2, <1>4, <1>5, KernelFit DEF Typed, Opened
<1>8. Keeps BY <1>4, <1>6 DEF Keeps
<1>9. ASSUME NEW c \in Ours PROVE Sound(c)'
  <2>1. Sound(c) BY DEF Inv
  <2>2. SameState(c) BY <1>4, <2>1, SameEntry
  <2> QED BY <1>1, <1>2, <1>4, <1>6, <2>1, <2>2, KernelSoundTook
<1>10. asked' >= asked BY <1>1, <1>4 DEF Typed
<1> QED BY <1>2, <1>3, <1>4, <1>6, <1>7, <1>8, <1>9, <1>10, KernelInv

LEMMA HandleClosedInv ==
  ASSUME Inv, HandleClosed
  PROVE  Inv'
<1>1. Fit /\ Typed BY DEF Inv, Fit
<1>2. /\ DownLess /\ Took(down, down') /\ down' \in Seq(DownMsg)
      /\ Head(down) = down[1] /\ down[1].type = "closed" /\ 1 \in Downs /\ down # <<>>
  BY <1>1, DownTook DEF HandleClosed
<1>3. live # 0 BY <1>2, Lives
<1>4. UNCHANGED <<host, up, running, asked, waiters>> BY DEF HandleClosed
<1>5. PICK m : m = down[1] OBVIOUS
<1>6. m.type = "closed" /\ m.conn \in Ours BY <1>2, <1>5 DEF Inv, Known, DownKnown
<1>7. PICK f : f = [c \in Ours |->
         IF c = m.conn THEN [state[c] EXCEPT !.st = "closed", !.exec = Context(c, m.exec)]
                       ELSE state[c]]
  OBVIOUS
<1>8. state' = f BY <1>2, <1>5, <1>7 DEF HandleClosed, Ours
<1>9. \A c \in Ours :
        /\ f[c] \in StateRec /\ f[c].req = state[c].req /\ f[c].heard = state[c].heard
        /\ f[c].got = state[c].got /\ f[c].pending = state[c].pending
        /\ IF c = m.conn THEN f[c].st = "closed" ELSE f[c] = state[c]
  <2> SUFFICES ASSUME NEW c \in Ours
               PROVE /\ f[c] \in StateRec /\ f[c].req = state[c].req /\ f[c].heard = state[c].heard
                     /\ f[c].got = state[c].got /\ f[c].pending = state[c].pending
                     /\ IF c = m.conn THEN f[c].st = "closed" ELSE f[c] = state[c]
    OBVIOUS
  <2>1. state[c] \in StateRec BY <1>1, Entry
  <2>2. Context(c, m.exec) \in Execs BY <1>1, <2>1 DEF Context, Typed, StateRec
  <2>3. CASE c = m.conn
    <3>1. f[c] = [state[c] EXCEPT !.st = "closed", !.exec = Context(c, m.exec)] BY <1>7, <2>3
    <3> QED BY <2>1, <2>2, <2>3, <3>1 DEF StateRec
  <2>4. CASE c # m.conn BY <1>7, <2>1, <2>4
  <2> QED BY <2>3, <2>4
<1>10. f \in [Ours -> StateRec] BY <1>7, <1>9
<1>11. state' \in Seq(StateRec) /\ Len(state') = Len(state) /\ Ours' = Ours
  BY <1>1, <1>8, <1>10, StateMap
<1>12. UpMore /\ Ups' = Ups BY <1>1, <1>4, UpSame
<1>13. Fit' BY <1>1, <1>2, <1>4, <1>11, KernelFit DEF Typed, Opened
<1>14. ASSUME NEW c \in Ours PROVE SameState(c)
  <2>1. Sound(c) BY DEF Inv
  <2>2. ~(Coming(c)' /\ c = m.conn)
    <3>1. Coming(c)' => Silent(c) BY <1>4, <1>12, <2>1, KernelComing DEF Sound
    <3> QED BY <1>2, <1>5, <1>6, <3>1 DEF Silent
  <2>3. Have(c)' = Have(c) BY <1>8, <1>9 DEF Have
  <2> QED BY <1>8, <1>9, <2>1, <2>2, <2>3 DEF SameState, SameItems, Sound
<1>15. Keeps BY <1>8, <1>9, <1>11 DEF Keeps
<1>16. ASSUME NEW c \in Ours PROVE Sound(c)'
  <2>1. Sound(c) BY DEF Inv
  <2>2. m.conn = c => state'[c].st = "closed" BY <1>8, <1>9
  <2> QED BY <1>1, <1>2, <1>4, <1>5, <1>12, <1>14, <2>1, <2>2, KernelSoundTook
<1>17. asked' >= asked BY <1>1, <1>4 DEF Typed
<1> QED BY <1>2, <1>3, <1>4, <1>11, <1>12, <1>13, <1>15, <1>16, <1>17, KernelInv

LEMMA HandleResponseInv ==
  ASSUME Inv, HandleResponse
  PROVE  Inv'
<1>1. Fit /\ Typed BY DEF Inv, Fit
<1>2. /\ DownLess /\ Took(down, down') /\ down' \in Seq(DownMsg)
      /\ Head(down) = down[1] /\ down[1].type = "response" /\ 1 \in Downs /\ down # <<>>
  BY <1>1, DownTook DEF HandleResponse
<1>3. live # 0 BY <1>2, Lives
<1>4. UNCHANGED <<host, up, running, asked>> BY DEF HandleResponse
<1>5. PICK m : m = down[1] OBVIOUS
<1>6. m.type = "response" /\ waiters' = waiters \ {m.req} BY <1>2, <1>5 DEF HandleResponse
<1>7. PICK f : f = [c \in Ours |->
         IF state[c].req = m.req /\ state[c].st = "connecting"
         THEN [state[c] EXCEPT !.st = IF m.ok THEN "open" ELSE "closed"] ELSE state[c]]
  OBVIOUS
<1>8. state' = f BY <1>2, <1>5, <1>7 DEF HandleResponse, Ours
<1>9. \A c \in Ours :
        /\ f[c] \in StateRec /\ f[c].req = state[c].req /\ f[c].heard = state[c].heard
        /\ f[c].got = state[c].got /\ f[c].pending = state[c].pending
        /\ \/ f[c].st = state[c].st
           \/ state[c].req = m.req /\ state[c].st = "connecting" /\ m.ok /\ f[c].st = "open"
           \/ state[c].req = m.req /\ state[c].st = "connecting" /\ ~m.ok /\ f[c].st = "closed"
  <2> SUFFICES ASSUME NEW c \in Ours
               PROVE /\ f[c] \in StateRec /\ f[c].req = state[c].req /\ f[c].heard = state[c].heard
                     /\ f[c].got = state[c].got /\ f[c].pending = state[c].pending
                     /\ \/ f[c].st = state[c].st
                        \/ state[c].req = m.req /\ state[c].st = "connecting" /\ m.ok /\ f[c].st = "open"
                        \/ state[c].req = m.req /\ state[c].st = "connecting" /\ ~m.ok /\ f[c].st = "closed"
    OBVIOUS
  <2>1. state[c] \in StateRec BY <1>1, Entry
  <2>2. CASE state[c].req = m.req /\ state[c].st = "connecting" /\ m.ok
    <3>1. f[c] = [state[c] EXCEPT !.st = "open"] BY <1>7, <2>2
    <3> QED BY <2>1, <2>2, <3>1 DEF StateRec
  <2>3. CASE state[c].req = m.req /\ state[c].st = "connecting" /\ ~m.ok
    <3>1. f[c] = [state[c] EXCEPT !.st = "closed"] BY <1>7, <2>3
    <3> QED BY <2>1, <2>3, <3>1 DEF StateRec
  <2>4. CASE ~(state[c].req = m.req /\ state[c].st = "connecting")
    BY <1>7, <2>1, <2>4
  <2> QED BY <2>2, <2>3, <2>4
<1>10. f \in [Ours -> StateRec] BY <1>7, <1>9
<1>11. state' \in Seq(StateRec) /\ Len(state') = Len(state) /\ Ours' = Ours
  BY <1>1, <1>8, <1>10, StateMap
<1>12. UpMore /\ Ups' = Ups BY <1>1, <1>4, UpSame
<1>13. Fit'
  <2>1. waiters' \subseteq 1 .. asked' BY <1>1, <1>4, <1>6 DEF Typed
  <2> QED BY <1>1, <1>2, <1>4, <1>11, <2>1, KernelFit DEF Typed, Opened
<1>14. Keeps BY <1>8, <1>9, <1>11 DEF Keeps
<1>15. ASSUME NEW c \in Ours PROVE Sound(c)'
  <2>1. Sound(c) BY DEF Inv
  <2>2. Coming(c)' => state[c].req # m.req
    <3>1. Coming(c)' => Silent(c) BY <1>4, <1>12, <2>1, KernelComing DEF Sound
    <3> QED BY <1>2, <1>5, <1>6, <3>1 DEF Silent
  <2>3. SameItems(c) /\ state'[c].heard = state[c].heard /\ state'[c].pending = state[c].pending
        /\ state'[c].req = state[c].req
    <3>1. Have(c)' = Have(c) BY <1>8, <1>9 DEF Have
    <3> QED BY <1>8, <1>9, <3>1 DEF SameItems
  <2>4. CASE state'[c].st \in {state[c].st, "closed"}
    <3>1. Coming(c)' => state'[c].st = state[c].st BY <1>8, <1>9, <2>2
    <3>2. SameState(c) BY <2>1, <2>3, <2>4, <3>1 DEF SameState, Sound
    <3> QED BY <1>1, <1>2, <1>4, <1>12, <2>1, <3>2, KernelSoundTook
  <2>5. CASE state[c].req = m.req /\ state[c].st = "connecting" /\ m.ok /\ state'[c].st = "open"
    <3>1. ~Coming(c)' BY <2>2, <2>5
    <3>2. Opening(c)' BY <2>5 DEF Opening
    <3>3. Loss(c)'
      <4>1. table[c].st = "open" \/ ClosedAfter(c, 1)
        BY <1>2, <1>5, <1>6, <2>1, <2>5 DEF Sound, Opening
      <4>2. ClosedAfter(c, 1) => ClosedAfter(c, 0)' BY <1>1, <1>2, ClosedTook
      <4> QED BY <1>4, <4>1, <4>2 DEF Loss, host
    <3>4. Order(c)' BY <1>1, <1>2, <1>4, <2>1, <2>3, OrderTook DEF Sound, host
    <3> QED BY <2>1, <2>3, <3>1, <3>2, <3>3, <3>4 DEF Sound
  <2> QED BY <1>8, <1>9, <2>4, <2>5
<1>16. asked' >= asked BY <1>1, <1>4 DEF Typed
<1>17. down[1].req \notin waiters' BY <1>5, <1>6
<1> QED BY <1>3, <1>2, <1>6, <1>4, <1>11, <1>12, <1>13, <1>14, <1>15, <1>16, <1>17, KernelInv

LEMMA Joined ==
  ASSUME NEW s \in Seq(Nat), NEW t \in Seq(Nat), NEW n \in Nat
  PROVE  LET a == s \o t
             b == s \o Append(t, n)
         IN /\ Len(a) = Len(s) + Len(t) /\ Len(a) \in Nat /\ Len(b) = Len(a) + 1
            /\ \A i \in 1 .. Len(a) : b[i] = a[i]
            /\ b[Len(a) + 1] = n
<1>1. Len(s) \in Nat /\ Len(t) \in Nat /\ Append(t, n) \in Seq(Nat) /\ Len(Append(t, n)) = Len(t) + 1
  OBVIOUS
<1>2. s \o t \in Seq(Nat) /\ Len(s \o t) = Len(s) + Len(t) OBVIOUS
<1>3. Len(s \o Append(t, n)) = Len(s) + Len(t) + 1 BY <1>1
<1>4. \A i \in 1 .. Len(s) + Len(t) : (s \o Append(t, n))[i] = (s \o t)[i]
  BY <1>1
<1>5. (s \o Append(t, n))[Len(s) + Len(t) + 1] = n
  BY <1>1
<1> QED BY <1>1, <1>2, <1>3, <1>4, <1>5

LEMMA JoinedFirst ==
  ASSUME NEW s \in Seq(Nat), NEW n \in Nat
  PROVE  LET a == s \o <<>>
             b == Append(s, n) \o <<>>
         IN /\ Len(a) = Len(s) /\ Len(a) \in Nat /\ Len(b) = Len(a) + 1
            /\ \A i \in 1 .. Len(a) : b[i] = a[i]
            /\ b[Len(a) + 1] = n
OBVIOUS

LEMMA DataOrder ==
  ASSUME Typed, NEW c \in Ours, Order(c), Took(down, down'), down' \in Seq(DownMsg),
         down[1].type = "data", down[1].conn = c, 1 \in Downs, table'[c] = table[c],
         Have(c)' = Have(c) + 1,
         \A i \in 1 .. Have(c) : (state'[c].got \o state'[c].pending)[i] = (state[c].got \o state[c].pending)[i],
         (state'[c].got \o state'[c].pending)[Have(c) + 1] = down[1].n
  PROVE  Order(c)'
<1>1. Len(down) \in Nat /\ Len(down') \in Nat /\ Have(c) \in Nat BY Entry DEF Typed
<1>2. PICK h \in Nat : h = Have(c) BY <1>1
<1>3. PICK last \in h .. MaxData :
        /\ {down[i].n : i \in OnWay(c)} = h + 1 .. last
        /\ table[c].st = "open" => last = table[c].sent
  BY <1>2 DEF Order
<1>4. 1 \in OnWay(c) BY DEF OnWay, Downs
<1>5. \A i \in OnWay(c) : i \in 1 .. Len(down) /\ down[i].n \in h + 1 .. last BY <1>3 DEF OnWay
<1>6. \A i, j \in OnWay(c) : i < j => down[i].n < down[j].n BY DEF Order
<1>7. MaxData \in Nat /\ last \in Nat /\ h <= last /\ last <= MaxData BY <1>2, <1>3, Bounds
<1>8. down[1].n = h + 1 /\ h + 1 <= last
  <2>1. down[1].n \in h + 1 .. last BY <1>4, <1>5
  <2>2. h + 1 \in h + 1 .. last BY <1>2, <1>7, <2>1
  <2>3. PICK j \in OnWay(c) : down[j].n = h + 1
    <3>1. \A v \in h + 1 .. last : \E j \in OnWay(c) : down[j].n = v BY <1>3
    <3> QED BY <2>2, <3>1
  <2>4. j = 1
    <3>1. j = 1 \/ 1 < j BY <1>5
    <3>2. 1 < j => down[1].n < h + 1 BY <1>4, <1>6, <2>3
    <3> QED BY <1>2, <1>7, <2>1, <3>1, <3>2
  <2> QED BY <1>2, <1>7, <2>1, <2>3, <2>4
<1>9. \A i \in OnWay(c)' : i \in Nat /\ i > 0 /\ i + 1 \in OnWay(c) /\ down'[i] = down[i + 1]
  <2> SUFFICES ASSUME NEW i \in OnWay(c)'
               PROVE i \in Nat /\ i > 0 /\ i + 1 \in OnWay(c) /\ down'[i] = down[i + 1]
    OBVIOUS
  <2>1. i \in 1 .. Len(down') BY DEF OnWay
  <2>2. i + 1 \in 1 .. Len(down) /\ down'[i] = down[i + 1] BY <1>1, <2>1 DEF Took
  <2> QED BY <2>1, <2>2 DEF OnWay
<1>10. \A i \in OnWay(c) : i # 1 => i - 1 \in OnWay(c)' /\ down'[i - 1] = down[i]
  <2> SUFFICES ASSUME NEW i \in OnWay(c), i # 1 PROVE i - 1 \in OnWay(c)' /\ down'[i - 1] = down[i]
    OBVIOUS
  <2>1. i \in 1 .. Len(down) BY DEF OnWay
  <2>2. i - 1 \in 1 .. Len(down') /\ (i - 1) + 1 = i BY <1>1, <2>1 DEF Took
  <2>3. down'[i - 1] = down[i] BY <2>2 DEF Took
  <2> QED BY <2>2, <2>3 DEF OnWay
<1>11. {down'[i].n : i \in OnWay(c)'} = (h + 1) + 1 .. last
  <2>1. ASSUME NEW i \in OnWay(c)' PROVE down'[i].n \in (h + 1) + 1 .. last
    <3>1. i + 1 \in OnWay(c) /\ down'[i] = down[i + 1] /\ 1 < i + 1 BY <1>9
    <3>2. down[1].n < down[i + 1].n BY <1>4, <1>6, <3>1
    <3>3. down[i + 1].n \in h + 1 .. last BY <1>5, <3>1
    <3> QED BY <1>2, <1>7, <1>8, <3>1, <3>2, <3>3
  <2>2. ASSUME NEW v \in (h + 1) + 1 .. last PROVE \E i \in OnWay(c)' : down'[i].n = v
    <3>1. v \in h + 1 .. last /\ v # h + 1 BY <1>2, <1>7
    <3>2. PICK j \in OnWay(c) : down[j].n = v BY <1>3, <3>1
    <3>3. j # 1 BY <1>8, <3>1, <3>2
    <3> QED BY <1>10, <3>2, <3>3
  <2> QED BY <2>1, <2>2
<1>12. last \in h + 1 .. MaxData BY <1>2, <1>7, <1>8
<1>13. \A i \in 1 .. Have(c)' : (state'[c].got \o state'[c].pending)[i] = i
  <2>1. \A i \in 1 .. Have(c) : (state[c].got \o state[c].pending)[i] = i BY DEF Order
  <2>2. \A i \in 1 .. h + 1 : i \in 1 .. h \/ i = h + 1 BY <1>2
  <2> QED BY <1>2, <1>8, <2>1, <2>2
<1>14. ASSUME NEW i \in OnWay(c)', NEW j \in OnWay(c)', i < j PROVE down'[i].n < down'[j].n
  <2>1. i + 1 < j + 1 BY <1>9, <1>14
  <2> QED BY <1>6, <1>9, <2>1
<1>15. \E x \in Have(c)' .. MaxData :
        /\ {down'[i].n : i \in OnWay(c)'} = Have(c)' + 1 .. x
        /\ table'[c].st = "open" => x = table'[c].sent
  BY <1>2, <1>3, <1>11, <1>12
<1> QED BY <1>13, <1>14, <1>15 DEF Order

LEMMA HandleDataInv ==
  ASSUME Inv, HandleData
  PROVE  Inv'
<1>1. Fit /\ Typed BY DEF Inv, Fit
<1>2. /\ DownLess /\ Took(down, down') /\ down' \in Seq(DownMsg)
      /\ Head(down) = down[1] /\ down[1].type = "data" /\ 1 \in Downs /\ down # <<>>
  BY <1>1, DownTook DEF HandleData
<1>3. live # 0 BY <1>2, Lives
<1>4. UNCHANGED <<host, running>> BY DEF HandleData
<1>5. PICK m : m = down[1] OBVIOUS
<1>6. m.type = "data" /\ m.conn \in Ours /\ m.n \in Nat
  <2>1. m.conn \in Ours BY <1>2, <1>5 DEF Inv, Known, DownKnown
  <2> QED BY <1>1, <1>2, <1>5, <2>1, DownHead
<1>7. PICK f : f = [c \in Ours |->
         IF c # m.conn THEN state[c]
         ELSE IF state[c].heard
         THEN [state[c] EXCEPT !.exec = Context(c, m.exec), !.got = Append(@, m.n)]
         ELSE [state[c] EXCEPT !.exec = Context(c, m.exec), !.pending = Kept(c, m.n)]]
  OBVIOUS
<1>8. state' = f BY <1>2, <1>5, <1>7 DEF HandleData, Ours
<1>9. \A c \in Ours : Context(c, m.exec) \in Execs
  <2> SUFFICES ASSUME NEW c \in Ours PROVE Context(c, m.exec) \in Execs OBVIOUS
  <2>1. state[c] \in StateRec BY <1>1, Entry
  <2> QED BY <1>1, <2>1 DEF Context, Typed, StateRec
<1>10. \A c \in Ours : c # m.conn => f[c] = state[c] /\ f[c] \in StateRec
  <2> SUFFICES ASSUME NEW c \in Ours, c # m.conn PROVE f[c] = state[c] /\ f[c] \in StateRec OBVIOUS
  <2>1. state[c] \in StateRec BY <1>1, Entry
  <2> QED BY <1>7, <2>1
<1>11. PICK d : d = m.conn OBVIOUS
<1>12. /\ state[d] \in StateRec /\ state[d].got \in Seq(Nat) /\ state[d].pending \in Seq(Nat)
       /\ Have(d) = Len(state[d].got) + Len(state[d].pending)
       /\ state[d].heard => state[d].pending = <<>>
       /\ state[d].heard \in BOOLEAN
  BY <1>1, <1>6, <1>11, Entry DEF Inv, Sound, Have
<1>13. /\ f[d] \in StateRec /\ f[d].st = state[d].st /\ f[d].req = state[d].req
       /\ f[d].heard = state[d].heard
       /\ \/ /\ state[d].heard /\ f[d].got = Append(state[d].got, m.n)
             /\ f[d].pending = state[d].pending
          \/ /\ ~state[d].heard /\ f[d].got = state[d].got
             /\ f[d].pending = Append(state[d].pending, m.n)
  <2>1. PICK x \in Execs : x = Context(d, m.exec) BY <1>6, <1>9, <1>11
  <2>2. CASE state[d].heard
    <3>1. PICK g : g = Append(state[d].got, m.n) OBVIOUS
    <3>2. g \in Seq(Nat) BY <1>6, <1>12, <3>1
    <3>3. f[d] = [state[d] EXCEPT !.exec = x, !.got = g]
      BY <1>6, <1>7, <1>11, <2>1, <2>2, <3>1
    <3>4. /\ f[d] \in StateRec /\ f[d].st = state[d].st /\ f[d].req = state[d].req
          /\ f[d].heard = state[d].heard /\ f[d].got = g /\ f[d].pending = state[d].pending
      BY <1>12, <2>1, <3>2, <3>3 DEF StateRec
    <3> QED BY <2>2, <3>1, <3>4
  <2>3. CASE ~state[d].heard
    <3>1. PICK g : g = Append(state[d].pending, m.n) OBVIOUS
    <3>2. g \in Seq(Nat) BY <1>6, <1>12, <3>1
    <3>3. f[d] = [state[d] EXCEPT !.exec = x, !.pending = g]
      BY <1>6, <1>7, <1>11, <2>1, <2>3, <3>1 DEF Kept
    <3>4. /\ f[d] \in StateRec /\ f[d].st = state[d].st /\ f[d].req = state[d].req
          /\ f[d].heard = state[d].heard /\ f[d].pending = g /\ f[d].got = state[d].got
      BY <1>12, <2>1, <3>2, <3>3 DEF StateRec
    <3> QED BY <2>3, <3>1, <3>4
  <2> QED BY <2>2, <2>3
<1>14. f \in [Ours -> StateRec]
  <2>1. \A c \in Ours : f[c] \in StateRec BY <1>10, <1>11, <1>13
  <2> QED BY <1>7, <2>1
<1>15. state' \in Seq(StateRec) /\ Len(state') = Len(state) /\ Ours' = Ours
  BY <1>1, <1>8, <1>14, StateMap
<1>16. \/ up' = up /\ asked' = asked /\ waiters' = waiters
       \/ state[d].st = "open" /\ \E e \in Execs : Ask("write", d, e)
  <2>1. \/ UNCHANGED <<up, asked, waiters>>
        \/ \E c \in Ours : c = m.conn /\ state[c].st = "open" /\ Ask("write", c, Context(c, m.exec))
    BY <1>2, <1>5 DEF HandleData, Ours
  <2>2. CASE UNCHANGED <<up, asked, waiters>> BY <2>2
  <2>3. CASE \E c \in Ours : c = m.conn /\ state[c].st = "open" /\ Ask("write", c, Context(c, m.exec))
    BY <1>9, <1>11, <2>3
  <2> QED BY <2>1, <2>2, <2>3
<1>17. /\ UpMore /\ asked' \in 0 .. MaxRequests /\ asked' >= asked /\ waiters' \subseteq 1 .. asked'
       /\ \A i, j \in Ups' \ Ups : up'[i].type = "connect" /\ up'[j].type = "connect" => i = j
       /\ \A r \in waiters' : r \in waiters \/ \E i \in Ups' : up'[i].type # "result" /\ up'[i].req = r
  <2>1. CASE up' = up /\ asked' = asked /\ waiters' = waiters
    <3>1. UpMore /\ Ups' = Ups BY <1>1, <2>1, UpSame
    <3> QED BY <1>1, <2>1, <3>1 DEF Typed
  <2>2. CASE state[d].st = "open" /\ \E e \in Execs : Ask("write", d, e)
    <3>1. PICK e \in Execs : Ask("write", d, e) BY <2>2
    <3>2. d \in 0 .. MaxConns BY <1>1, <1>6, <1>11, OursConns DEF Conns
    <3>3. /\ asked \in Nat /\ asked' = asked + 1 /\ asked' \in 0 .. MaxRequests
          /\ waiters' = waiters \cup {asked + 1} /\ waiters' \subseteq 1 .. asked'
          /\ up' \in Seq(UpMsg) /\ Grew(up, up')
          /\ \A i \in Ups' \ Ups : /\ i = Len(up) + 1 /\ up'[i].type = "write" /\ up'[i].conn = d
                                   /\ up'[i].req = asked + 1
          /\ \E i \in Ups' : i \notin Ups
      BY <1>1, <3>1, <3>2, AskFit
    <3>4. state'[d].st # "connecting" BY <1>8, <1>13, <2>2
    <3>5. UpMore BY <1>6, <1>11, <1>15, <3>3, <3>4 DEF UpMore, Asks
    <3>6. \A r \in waiters' : r \in waiters \/ \E i \in Ups' : up'[i].type # "result" /\ up'[i].req = r
      BY <3>3
    <3> QED BY <3>3, <3>5, <3>6
  <2> QED BY <1>16, <2>1, <2>2
<1>18. Fit' BY <1>1, <1>2, <1>4, <1>15, <1>17, KernelFit DEF Typed, Opened, UpMore
<1>19. Keeps
  <2>1. \A c \in Ours : f[c].req = state[c].req /\ f[c].st = state[c].st BY <1>10, <1>11, <1>13
  <2> QED BY <1>8, <1>15, <2>1 DEF Keeps
<1>20. ASSUME NEW c \in Ours PROVE Sound(c)'
  <2>1. Sound(c) BY DEF Inv
  <2>2. CASE c # d
    <3>1. SameState(c) BY <1>8, <1>10, <1>11, <2>1, <2>2, SameEntry
    <3> QED BY <1>1, <1>2, <1>4, <1>5, <1>11, <1>17, <2>1, <2>2, <3>1, KernelSoundTook
  <2>3. CASE c = d
    <3>1. ~Coming(c)'
      <4>1. Coming(c)' => Silent(c) BY <1>4, <1>17, <2>1, KernelComing DEF Sound
      <4> QED BY <1>2, <1>5, <1>11, <2>3, <4>1 DEF Silent
    <3>2. table' = table BY <1>4 DEF host
    <3>3. Opening(c)' /\ Loss(c)' BY <1>1, <1>2, <1>8, <1>13, <2>1, <2>3, <3>2, TellsTook
    <3>4. /\ Have(c)' = Have(c) + 1
          /\ \A i \in 1 .. Have(c) :
               (state'[c].got \o state'[c].pending)[i] = (state[c].got \o state[c].pending)[i]
          /\ (state'[c].got \o state'[c].pending)[Have(c) + 1] = m.n
      <4>1. PICK g \in Seq(Nat) : g = state[c].got BY <1>12, <2>3
      <4>2. PICK p \in Seq(Nat) : p = state[c].pending BY <1>12, <2>3
      <4>3. PICK n \in Nat : n = m.n BY <1>6
      <4>4. Len(g) \in Nat /\ Len(p) \in Nat /\ Have(c) = Len(g) + Len(p)
        <5>1. Len(g) \in Nat /\ Len(p) \in Nat OBVIOUS
        <5> QED BY <1>12, <2>3, <4>1, <4>2, <5>1
      <4>5. CASE state[c].heard
        <5>1. p = <<>> BY <1>12, <2>3, <4>2, <4>5
        <5>2. state'[c].got = Append(g, n) /\ state'[c].pending = p
          BY <1>8, <1>13, <2>3, <4>1, <4>2, <4>3, <4>5
        <5>3. Len(Append(g, n)) = Len(g) + 1 /\ Len(p) = 0 BY <5>1
        <5>4. Have(c)' = (Len(g) + 1) + Len(p) BY <5>2, <5>3 DEF Have
        <5>5. /\ \A i \in 1 .. Len(g) : (Append(g, n) \o p)[i] = (g \o p)[i]
              /\ (Append(g, n) \o p)[Len(g) + 1] = n
          <6>1. Len(g \o <<>>) = Len(g) OBVIOUS
          <6> QED BY <5>1, <6>1, JoinedFirst
        <5>6. Have(c) = Len(g) /\ Have(c)' = Have(c) + 1 BY <4>4, <5>3, <5>4
        <5> QED BY <4>1, <4>2, <4>3, <5>2, <5>5, <5>6
      <4>6. CASE ~state[c].heard
        <5>1. state'[c].got = g /\ state'[c].pending = Append(p, n)
          BY <1>8, <1>13, <2>3, <4>1, <4>2, <4>3, <4>6
        <5>2. Len(Append(p, n)) = Len(p) + 1 OBVIOUS
        <5>3. Have(c)' = Len(g) + (Len(p) + 1) BY <5>1, <5>2 DEF Have
        <5>4. /\ Len(g \o p) = Len(g) + Len(p)
              /\ \A i \in 1 .. Len(g \o p) : (g \o Append(p, n))[i] = (g \o p)[i]
              /\ (g \o Append(p, n))[Len(g \o p) + 1] = n
          BY Joined
        <5>5. Have(c) = Len(g \o p) /\ Have(c)' = Have(c) + 1 BY <4>4, <5>3, <5>4
        <5> QED BY <4>1, <4>2, <4>3, <5>1, <5>4, <5>5
      <4> QED BY <4>5, <4>6
    <3>5. Order(c)'
      BY <1>1, <1>2, <1>5, <1>11, <2>1, <2>3, <3>2, <3>4, DataOrder DEF Sound
    <3>6. state'[c].heard => state'[c].pending = <<>> BY <1>8, <1>12, <1>13, <2>3
    <3> QED BY <3>1, <3>3, <3>5, <3>6 DEF Sound
  <2> QED BY <2>2, <2>3
<1> QED BY <1>2, <1>3, <1>4, <1>15, <1>17, <1>18, <1>19, <1>20, KernelInv

-----------------------------------------------------------------------------
(* Processes, and the theorems.                                            *)

LEMMA Emptied ==
  ASSUME Inv, up' = <<>> /\ down' = <<>>, running' = 0 /\ state' = <<>> /\ asked' = 0 /\ waiters' = {},
         active' = 0, table' = ClosedAll, looking' = looking, cells' = cells,
         live' \in 0 .. MaxProcs, born' \in 0 .. MaxProcs, live' <= born',
         live' # 0 => looking = {}
  PROVE  Inv'
<1>1. Typed BY DEF Inv
<1>2. <<>> \in Seq(UpMsg) /\ <<>> \in Seq(DownMsg) /\ <<>> \in Seq(StateRec) /\ Len(<<>>) = 0
  OBVIOUS
<1>3. Ours' = {} /\ Ups' = {} /\ Downs' = {} BY <1>2 DEF Ours, Ups, Downs, Opened
<1>4. table' \in [Conns -> ConnRec] /\ \A c \in Conns : table'[c] = NoConn
  BY NoRow DEF ClosedAll
<1>5. Typed'
  <2>1. 0 \in Execs /\ 0 \in 0 .. MaxRequests /\ 0 <= MaxConns BY Bounds DEF Execs
  <2> QED BY <1>1, <1>2, <1>4, <2>1 DEF Typed, Opened
<1>6. Dead' BY DEF Dead
<1>7. Known'
  BY <1>3, <1>4, NoRow DEF Known, UpKnown, JobsKnown, TableKnown, DownKnown, ReqsKnown
<1>8. Once' BY <1>3 DEF Once
<1>9. NoneSent' BY <1>4, NoRow DEF NoneSent
<1>10. NothingForgotten' BY DEF NothingForgotten
<1> QED BY <1>3, <1>5, <1>6, <1>7, <1>8, <1>9, <1>10 DEF Inv

LEMMA HandshakeInv ==
  ASSUME Inv, "slow" \notin Faults, Handshake
  PROVE  Inv'
<1>1. born + 1 \in 0 .. MaxProcs BY Bounds DEF Inv, Typed, Handshake
<1> QED BY <1>1, Emptied DEF Handshake, NewChannel, NewKernel

LEMMA ExitInv ==
  ASSUME Inv, Exit
  PROVE  Inv'
<1>1. 0 \in 0 .. MaxProcs /\ born \in 0 .. MaxProcs /\ 0 <= born BY Bounds DEF Inv, Typed
<1> QED BY <1>1, Emptied DEF Exit, NewChannel, NewKernel

LEMMA InitInv == Init => Inv
<1> SUFFICES ASSUME Init PROVE Inv OBVIOUS
<1>1. <<>> \in Seq(UpMsg) /\ <<>> \in Seq(DownMsg) /\ <<>> \in Seq(StateRec) /\ Len(<<>>) = 0
  OBVIOUS
<1>2. Ours = {} /\ Ups = {} /\ Downs = {} BY <1>1 DEF Init, Ours, Ups, Downs, Opened
<1>3. table \in [Conns -> ConnRec] /\ \A c \in Conns : table[c] = NoConn BY NoRow DEF Init
<1>4. Typed
  <2>1. 0 \in Execs /\ 0 \in 0 .. MaxRequests /\ 0 <= MaxConns /\ 0 \in 0 .. MaxProcs
    BY Bounds DEF Execs
  <2> QED BY <1>1, <1>3, <2>1 DEF Init, Typed, Opened
<1>5. Dead /\ Once /\ NothingForgotten BY DEF Init, Dead, Once, NothingForgotten
<1>6. Known
  BY <1>2, <1>3, NoRow DEF Init, Known, UpKnown, JobsKnown, TableKnown, DownKnown, ReqsKnown
<1>7. NoneSent BY <1>3, NoRow DEF NoneSent
<1> QED BY <1>2, <1>4, <1>5, <1>6, <1>7 DEF Inv

LEMMA NextInv ==
  ASSUME Inv, "slow" \notin Faults, [Next]_vars
  PROVE  Inv'
<1>1. CASE Handshake BY <1>1, HandshakeInv
<1>2. CASE Exit BY <1>2, ExitInv
<1>3. CASE Execute BY <1>3, ExecuteInv
<1>4. CASE Cell
  <2>1. CASE CreateConnection BY <2>1, CreateConnectionInv
  <2>2. CASE ListDirectory BY <2>2, ListDirectoryInv
  <2>3. CASE CellEnds BY <2>3, CellEndsInv
  <2>4. ASSUME NEW c \in 1 .. Opened, Listen(c) \/ Write(c) \/ End(c) PROVE Inv'
    <3>1. c \in Ours BY DEF Ours
    <3> QED BY <2>4, <3>1, ListenInv, WriteStateInv, EndInv
  <2> QED BY <1>4, <2>1, <2>2, <2>3, <2>4 DEF Cell
<1>5. CASE KernelReceives
  BY <1>5, HandleExecInv, HandleResponseInv, HandleDataInv, HandleClosedInv DEF KernelReceives
<1>6. CASE HostReceives
  BY <1>6, ResultInv, LookupInv, WriteInv, CloseInv DEF HostReceives
<1>7. CASE LooksUp BY <1>7, ConnectInv, ListedInv DEF LooksUp
<1>8. ASSUME NEW c \in Conns, Makes(c) \/ PeerSends(c) \/ PeerCloses(c) PROVE Inv'
  BY <1>8, ConnectedInv, VerifiedInv, ConnectFailsInv, PeerSendsInv, PeerClosesInv DEF Makes
<1>9. CASE UNCHANGED vars
  <2>1. UNCHANGED <<live, born, active, cells, table, looking, up, down, running, state, asked, waiters>>
    BY <1>9 DEF vars, host, channel, kernel
  <2>2. Typed' /\ NoneSent' /\ Dead' BY <2>1 DEF Inv, Typed, NoneSent, Dead, Opened
  <2>3. Ours' = Ours /\ Ups' = Ups /\ Downs' = Downs BY <2>1 DEF Ours, Ups, Downs, Opened
  <2>4. Known'
    BY <2>1, <2>3 DEF Inv, Known, UpKnown, JobsKnown, TableKnown, DownKnown, ReqsKnown, Plain
  <2>5. Once' BY <2>1, <2>3 DEF Inv, Once
  <2>6. NothingForgotten'
    BY <2>1, <2>3 DEF Inv, NothingForgotten, Somewhere, Making
  <2>7. ASSUME NEW c \in Ours PROVE Sound(c)'
    <3>1. Coming(c)' = Coming(c) /\ Silent(c)' = Silent(c)
      BY <2>1, <2>3 DEF Coming, Silent, Making, Have
    <3>2. ClosedAfter(c, 0)' = ClosedAfter(c, 0) /\ \A i : ClosedAfter(c, i)' = ClosedAfter(c, i)
      BY <2>1, <2>3 DEF ClosedAfter
    <3>3. Opening(c)' = Opening(c) /\ Loss(c)' = Loss(c)
      BY <2>1, <2>3, <3>2 DEF Opening, Loss
    <3>4. Order(c)' = Order(c) BY <2>1 DEF Order, OnWay, Have
    <3> QED BY <2>1, <3>1, <3>3, <3>4 DEF Inv, Sound
  <2> QED BY <2>2, <2>3, <2>4, <2>5, <2>6, <2>7 DEF Inv
<1> QED BY <1>1, <1>2, <1>3, <1>4, <1>5, <1>6, <1>7, <1>8, <1>9 DEF Next

\* The invariant holds, whatever the bounds and whatever else fails.
THEOREM PipeInvariant == ASSUME "slow" \notin Faults PROVE Spec => []Inv
<1>1. Inv /\ [Next]_vars => Inv' BY NextInv
<1> QED BY <1>1, InitInv, PTL DEF Spec

\* Every variable keeps to its type and its bound: no more connections, requests
\* or cells than are counted, and a connection has no more items than its peer sent.
THEOREM PipeType == ASSUME "slow" \notin Faults PROVE Spec => []TypeOK
<1>1. Inv => TypeOK
  <2> SUFFICES ASSUME Inv PROVE TypeOK OBVIOUS
  <2>1. Typed BY DEF Inv
  <2>2. \A c \in Conns : /\ table[c].st \in {"none", "connecting", "verifying", "open"}
                         /\ table[c].sent \in 0 .. MaxData
    BY <2>1, Row
  <2>3. ASSUME NEW c \in Ours
        PROVE  /\ state[c].st \in {"connecting", "open", "closed"}
               /\ Len(state[c].got) + Len(state[c].pending) <= MaxData
    <3>1. PICK last \in Have(c) .. MaxData : TRUE BY DEF Inv, Sound, Order
    <3>2. Have(c) \in Nat BY <2>1, Entry
    <3>3. PICK h \in Nat : h = Have(c) BY <3>2
    <3>4. h <= MaxData BY <3>1, <3>3, Bounds
    <3>5. Len(state[c].got) + Len(state[c].pending) = h BY <3>3 DEF Have
    <3> QED BY <2>1, <3>4, <3>5, Entry
  <2> QED BY <2>1, <2>2, <2>3 DEF Typed, TypeOK, Execs, Ours
<1> QED BY <1>1, PipeInvariant, PTL

\* The data of a connection reaches the code in the kernel in the order in which it
\* was sent, without a gap, whenever it begins to listen (NativePipeBroker.writeEvent,
\* createNativePipe).
THEOREM PipeInOrder == ASSUME "slow" \notin Faults PROVE Spec => []InOrder
<1>1. Inv => InOrder BY DEF Inv, Sound, Order, InOrder, Ours
<1> QED BY <1>1, PipeInvariant, PTL

\* The broker's table holds connections of the process that lives only, if no lookup
\* outlasts its process (NativePipeBroker.connect, closeAll).
THEOREM PipeOwnConnections == ASSUME "slow" \notin Faults PROVE Spec => []OwnConnections
<1>1. Inv => OwnConnections BY DEF Inv, Known, TableKnown, OwnConnections
<1> QED BY <1>1, PipeInvariant, PTL

\* A connection that the kernel believes open is open in the host, or the message that
\* it was closed is on its way (NativePipeBroker.finish).
THEOREM PipeLossReported == ASSUME "slow" \notin Faults PROVE Spec => []LossReported
<1>1. Inv => LossReported BY DEF Inv, Sound, Loss, ClosedAfter, LossReported, Ours, Downs
<1> QED BY <1>1, PipeInvariant, PTL

\* A request that the code in the kernel waits for is in a message to the host, looked
\* up, being connected, or answered on its way: it is lost nowhere.  That each of these
\* is taken in the end is fairness (EveryRequestAnswered).
THEOREM PipeNothingForgotten == ASSUME "slow" \notin Faults PROVE Spec => []NothingForgotten
<1>1. Inv => NothingForgotten BY DEF Inv
<1> QED BY <1>1, PipeInvariant, PTL
===============================================================================
