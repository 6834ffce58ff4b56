-------------------------- MODULE TransportProofs --------------------------
(***************************************************************************)
(* Proof that ActionTransport keeps the promise of Mutation, for every set *)
(* of requests and any faults.                                             *)
(*                                                                         *)
(* The invariant says that the request in flight on a link is the one that *)
(* waits for it; that a run which has not come to its action has not been  *)
(* written anywhere (Before); that a request is on the wire at most once,  *)
(* and took effect exactly when the service got to it (Wires); and that    *)
(* what a caller was told remains true (Honest).  A step of a run first    *)
(* takes it off its link (Detached), and then settles it, opens a link for *)
(* it or writes it to one: three lemmas, from which every action follows.  *)
(*                                                                         *)
(* On top of it, the types of the variables need the lane (LaneOK): the    *)
(* lane is not empty when it is advanced, because a run that has begun and *)
(* is not settled is the first in it.  NoLeak needs that only the action   *)
(* connection is open, and none while another one is opened (Tidy).        *)
(***************************************************************************)
EXTENDS ActionTransport, TLAPS

PCs == Waits \cup {"idle", "queued", "over"}
RunRec == [ pc : PCs, link : Nat, attempt : 0 .. 1, hattempt : 0 .. 1,
            cancelled : BOOLEAN, aborted : BOOLEAN,
            fired : SUBSET Reasons, cancelling : SUBSET Reasons ]
LinkRec == [ state : {"connecting", "open", "dropped", "destroyed", "closed"},
             req : Reqs \cup {NoReq}, of : Reqs,
             wire : {"none", "health", "sent", "begun", "done"} ]
Early == {"idle", "queued", "connect", "health", "reconnect"}
OnWire == {"sent", "begun", "done"}

Typed ==
  /\ run \in [Reqs -> RunRec] /\ answer \in [Reqs -> Answers] /\ ran \in [Reqs -> Nat]

Unwritten(ls, r) == \A l \in 1 .. Len(ls) : ls[l].of = r => ls[l].wire \notin OnWire

\* The request in flight on link l waits for it.
Linked(ls, rn, l) ==
  LET r == ls[l].req IN
    r # NoReq =>
      /\ ls[l].of = r /\ rn[r].link = l /\ rn[r].pc \in Waits
      /\ ls[l].state = "connecting" <=> rn[r].pc \in {"connect", "reconnect"}
      /\ rn[r].pc = "action" => ls[l].wire # "health"

Wires(ls) ==
  /\ \A l \in 1 .. Len(ls) :
       /\ ls[l].wire = "sent" => ran[ls[l].of] = 0
       /\ ls[l].wire \in {"begun", "done"} => ran[ls[l].of] = 1
  /\ \A k, l \in 1 .. Len(ls) :
       ls[k].of = ls[l].of /\ ls[k].wire \in OnWire /\ ls[l].wire \in OnWire => k = l

Before(ls, r) == ran[r] = 0 /\ Unwritten(ls, r)

LinksOK(ls) ==
  /\ ls \in Seq(LinkRec)
  /\ \A l \in 1 .. Len(ls) : ls[l].state = "connecting" => ls[l].req # NoReq
  /\ actionConnection \in 0 .. Len(ls)
  /\ actionConnection # 0 => ls[actionConnection].state # "connecting"
  /\ Wires(ls)

Waiting == \A l \in Links : Linked(link, run, l)
NotYet == \A r \in Reqs : run[r].pc \in Early => Before(link, r)

Honest ==
  \A r \in Reqs :
    /\ run[r].pc \in {"idle", "queued"} => ~run[r].cancelled
    /\ run[r].pc # "over" /\ ~run[r].cancelled => answer[r] = "none"
    /\ run[r].cancelling # {} => answer[r] = "none" /\ run[r].cancelled
    /\ Verdict(r, answer[r]) = "done" => ran[r] = 1
    /\ Verdict(r, answer[r]) = "never" => run[r].pc = "over" /\ Before(link, r)

Inv == Typed /\ LinksOK(link) /\ Waiting /\ NotYet /\ Honest

\* Request r is on none of the links ls, which are sound for the others.
Detached(ls, r) ==
  /\ LinksOK(ls)
  /\ \A l \in 1 .. Len(ls) : ls[l].req # r /\ Linked(ls, run, l)
  /\ \A q \in Reqs : Unwritten(link, q) => Unwritten(ls, q)
-----------------------------------------------------------------------------
\* What the step may do to a request, as its caller sees it.
Fair(q) ==
  \/ ran'[q] = ran[q] /\ answer'[q] = answer[q]
  \/ /\ ran[q] = 0 /\ ran'[q] = 1 /\ answer'[q] = answer[q]
     /\ Verdict(q, answer[q]) # "never"
  \/ /\ ran'[q] = ran[q] /\ answer[q] = "none" /\ answer'[q] # "none"
     /\ Verdict(q, answer'[q]) = "done" => ran[q] = 1
     /\ Verdict(q, answer'[q]) = "never" => ran[q] = 0

LEMMA PromiseStep ==
  ASSUME \A q \in Reqs : Fair(q)
  PROVE  Promise!Next
<1> SUFFICES ASSUME NEW q \in Reqs
             PROVE  Promise!Execute(q) \/ Promise!Tell(q) \/ (ran'[q] = ran[q] /\ Told'[q] = Told[q])
  BY DEF Promise!Next
<1>1. Told[q] = Verdict(q, answer[q]) /\ Told'[q] = Verdict(q, answer'[q])
  BY DEF Told, Verdict
<1>2. CASE ran'[q] = ran[q] /\ answer'[q] = answer[q]
  BY <1>1, <1>2
<1>3. CASE ran[q] = 0 /\ ran'[q] = 1 /\ answer'[q] = answer[q] /\ Verdict(q, answer[q]) # "never"
  BY <1>1, <1>3 DEF Promise!Execute
<1>4. CASE /\ ran'[q] = ran[q] /\ answer[q] = "none" /\ answer'[q] # "none"
           /\ Verdict(q, answer'[q]) = "done" => ran[q] = 1
           /\ Verdict(q, answer'[q]) = "never" => ran[q] = 0
  BY <1>1, <1>4 DEF Promise!Tell, Promise!Verdicts, Verdict
<1>5. QED
  BY <1>2, <1>3, <1>4 DEF Fair

\* A link is replaced.
LEMMA SetLink ==
  ASSUME NEW ls \in Seq(LinkRec), NEW l \in 1 .. Len(ls), NEW n \in LinkRec,
         NEW new, new = [ls EXCEPT ![l] = n]
  PROVE  /\ new \in Seq(LinkRec) /\ Len(new) = Len(ls) /\ new[l] = n
         /\ \A k \in 1 .. Len(ls) : k # l => new[k] = ls[k]
OBVIOUS

\* Links that differ in how they are closed only.
SameLinks(new, ls) ==
  /\ new \in Seq(LinkRec) /\ Len(new) = Len(ls)
  /\ \A l \in 1 .. Len(ls) :
       /\ new[l].req = ls[l].req /\ new[l].of = ls[l].of /\ new[l].wire = ls[l].wire
       /\ new[l].state = "connecting" <=> ls[l].state = "connecting"

LEMMA DroppedLinks ==
  ASSUME NEW ls, LinksOK(ls)
  PROVE  SameLinks(Dropped(ls), ls)
<1> USE DEF SameLinks
<1>1. CASE Dropped(ls) = ls
  BY <1>1 DEF LinksOK
<1>2. CASE Dropped(ls) # ls
  <2> DEFINE k == actionConnection
  <2>1. /\ k \in 1 .. Len(ls) /\ ls \in Seq(LinkRec) /\ ls[k].state # "connecting"
        /\ Dropped(ls) = [ls EXCEPT ![k].state = "dropped"]
    BY <1>2 DEF LinksOK, Dropped
  <2>2. ls[k] \in LinkRec /\ [ls[k] EXCEPT !.state = "dropped"] \in LinkRec
    <3>1. ls[k] \in LinkRec
      BY <2>1
    <3>2. QED
      BY <3>1 DEF LinkRec
  <2>3. Dropped(ls) = [ls EXCEPT ![k] = [ls[k] EXCEPT !.state = "dropped"]]
    BY <2>1
  <2>4. Dropped(ls) \in Seq(LinkRec) /\ Len(Dropped(ls)) = Len(ls)
    BY <2>1, <2>2, <2>3
  <2>5. \A l \in 1 .. Len(ls) :
          Dropped(ls)[l] = IF l = k THEN [ls[k] EXCEPT !.state = "dropped"] ELSE ls[l]
    BY <2>1, <2>3
  <2>6. QED
    BY <2>1, <2>2, <2>4, <2>5 DEF LinkRec
<1>3. QED
  BY <1>1, <1>2

\* dropActionConnection disturbs no request but the one whose step it is.
LEMMA DroppedDetached ==
  ASSUME NEW ls, NEW r \in Reqs, Detached(ls, r)
  PROVE  Detached(Dropped(ls), r) /\ (Before(ls, r) => Before(Dropped(ls), r))
<1> DEFINE D == Dropped(ls)
<1>1. LinksOK(ls)
  BY DEF Detached
<1>2. SameLinks(D, ls)
  BY <1>1, DroppedLinks
<1> HIDE DEF D
<1>3. LinksOK(D)
  <2>1. Wires(D)
    BY <1>1, <1>2 DEF LinksOK, Wires, SameLinks
  <2>2. QED
    BY <1>1, <1>2, <2>1 DEF LinksOK, SameLinks
<1>4. \A l \in 1 .. Len(D) : D[l].req # r /\ Linked(D, run, l)
  BY <1>1, <1>2 DEF Detached, Linked, SameLinks
<1>5. \A q \in Reqs : Unwritten(ls, q) => Unwritten(D, q)
  BY <1>1, <1>2 DEF Unwritten, SameLinks
<1>6. QED
  BY <1>3, <1>4, <1>5 DEF Detached, D, Before

Step == Inv' /\ Promise!Next

\* A run that is over.
LEMMA Settles ==
  ASSUME Inv, NEW r \in Reqs, NEW a \in Answers, NEW lk, Detached(lk, r),
         run[r].pc # "over", Settle(r, a), a # "none",
         link' = lk, actionConnection' \in {0, actionConnection}, ran' = ran,
         Verdict(r, a) = "done" => ran[r] = 1,
         Verdict(r, a) = "never" => Before(link, r)
  PROVE  Step
<1> USE DEF Inv
<1>1. Typed'
  <2>1. run[r] \in RunRec /\ [run[r] EXCEPT !.pc = "over"] \in RunRec
    BY DEF Typed, RunRec, PCs
  <2>2. run' = [run EXCEPT ![r] = [run[r] EXCEPT !.pc = "over"]]
    BY DEF Settle
  <2>3. run' \in [Reqs -> RunRec]
    BY <2>1, <2>2 DEF Typed
  <2>4. answer' \in [Reqs -> Answers] /\ ran' \in [Reqs -> Nat]
    BY DEF Typed, Settle
  <2>5. QED
    BY <2>3, <2>4 DEF Typed
<1>2. /\ \A q \in Reqs \ {r} : run'[q] = run[q] /\ answer'[q] = answer[q]
      /\ run'[r] = [run[r] EXCEPT !.pc = "over"]
      /\ IF run[r].cancelled THEN answer'[r] = answer[r] ELSE answer'[r] = a
  BY DEF Typed, Settle
<1>3. LinksOK(link)'
  BY DEF Detached, LinksOK, Wires
<1>4. Waiting'
  <2> SUFFICES ASSUME NEW l \in 1 .. Len(lk) PROVE Linked(lk, run', l)
    BY DEF Waiting, Links
  <2>1. lk[l] \in LinkRec
    BY DEF Detached, LinksOK
  <2>2. lk[l].req # r /\ Linked(lk, run, l) /\ lk[l].req \in Reqs \cup {NoReq}
    BY <2>1 DEF Detached, LinkRec
  <2>3. QED
    BY <1>2, <2>2 DEF Linked
<1>5. \A q \in Reqs : Before(link, q) => Before(link, q)'
  BY DEF Before, Detached, Unwritten
<1>6. NotYet'
  BY <1>2, <1>5 DEF NotYet, Early, Typed, RunRec
<1>7. Honest'
  BY <1>2, <1>5 DEF Honest, Typed, RunRec
<1>8. Promise!Next
  <2>1. run[r].cancelled \/ answer[r] = "none"
    BY DEF Honest
  <2>2. Verdict(r, a) = "never" => ran[r] = 0
    BY DEF Before
  <2>3. QED
    BY <1>2, <2>1, <2>2, PromiseStep DEF Fair
<1>9. QED
  BY <1>1, <1>3, <1>4, <1>6, <1>7, <1>8 DEF Step

\* A run that awaits a new link.
LEMMA Opens ==
  ASSUME Inv, NEW r \in Reqs, NEW lk, Detached(lk, r), Before(lk, r),
         run[r].pc # "over", NEW pc \in {"connect", "reconnect"},
         NEW attempt \in 0 .. 1, NEW hattempt \in 0 .. 1,
         Open(r, pc, attempt, hattempt, lk),
         actionConnection' \in {0, actionConnection}, ran' = ran
  PROVE  Step
<1> USE DEF Inv
<1> DEFINE n == Len(lk) + 1
<1>1. lk \in Seq(LinkRec) /\ NewLink(r) \in LinkRec
  BY DEF Detached, LinksOK, LinkRec, NewLink
<1>2. /\ link' \in Seq(LinkRec) /\ Len(link') = n /\ link'[n] = NewLink(r) /\ n \in Nat
      /\ \A l \in 1 .. Len(lk) : link'[l] = lk[l]
      /\ \A l \in 1 .. n : l \in 1 .. Len(lk) \/ l = n
  BY <1>1 DEF Open
<1>3. run' = [run EXCEPT ![r] = [@ EXCEPT !.pc = pc, !.link = n,
                                       !.attempt = attempt, !.hattempt = hattempt]]
      /\ answer' = answer
  BY DEF Open, Await
<1>4. Typed'
  <2> DEFINE new == [run[r] EXCEPT !.pc = pc, !.link = n, !.attempt = attempt,
                                   !.hattempt = hattempt]
  <2>1. new \in RunRec
    <3>1. run[r] \in RunRec /\ n \in Nat /\ pc \in PCs
      BY <1>2 DEF Typed, PCs, Waits
    <3>2. QED
      BY <3>1 DEF RunRec
  <2>2. run' = [run EXCEPT ![r] = new]
    BY <1>3
  <2> HIDE DEF new
  <2>3. run' \in [Reqs -> RunRec]
    BY <2>1, <2>2 DEF Typed
  <2>4. QED
    BY <1>3, <2>3 DEF Typed
<1>5. /\ \A q \in Reqs \ {r} : run'[q] = run[q]
      /\ run'[r].pc = pc /\ run'[r].link = n /\ run'[r].cancelled = run[r].cancelled
      /\ run'[r].cancelling = run[r].cancelling
  BY <1>3 DEF Typed, RunRec
<1>6. LinksOK(link)'
  <2>1. \A l \in 1 .. n : link'[l].state = "connecting" => link'[l].req # NoReq
    BY <1>2, TransportAssumption DEF Detached, LinksOK, NewLink
  <2>2. actionConnection' \in 0 .. n
        /\ (actionConnection' # 0 => link'[actionConnection'].state # "connecting")
    BY <1>2 DEF Detached, LinksOK
  <2>3. Wires(link)'
    <3>1. link'[n].wire = "none"
      BY <1>2 DEF NewLink
    <3>2. Wires(lk)
      BY DEF Detached, LinksOK
    <3>3. \A l \in 1 .. n : link'[l].wire # "none" => l \in 1 .. Len(lk) /\ link'[l] = lk[l]
      BY <1>2, <3>1
    <3>4. QED
      BY <1>2, <3>2, <3>3 DEF Wires, OnWire
  <2>4. QED
    BY <1>2, <2>1, <2>2, <2>3 DEF LinksOK
<1>7. Waiting'
  <2> SUFFICES ASSUME NEW l \in 1 .. n PROVE Linked(link', run', l)
    BY <1>2 DEF Waiting, Links
  <2>1. CASE l = n
    BY <2>1, <1>2, <1>5 DEF Linked, NewLink, Waits
  <2>2. CASE l \in 1 .. Len(lk)
    <3>1. lk[l] \in LinkRec
      BY <2>2, <1>1
    <3>2. lk[l].req # r /\ Linked(lk, run, l) /\ lk[l].req \in Reqs \cup {NoReq}
      BY <2>2, <3>1 DEF Detached, LinkRec
    <3>3. QED
      BY <3>2, <2>2, <1>2, <1>5 DEF Linked
  <2>3. QED
    BY <2>1, <2>2, <1>2
<1>8. \A q \in Reqs : Before(lk, q) => Before(link, q)'
  BY <1>2 DEF Before, Unwritten, NewLink, OnWire
<1>8a. \A q \in Reqs : Before(link, q) => Before(lk, q)
  BY DEF Before, Detached
<1>9. NotYet'
  BY <1>5, <1>8, <1>8a DEF NotYet
<1>10. Honest'
  <2>1. Verdict(r, answer[r]) # "never"
    BY DEF Honest
  <2>2. QED
    BY <1>3, <1>5, <1>8, <1>8a, <2>1 DEF Honest
<1>11. Promise!Next
  BY <1>3, PromiseStep DEF Fair
<1>12. QED
  BY <1>4, <1>6, <1>7, <1>9, <1>10, <1>11 DEF Step

\* A run that writes to an idle link.
LEMMA Writes ==
  ASSUME Inv, NEW r \in Reqs, NEW lk, Detached(lk, r), Before(lk, r),
         run[r].pc # "over", NEW pc, NEW what,
         (pc = "health" /\ what = "health") \/ (pc = "action" /\ what = "sent"),
         NEW attempt \in 0 .. 1, NEW hattempt \in 0 .. 1,
         NEW l \in 1 .. Len(lk), lk[l].state # "connecting", lk[l].req = NoReq,
         Await(r, pc, l, attempt, hattempt), link' = Write(r, l, what, lk),
         actionConnection' = actionConnection, ran' = ran
  PROVE  Step
<1> USE DEF Inv
<1>1. lk \in Seq(LinkRec) /\ lk[l] \in LinkRec /\ l \in Nat
  BY DEF Detached, LinksOK
<1> DEFINE w == IF lk[l].state = "destroyed" THEN "none" ELSE what
           n == [lk[l] EXCEPT !.req = r, !.of = r, !.wire = w]
<1>2. n \in LinkRec /\ n.req = r /\ n.of = r /\ n.wire = w /\ n.state = lk[l].state
  BY <1>1 DEF LinkRec
<1>3. link' = [lk EXCEPT ![l] = n]
  BY DEF Write
<1>w. w \in {"none", what}
  OBVIOUS
<1> HIDE DEF n, w
<1>4. /\ link' \in Seq(LinkRec) /\ Len(link') = Len(lk) /\ link'[l] = n
      /\ \A k \in 1 .. Len(lk) : k # l => link'[k] = lk[k]
  BY <1>1, <1>2, <1>3
<1>5. run' = [run EXCEPT ![r] = [@ EXCEPT !.pc = pc, !.link = l,
                                       !.attempt = attempt, !.hattempt = hattempt]]
      /\ answer' = answer
  BY DEF Await
<1>6. Typed'
  <2> DEFINE new == [run[r] EXCEPT !.pc = pc, !.link = l, !.attempt = attempt,
                                   !.hattempt = hattempt]
  <2>1. new \in RunRec
    BY <1>1 DEF Typed, RunRec, PCs, Waits
  <2>2. run' = [run EXCEPT ![r] = new]
    BY <1>5
  <2> HIDE DEF new
  <2>3. run' \in [Reqs -> RunRec]
    BY <2>1, <2>2 DEF Typed
  <2>4. QED
    BY <1>5, <2>3 DEF Typed
<1>7. /\ \A q \in Reqs \ {r} : run'[q] = run[q]
      /\ run'[r].pc = pc /\ run'[r].link = l /\ run'[r].cancelled = run[r].cancelled
      /\ run'[r].cancelling = run[r].cancelling
  BY <1>5 DEF Typed, RunRec
<1>8. LinksOK(link)'
  <2>1. Wires(link)'
    <3>1. Wires(lk) /\ ran[r] = 0 /\ Unwritten(lk, r)
      BY DEF Detached, LinksOK, Before
    <3>2. \A k \in 1 .. Len(lk) : k # l /\ link'[k].of = r => link'[k].wire \notin OnWire
      BY <1>4, <3>1 DEF Unwritten
    <3>3. n.wire \notin {"begun", "done"}
      BY <1>2, <1>w
    <3>4. ASSUME NEW k \in 1 .. Len(lk)
          PROVE  /\ link'[k].wire = "sent" => ran[link'[k].of] = 0
                 /\ link'[k].wire \in {"begun", "done"} => ran[link'[k].of] = 1
      <4>1. CASE k = l
        BY <4>1, <1>2, <1>4, <3>1, <3>3
      <4>2. CASE k # l
        BY <4>2, <1>4, <3>1 DEF Wires
      <4>3. QED
        BY <4>1, <4>2
    <3>5. ASSUME NEW k \in 1 .. Len(lk), NEW j \in 1 .. Len(lk),
                 link'[k].of = link'[j].of, link'[k].wire \in OnWire, link'[j].wire \in OnWire
          PROVE  k = j
      <4>1. CASE k = l \/ j = l
        BY <4>1, <3>2, <3>5, <1>2, <1>4
      <4>2. CASE k # l /\ j # l
        BY <4>2, <3>5, <1>4, <3>1 DEF Wires
      <4>3. QED
        BY <4>1, <4>2
    <3>6. QED
      BY <1>4, <3>4, <3>5 DEF Wires
  <2>2. \A k \in 1 .. Len(lk) : link'[k].state = "connecting" => link'[k].req # NoReq
    BY <1>2, <1>4 DEF Detached, LinksOK
  <2>3. actionConnection # 0 => link'[actionConnection].state # "connecting"
    BY <1>2, <1>4 DEF Detached, LinksOK
  <2>4. actionConnection' \in 0 .. Len(link')
    BY <1>4 DEF Detached, LinksOK
  <2>5. QED
    BY <1>4, <2>1, <2>2, <2>3, <2>4 DEF LinksOK
<1>9. Waiting'
  <2> SUFFICES ASSUME NEW k \in 1 .. Len(lk) PROVE Linked(link', run', k)
    BY <1>4 DEF Waiting, Links
  <2>1. CASE k = l
    BY <2>1, <1>2, <1>4, <1>7, <1>w DEF Linked, Waits
  <2>2. CASE k # l
    <3>1. lk[k] \in LinkRec
      BY <1>1
    <3>2. lk[k].req # r /\ Linked(lk, run, k) /\ lk[k].req \in Reqs \cup {NoReq}
      BY <3>1 DEF Detached, LinkRec
    <3>3. QED
      BY <3>2, <2>2, <1>4, <1>7 DEF Linked
  <2>3. QED
    BY <2>1, <2>2
<1>10. \A q \in Reqs \ {r} : Before(link, q) => Before(link, q)'
  BY <1>2, <1>4 DEF Before, Unwritten, Detached
<1>11. pc = "health" => Before(link, r)'
  BY <1>2, <1>4, <1>w DEF Before, Unwritten, OnWire
<1>12. NotYet'
  BY <1>7, <1>10, <1>11 DEF NotYet, Early
<1>13. Honest'
  <2>1. Verdict(r, answer[r]) # "never"
    BY DEF Honest
  <2>2. QED
    BY <1>5, <1>7, <1>10, <2>1 DEF Honest
<1>14. Promise!Next
  BY <1>5, PromiseStep DEF Fair
<1>15. QED
  BY <1>6, <1>8, <1>9, <1>12, <1>13, <1>14 DEF Step
-----------------------------------------------------------------------------
\* Dropping the connection and opening one, and settling with a dropped one.
LEMMA DropsAndOpens ==
  ASSUME Inv, NEW r \in Reqs, NEW ls, Detached(ls, r), Before(ls, r), run[r].pc # "over",
         NEW attempt \in 0 .. 1, NEW hattempt \in 0 .. 1,
         DropAndOpen(r, attempt, hattempt, ls), ran' = ran
  PROVE  Step
<1>1. Detached(Dropped(ls), r) /\ Before(Dropped(ls), r)
  BY DroppedDetached
<1>2. Open(r, "connect", attempt, hattempt, Dropped(ls)) /\ actionConnection' = 0
  BY DEF DropAndOpen
<1>3. QED
  BY <1>1, <1>2, Opens

LEMMA SettlesAndDrops ==
  ASSUME Inv, NEW r \in Reqs, NEW a \in Answers, NEW ls, Detached(ls, r),
         run[r].pc # "over", Settle(r, a), a # "none", Drop(ls), ran' = ran,
         Verdict(r, a) = "done" => ran[r] = 1,
         Verdict(r, a) = "never" => Before(link, r)
  PROVE  Step
<1>1. Detached(Dropped(ls), r)
  BY DroppedDetached
<1>2. link' = Dropped(ls) /\ actionConnection' \in {0, actionConnection}
  BY DEF Drop
<1>3. QED
  BY <1>1, <1>2, Settles

LEMMA SettlesAndKeeps ==
  ASSUME Inv, NEW r \in Reqs, NEW a \in Answers, NEW ls, NEW h, Detached(ls, r),
         run[r].pc # "over", Settle(r, a), a # "none", Keep(ls, h), ran' = ran,
         Verdict(r, a) = "done" => ran[r] = 1,
         Verdict(r, a) = "never" => Before(link, r)
  PROVE  Step
<1>1. link' = ls /\ actionConnection' \in {0, actionConnection}
  BY DEF Keep
<1>2. QED
  BY <1>1, Settles

LEMMA Sends ==
  ASSUME Inv, NEW r \in Reqs, NEW attempt \in 0 .. 1, NEW ls, NEW h,
         Detached(ls, r), Before(link, r), run[r].pc # "over",
         SendAction(r, attempt, ls, h), ran' = ran
  PROVE  Step
<1> DEFINE l == actionConnection
<1>1. Before(ls, r)
  BY DEF Detached, Before
<1>2. actionConnection \in 0 .. Len(ls)
      /\ (actionConnection # 0 => ls[actionConnection].state # "connecting") /\ Len(ls) \in Nat
  BY DEF Detached, LinksOK
<1>3. CASE l = 0 /\ Open(r, "reconnect", attempt, 0, ls) /\ UNCHANGED actionConnection
  BY <1>1, <1>3, Opens
<1>4. CASE DropAndOpen(r, 1, 0, ls)
  BY <1>1, <1>4, DropsAndOpens
<1>5. CASE Settle(r, "disconnected") /\ Drop(ls)
  BY <1>5, SettlesAndDrops DEF Verdict, Answers
<1>6. CASE Settle(r, "internal") /\ Keep(ls, h)
  BY <1>6, SettlesAndKeeps DEF Verdict, Answers
<1>7. CASE /\ l # 0 /\ ls[l].req = NoReq
           /\ Await(r, "action", l, attempt, 0) /\ Keep(Write(r, l, "sent", ls), h)
  BY <1>1, <1>2, <1>7, Writes DEF Keep
<1>8. QED
  BY <1>3, <1>4, <1>5, <1>6, <1>7 DEF SendAction

LEMMA Attempts ==
  ASSUME Inv, NEW r \in Reqs, NEW attempt \in 0 .. 1, Detached(link, r), Before(link, r),
         run[r].pc # "over", Attempt(r, attempt), ran' = ran
  PROVE  Step
<1> DEFINE l == actionConnection
<1>1. actionConnection \in 0 .. Len(link)
      /\ (actionConnection # 0 => link[actionConnection].state # "connecting") /\ Len(link) \in Nat
  BY DEF Detached, LinksOK
<1>2. CASE SendAction(r, attempt, link, health)
  BY <1>2, Sends
<1>3. CASE DropAndOpen(r, attempt, 1, link)
  BY <1>3, DropsAndOpens
<1>4. CASE Settle(r, "internal") /\ Drop(link)
  BY <1>4, SettlesAndDrops DEF Verdict, Answers
<1>5. CASE /\ l # 0 /\ ~Busy(l)
           /\ Await(r, "health", l, attempt, 0) /\ Keep(Write(r, l, "health", link), health)
  BY <1>1, <1>5, Writes DEF Keep, Busy
<1>6. CASE Open(r, "connect", attempt, 0, link) /\ UNCHANGED actionConnection
  BY <1>6, Opens
<1>7. QED
  BY <1>2, <1>3, <1>4, <1>5, <1>6 DEF Attempt

\* A step that takes no run from one await to another.
LEMMA Marks ==
  ASSUME Inv, Typed', SameLinks(link', link), actionConnection' \in {0, actionConnection},
         ran' = ran,
         \A q \in Reqs :
           /\ run'[q].link = run[q].link
           /\ \/ run'[q].pc = run[q].pc
              \/ run[q].pc \in {"idle", "queued"} /\ run'[q].pc \in {"idle", "queued", "over"}
           /\ run'[q].pc \in {"idle", "queued"} => ~run'[q].cancelled
           /\ run'[q].pc # "over" /\ ~run'[q].cancelled => answer'[q] = "none"
           /\ run'[q].cancelling # {} => answer'[q] = "none" /\ run'[q].cancelled
           /\ \/ answer'[q] = answer[q]
              \/ /\ answer[q] = "none" /\ answer'[q] # "none"
                 /\ Verdict(q, answer'[q]) = "unknown"
  PROVE  Step
<1> USE DEF Inv
<1>1. Len(link') = Len(link)
  BY DEF SameLinks
<1>2. LinksOK(link)'
  <2>1. Wires(link')
    BY DEF LinksOK, Wires, SameLinks
  <2>2. Wires(link)'
    BY <2>1 DEF Wires
  <2>3. QED
    BY <1>1, <2>2 DEF LinksOK, SameLinks
<1>3. Waiting'
  <2> SUFFICES ASSUME NEW l \in Links PROVE Linked(link', run', l)
    BY <1>1 DEF Waiting, Links
  <2>1. Linked(link, run, l) /\ link[l] \in LinkRec
    BY DEF Waiting, LinksOK, Links
  <2>2. link[l].req \in Reqs \cup {NoReq}
    BY <2>1 DEF LinkRec
  <2>3. QED
    BY <2>1, <2>2 DEF Linked, SameLinks, Waits, Links
<1>4. \A q \in Reqs : Before(link, q) => Before(link, q)'
  BY DEF Before, Unwritten, SameLinks
<1>5. NotYet'
  BY <1>4 DEF NotYet, Early
<1>6. Honest'
  <2> SUFFICES ASSUME NEW q \in Reqs
               PROVE  /\ Verdict(q, answer'[q]) = "done" => ran[q] = 1
                      /\ Verdict(q, answer'[q]) = "never" =>
                           run'[q].pc = "over" /\ Before(link, q)'
    BY DEF Honest
  <2>1. answer'[q] = answer[q] \/ Verdict(q, answer'[q]) = "unknown"
    OBVIOUS
  <2>2. QED
    BY <1>4, <2>1 DEF Honest
<1>7. Promise!Next
  <2>1. \A q \in Reqs : Fair(q)
    BY DEF Fair
  <2>2. QED
    BY <2>1, PromiseStep
<1>8. QED
  BY <1>2, <1>3, <1>5, <1>6, <1>7 DEF Step

LEMMA SameAsIs ==
  ASSUME Inv PROVE SameLinks(link, link) /\ SameLinks(Dropped(link), link)
BY DroppedLinks DEF SameLinks, Inv, LinksOK

\* The request of a link is taken off it.
TakenOff(l, s, w) == [link EXCEPT ![l] = [@ EXCEPT !.state = s, !.req = NoReq, !.wire = w]]

LEMMA Detaches ==
  ASSUME Inv, NEW l \in Links, Busy(l), NEW ls,
         NEW s \in {"open", "destroyed", "closed"}, NEW w \in {link[l].wire, "none"},
         ls = TakenOff(l, s, w)
  PROVE  /\ link[l].req \in Reqs /\ link[l].of = link[l].req
         /\ run[link[l].req].pc \in Waits /\ run[link[l].req].pc # "over"
         /\ Detached(ls, link[l].req)
         /\ ls[l].wire = w /\ ls[l].of = link[l].of /\ Len(ls) = Len(link)
         /\ \A k \in Links : k # l => ls[k] = link[k]
<1> DEFINE r == link[l].req
           n == [link[l] EXCEPT !.state = s, !.req = NoReq, !.wire = w]
<1>1. link \in Seq(LinkRec) /\ link[l] \in LinkRec /\ l \in 1 .. Len(link)
  BY DEF Inv, LinksOK, Links
<1>2. /\ n \in LinkRec /\ n.of = link[l].of /\ n.req = NoReq /\ n.wire = w /\ n.state = s
      /\ r \in Reqs \cup {NoReq}
  BY <1>1 DEF LinkRec
<1>3. ls = [link EXCEPT ![l] = n]
  BY DEF TakenOff
<1> HIDE DEF n
<1>4. /\ ls \in Seq(LinkRec) /\ Len(ls) = Len(link) /\ ls[l] = n
      /\ \A k \in Links : k # l => ls[k] = link[k]
  <2>1. /\ ls \in Seq(LinkRec) /\ Len(ls) = Len(link) /\ ls[l] = n
        /\ \A k \in 1 .. Len(link) : k # l => ls[k] = link[k]
    BY <1>1, <1>2, <1>3, SetLink
  <2>2. QED
    BY <2>1 DEF Links
<1> USE DEF Inv
<1>5. r \in Reqs /\ r # NoReq /\ Linked(link, run, l)
  BY <1>2, TransportAssumption DEF Busy, Waiting
<1>6. link[l].of = r /\ run[r].pc \in Waits /\ run[r].link = l
  BY <1>5 DEF Linked
<1>7. \A k \in Links : ls[k].req # r /\ Linked(ls, run, k)
  <2> SUFFICES ASSUME NEW k \in Links PROVE ls[k].req # r /\ Linked(ls, run, k)
    OBVIOUS
  <2>1. CASE k = l
    BY <2>1, <1>2, <1>4, <1>5 DEF Linked
  <2>2. CASE k # l
    <3>1. Linked(link, run, k) /\ ls[k] = link[k]
      BY <2>2, <1>4 DEF Waiting
    <3>2. link[k].req # r
      BY <3>1, <2>2, <1>5, <1>6 DEF Linked
    <3>3. QED
      BY <3>1, <3>2 DEF Linked
  <2>3. QED
    BY <2>1, <2>2
<1>8. LinksOK(ls)
  <2>1. Wires(ls)
    <3>1. \A k \in Links : ls[k].of = link[k].of /\ ls[k].wire \in {link[k].wire, "none"}
      BY <1>2, <1>4
    <3>2. Wires(link)
      BY DEF LinksOK
    <3>3. QED
      BY <1>4, <3>1, <3>2 DEF Wires, OnWire, Links
  <2>2. \A k \in 1 .. Len(ls) : ls[k].state = "connecting" => ls[k].req # NoReq
    BY <1>2, <1>4 DEF LinksOK, Links
  <2>3. actionConnection \in 0 .. Len(ls)
        /\ (actionConnection # 0 => ls[actionConnection].state # "connecting")
    BY <1>2, <1>4 DEF LinksOK, Links
  <2>4. QED
    BY <1>4, <2>1, <2>2, <2>3 DEF LinksOK
<1>9. \A q \in Reqs : Unwritten(link, q) => Unwritten(ls, q)
  BY <1>2, <1>4 DEF Unwritten, Links, OnWire
<1>10. Detached(ls, r)
  BY <1>4, <1>7, <1>8, <1>9 DEF Detached, Links
<1>11. QED
  BY <1>2, <1>4, <1>5, <1>6, <1>10 DEF Waits
-----------------------------------------------------------------------------
\* What the callers do.
LEMMA RequestStep ==
  ASSUME Inv, NEW r \in Reqs, Request(r) PROVE Step
<1>1. run[r] \in RunRec /\ [run[r] EXCEPT !.pc = "queued"] \in RunRec
  BY DEF Inv, Typed, RunRec, PCs
<1>2. run' = [run EXCEPT ![r] = [run[r] EXCEPT !.pc = "queued"]] /\ run[r].pc = "idle"
  BY DEF Request
<1>3. /\ \A q \in Reqs \ {r} : run'[q] = run[q]
      /\ run'[r] = [run[r] EXCEPT !.pc = "queued"]
  BY <1>2 DEF Inv, Typed
<1>4. Typed'
  BY <1>1, <1>2 DEF Inv, Typed, Request
<1>5. QED
  BY <1>1, <1>2, <1>3, <1>4, SameAsIs, Marks DEF Request, RunRec, Inv, Honest

LEMMA CancelStep ==
  ASSUME Inv, NEW r \in Reqs, NEW reason \in Reasons, answer[r] = "none",
         run[r].pc # "idle", CancelAndReject(r, reason), ran' = ran
  PROVE  Step
<1>1. run \in [Reqs -> RunRec] /\ run[r] \in RunRec /\ reason \in Reasons
  BY DEF Inv, Typed
<1>2. answer' = answer /\ \A q \in Reqs \ {r} : run'[q] = run[q]
  BY <1>1 DEF CancelAndReject
<1>3. /\ run'[r].pc = (IF run[r].pc = "queued" THEN "over" ELSE run[r].pc)
      /\ run'[r].cancelled /\ run'[r].link = run[r].link
  BY <1>1 DEF CancelAndReject, RunRec
<1>4. run' \in [Reqs -> RunRec]
  <2> DEFINE p == IF run[r].pc = "queued" THEN "over" ELSE run[r].pc
             f == run[r].fired \cup {reason}
             c == run[r].cancelling \cup {reason}
  <2>1. run' = [run EXCEPT ![r].pc = p, ![r].cancelled = TRUE, ![r].fired = f,
                           ![r].cancelling = c]
    BY DEF CancelAndReject
  <2>2. p \in PCs /\ f \in SUBSET Reasons /\ c \in SUBSET Reasons
    BY <1>1 DEF RunRec, PCs
  <2> HIDE DEF p, f, c
  <2>3. QED
    BY <1>1, <2>1, <2>2 DEF RunRec
<1>5. Typed'
  BY <1>2, <1>4 DEF Inv, Typed, CancelAndReject
<1>6. SameLinks(link', link) /\ actionConnection' \in {0, actionConnection}
  BY SameAsIs DEF CancelAndReject, Drop
<1>7. QED
  <2> SUFFICES ASSUME NEW q \in Reqs
               PROVE
           /\ run'[q].link = run[q].link
           /\ \/ run'[q].pc = run[q].pc
              \/ run[q].pc \in {"idle", "queued"} /\ run'[q].pc \in {"idle", "queued", "over"}
           /\ run'[q].pc \in {"idle", "queued"} => ~run'[q].cancelled
           /\ run'[q].pc # "over" /\ ~run'[q].cancelled => answer'[q] = "none"
           /\ run'[q].cancelling # {} => answer'[q] = "none" /\ run'[q].cancelled
           /\ answer'[q] = answer[q]
    BY <1>5, <1>6, Marks
  <2>1. CASE q = r
    BY <2>1, <1>2, <1>3
  <2>2. CASE q # r
    BY <2>2, <1>2 DEF Inv, Honest
  <2>3. QED
    BY <2>1, <2>2

LEMMA BeginStep ==
  ASSUME Inv, NEW r \in Reqs, Begin(r) PROVE Step
<1>1. run[r].pc = "queued" /\ ran' = ran
  BY DEF Begin
<1>2. answer[r] = "none" /\ Before(link, r)
  BY <1>1 DEF Inv, Honest, NotYet, Early
<1>3. Detached(link, r)
  BY <1>1, TransportAssumption DEF Inv, Detached, Waiting, Linked, Waits, Links
<1>4. CASE CancelAndReject(r, "cancelled")
  BY <1>1, <1>2, <1>4, CancelStep DEF Reasons
<1>5. CASE Attempt(r, 0)
  BY <1>1, <1>2, <1>3, <1>5, Attempts
<1>6. CASE Unfit(r)
  BY <1>1, <1>2, <1>3, <1>6, SettlesAndKeeps DEF Unfit, Verdict, Answers
<1>7. QED
  BY <1>4, <1>5, <1>6 DEF Begin

LEMMA AbortStep ==
  ASSUME Inv, NEW r \in Reqs, Abort(r) PROVE Step
<1>1. CASE CancelAndReject(r, "cancelled") /\ run[r].pc \notin {"idle", "queued"}
  BY <1>1, CancelStep DEF Abort, Reasons
<1>2. CASE /\ run' = [run EXCEPT ![r].aborted = TRUE]
           /\ UNCHANGED <<lane, answer, link, actionConnection, health>>
  <2>1. run[r] \in RunRec /\ [run[r] EXCEPT !.aborted = TRUE] \in RunRec
    BY DEF Inv, Typed, RunRec
  <2>2. run' = [run EXCEPT ![r] = [run[r] EXCEPT !.aborted = TRUE]]
    BY <1>2
  <2>3. /\ \A q \in Reqs \ {r} : run'[q] = run[q]
        /\ run'[r] = [run[r] EXCEPT !.aborted = TRUE]
    BY <2>2 DEF Inv, Typed
  <2>4. Typed'
    BY <1>2, <2>1, <2>2 DEF Inv, Typed, Abort
  <2>5. QED
    BY <1>2, <2>1, <2>3, <2>4, SameAsIs, Marks DEF Abort, RunRec, Inv, Honest
<1>3. QED
  BY <1>1, <1>2 DEF Abort

LEMMA CancelledStep ==
  ASSUME Inv, NEW r \in Reqs, NEW reason \in Reasons, Cancelled(r, reason) PROVE Step
<1>1. run[r] \in RunRec /\ [run[r] EXCEPT !.cancelling = {}] \in RunRec
  BY DEF Inv, Typed, RunRec
<1>2. run' = [run EXCEPT ![r] = [run[r] EXCEPT !.cancelling = {}]]
  BY DEF Cancelled
<1>3. /\ \A q \in Reqs \ {r} : run'[q] = run[q]
      /\ run'[r] = [run[r] EXCEPT !.cancelling = {}]
  BY <1>2 DEF Inv, Typed
<1>4. PICK a \in {reason, "cancel_failed"} : answer' = [answer EXCEPT ![r] = a]
  BY DEF Cancelled
<1>5. a \in Answers /\ a # "none" /\ Verdict(r, a) = "unknown"
  BY DEF Answers, Reasons, Verdict
<1>6. answer'[r] = a /\ \A q \in Reqs \ {r} : answer'[q] = answer[q]
  BY <1>4 DEF Inv, Typed
<1>7. Typed'
  BY <1>1, <1>2, <1>4, <1>5 DEF Inv, Typed, Cancelled
<1>8. run[r].cancelled /\ answer[r] = "none"
  BY DEF Cancelled, Inv, Honest
<1>9. QED
  BY <1>1, <1>3, <1>5, <1>6, <1>7, <1>8, SameAsIs, Marks DEF Cancelled, RunRec, Inv, Honest

\* A step that leaves runs, answers and effects alone.
LEMMA LinkStep ==
  ASSUME Inv, SameLinks(link', link), actionConnection' \in {0, actionConnection},
         UNCHANGED <<run, answer, ran>>
  PROVE  Step
<1>1. Typed'
  BY DEF Inv, Typed
<1>2. QED
  BY <1>1, Marks DEF Inv, Honest
-----------------------------------------------------------------------------
\* What the network does.
LEMMA ConnectFailsStep ==
  ASSUME Inv, NEW l \in Links, ConnectFails(l) PROVE Step
<1> DEFINE r == link[l].req
           gone == [link EXCEPT ![l] = [@ EXCEPT !.state = "closed", !.req = NoReq]]
<1>1. Busy(l)
  BY DEF ConnectFails, Inv, LinksOK, Links, Busy
<1>2. link[l] \in LinkRec /\ link \in Seq(LinkRec)
  BY DEF Inv, LinksOK, Links
<1>3. gone = TakenOff(l, "closed", link[l].wire)
  BY <1>2 DEF LinkRec, TakenOff
<1>4. r \in Reqs /\ Detached(gone, r) /\ run[r].pc # "over"
  BY <1>1, <1>3, Detaches
<1>5. run[r].pc \in {"connect", "reconnect"}
  BY <1>1 DEF ConnectFails, Inv, Waiting, Linked, Busy
<1>6. Before(link, r) /\ Before(gone, r)
  BY <1>4, <1>5 DEF Inv, NotYet, Early, Before, Detached
<1>7. run[r].attempt \in 0 .. 1 /\ ran' = ran
  BY <1>4 DEF Inv, Typed, RunRec, ConnectFails
<1> HIDE DEF gone
<1>8. CASE DropAndOpen(r, run[r].attempt, 1, gone)
  BY <1>4, <1>6, <1>7, <1>8, DropsAndOpens
<1>9. CASE DropAndOpen(r, 1, 0, gone)
  BY <1>4, <1>6, <1>7, <1>9, DropsAndOpens
<1>10. CASE Settle(r, "restart") /\ Drop(gone)
  BY <1>4, <1>6, <1>7, <1>10, SettlesAndDrops DEF Verdict, Answers
<1>11. QED
  BY <1>8, <1>9, <1>10 DEF ConnectFails, gone

LEMMA HealthReplyStep ==
  ASSUME Inv, NEW l \in Links, HealthReply(l) PROVE Step
<1> DEFINE r == link[l].req
           ls == Answered(l)
<1>1. Busy(l) /\ link[l].state = "open" /\ link[l].wire = "health" /\ ran' = ran
  BY DEF HealthReply
<1>2. link[l] \in LinkRec /\ link \in Seq(LinkRec)
  BY DEF Inv, LinksOK, Links
<1>3. ls = TakenOff(l, "open", "none")
  BY <1>1, <1>2 DEF LinkRec, Answered, TakenOff
<1>4. r \in Reqs /\ Detached(ls, r) /\ run[r].pc # "over" /\ run[r].pc \in Waits
  BY <1>1, <1>3, Detaches
<1>5. run[r].pc = "health"
  BY <1>1, <1>4 DEF Inv, Waiting, Linked, Busy, Waits
<1>6. Before(link, r)
  BY <1>4, <1>5 DEF Inv, NotYet, Early
<1>7. run[r].attempt \in 0 .. 1
  BY <1>4 DEF Inv, Typed, RunRec
<1> HIDE DEF ls
<1>8. CASE SendAction(r, run[r].attempt, ls, TRUE)
  BY <1>1, <1>4, <1>6, <1>7, <1>8, Sends
<1>9. CASE Settle(r, "error") /\ Drop(ls)
  BY <1>1, <1>4, <1>9, SettlesAndDrops DEF Verdict, Answers
<1>10. CASE Settle(r, "error") /\ Keep(ls, TRUE)
  BY <1>1, <1>4, <1>10, SettlesAndKeeps DEF Verdict, Answers
<1>11. QED
  BY <1>8, <1>9, <1>10 DEF HealthReply, ls

LEMMA ActionReplyStep ==
  ASSUME Inv, NEW l \in Links, ActionReply(l) PROVE Step
<1> DEFINE r == link[l].req
           ls == Answered(l)
<1>1. Busy(l) /\ link[l].state = "open" /\ ran' = ran
  BY DEF ActionReply
<1>2. link[l] \in LinkRec /\ link \in Seq(LinkRec)
  BY DEF Inv, LinksOK, Links
<1>3. ls = TakenOff(l, "open", "none")
  BY <1>1, <1>2 DEF LinkRec, Answered, TakenOff
<1>4. /\ r \in Reqs /\ link[l].of = r /\ run[r].pc # "over" /\ Detached(ls, r)
      /\ ls[l].wire = "none" /\ Len(ls) = Len(link)
      /\ \A k \in Links : k # l => ls[k] = link[k]
  <2> HIDE DEF ls
  <2>1. "none" \in {link[l].wire, "none"} /\ "open" \in {"open", "destroyed", "closed"}
    OBVIOUS
  <2>2. QED
    BY <1>1, <1>3, <2>1, Detaches
<1> HIDE DEF ls
<1>5. CASE link[l].wire = "done" /\ Settle(r, "ok") /\ Keep(ls, health)
  <2>1. ran[r] = 1
    BY <1>4, <1>5 DEF Inv, LinksOK, Wires, Links
  <2>2. QED
    BY <1>1, <1>4, <1>5, <2>1, SettlesAndKeeps DEF Verdict, Answers
<1>6. CASE Settle(r, "error") /\ Keep(ls, health)
  BY <1>1, <1>4, <1>6, SettlesAndKeeps DEF Verdict, Answers
<1>7. CASE link[l].wire = "sent" /\ DropAndOpen(r, 1, 0, ls)
  <2>1. ran[r] = 0
    BY <1>4, <1>7 DEF Inv, LinksOK, Wires, Links
  <2>2. \A k \in Links : k # l /\ link[k].of = r => link[k].wire \notin OnWire
    BY <1>4, <1>7 DEF Inv, LinksOK, Wires, Links, OnWire
  <2>3. Before(ls, r)
    BY <1>4, <2>1, <2>2 DEF Before, Unwritten, Links, OnWire
  <2>4. QED
    BY <1>1, <1>4, <1>7, <2>3, DropsAndOpens
<1>8. QED
  BY <1>5, <1>6, <1>7 DEF ActionReply, ls

LEMMA GarbledReplyStep ==
  ASSUME Inv, NEW l \in Links, GarbledReply(l) PROVE Step
<1> DEFINE r == link[l].req
           ls == [link EXCEPT ![l] = [@ EXCEPT !.state = "destroyed", !.req = NoReq]]
<1>1. Busy(l) /\ ran' = ran
  BY DEF GarbledReply
<1>2. link[l] \in LinkRec /\ link \in Seq(LinkRec)
  BY DEF Inv, LinksOK, Links
<1>3. ls = TakenOff(l, "destroyed", link[l].wire)
  BY <1>2 DEF LinkRec, TakenOff
<1>4. r \in Reqs /\ run[r].pc # "over" /\ Detached(ls, r)
  BY <1>1, <1>3, Detaches
<1> HIDE DEF ls
<1>5. CASE Settle(r, "error") /\ Drop(ls)
  BY <1>1, <1>4, <1>5, SettlesAndDrops DEF Verdict, Answers
<1>6. CASE Settle(r, "error") /\ Keep(ls, health)
  BY <1>1, <1>4, <1>6, SettlesAndKeeps DEF Verdict, Answers
<1>7. QED
  BY <1>5, <1>6 DEF GarbledReply, ls

LEMMA ClosedStep ==
  ASSUME Inv, NEW l \in Links, link[l].state # "connecting", Closed(l) PROVE Step
<1> DEFINE r == link[l].req
           ls == [link EXCEPT ![l] = [@ EXCEPT !.state = "closed", !.req = NoReq]]
<1>1. link[l] \in LinkRec /\ link \in Seq(LinkRec) /\ ran' = ran
  BY DEF Inv, LinksOK, Links, Closed
<1>2. CASE ~Busy(l) /\ Keep(ls, health) /\ UNCHANGED <<lane, run, answer>>
  <2> DEFINE n == [link[l] EXCEPT !.state = "closed", !.req = NoReq]
  <2>1. /\ n \in LinkRec /\ n.req = link[l].req /\ n.of = link[l].of
        /\ n.wire = link[l].wire /\ n.state # "connecting"
    BY <1>1, <1>2 DEF LinkRec, Busy
  <2>2. link' = [link EXCEPT ![l] = n]
    BY <1>2 DEF Keep
  <2> HIDE DEF n
  <2>3. l \in 1 .. Len(link) /\ l \in Nat
    BY <1>1 DEF Links
  <2>4. /\ link' \in Seq(LinkRec) /\ Len(link') = Len(link) /\ link'[l] = n
        /\ \A k \in 1 .. Len(link) : k # l => link'[k] = link[k]
    BY <1>1, <2>1, <2>2, <2>3
  <2>5. SameLinks(link', link)
    BY <2>1, <2>4 DEF SameLinks
  <2>6. QED
    BY <1>1, <1>2, <2>5, LinkStep DEF Keep
<1>3. CASE Busy(l) /\ Drop(ls) /\ Settle(r, Lost(r))
  <2>1. ls = TakenOff(l, "closed", link[l].wire)
    BY <1>1 DEF LinkRec, TakenOff
  <2>2. r \in Reqs /\ run[r].pc # "over" /\ Detached(ls, r)
    BY <1>3, <2>1, Detaches
  <2>3. Lost(r) \in Answers /\ Lost(r) # "none" /\ Verdict(r, Lost(r)) # "done"
    BY DEF Lost, Answers, Verdict
  <2>4. Verdict(r, Lost(r)) = "never" => Before(link, r)
    BY <2>2 DEF Lost, Verdict, Inv, NotYet, Early
  <2> HIDE DEF ls
  <2>5. QED
    BY <1>1, <1>3, <2>2, <2>3, <2>4, SettlesAndDrops
<1>4. QED
  BY <1>2, <1>3 DEF Closed

LEMMA ConnectedStep ==
  ASSUME Inv, NEW l \in Links, Connected(l) PROVE Step
<1> DEFINE r == link[l].req
           w == IF run[r].pc = "connect" THEN "health" ELSE "sent"
           p == IF run[r].pc = "connect" THEN "health" ELSE "action"
           n == [link[l] EXCEPT !.state = "open", !.wire = w]
           new == [run[r] EXCEPT !.pc = p]
<1>1. link \in Seq(LinkRec) /\ link[l] \in LinkRec /\ l \in 1 .. Len(link)
  BY DEF Inv, LinksOK, Links
<1>2. /\ r \in Reqs /\ link[l].of = r /\ run[r].link = l
      /\ run[r].pc \in {"connect", "reconnect"}
  <2>1. r # NoReq /\ link[l].state = "connecting"
    BY DEF Connected, Inv, LinksOK, Links
  <2>2. QED
    BY <1>1, <2>1 DEF LinkRec, Inv, Waiting, Linked
<1>3. Before(link, r) /\ run[r] \in RunRec
  BY <1>2 DEF Inv, NotYet, Early, Typed
<1>4. /\ n \in LinkRec /\ n.req = r /\ n.of = r /\ n.wire = w /\ n.state = "open"
  BY <1>1, <1>2 DEF LinkRec
<1>5. /\ new \in RunRec /\ new.pc = p /\ new.link = l /\ new.cancelled = run[r].cancelled
      /\ new.cancelling = run[r].cancelling
  BY <1>2, <1>3 DEF RunRec, PCs, Waits
<1>6. /\ link' = [link EXCEPT ![l] = n] /\ run' = [run EXCEPT ![r] = new]
      /\ actionConnection' = l /\ answer' = answer /\ ran' = ran
  BY <1>2 DEF Connected
<1>7. (w = "health" /\ p = "health") \/ (w = "sent" /\ p = "action")
  OBVIOUS
<1> HIDE DEF n, new, w, p
<1>8. /\ link' \in Seq(LinkRec) /\ Len(link') = Len(link) /\ link'[l] = n
      /\ \A k \in 1 .. Len(link) : k # l => link'[k] = link[k]
  BY <1>1, <1>4, <1>6, SetLink
<1>9. (\A q \in Reqs \ {r} : run'[q] = run[q]) /\ run'[r] = new
  BY <1>2, <1>6 DEF Inv, Typed
<1>10. Typed'
  BY <1>5, <1>6 DEF Inv, Typed
<1>11. LinksOK(link)'
  <2>1. \A k \in 1 .. Len(link) : link[k].of = r => link[k].wire \notin OnWire
    BY <1>3 DEF Before, Unwritten
  <2>2. Wires(link)'
    BY <1>3, <1>4, <1>6, <1>7, <1>8, <2>1 DEF Inv, LinksOK, Wires, OnWire, Before
  <2>3. QED
    BY <1>1, <1>2, <1>4, <1>6, <1>8, <2>2, TransportAssumption DEF Inv, LinksOK
<1>12. Waiting'
  <2> SUFFICES ASSUME NEW k \in 1 .. Len(link) PROVE Linked(link', run', k)
    BY <1>8 DEF Waiting, Links
  <2>1. CASE k = l
    BY <2>1, <1>4, <1>5, <1>7, <1>8, <1>9 DEF Linked, Waits
  <2>2. CASE k # l
    <3>1. Linked(link, run, k) /\ link'[k] = link[k] /\ link[k] \in LinkRec
      BY <2>2, <1>1, <1>8 DEF Inv, Waiting, Links
    <3>2. link[k].req # r
      BY <3>1, <2>2, <1>2, TransportAssumption DEF Linked
    <3>3. QED
      BY <3>1, <3>2, <1>9 DEF Linked, LinkRec
  <2>3. QED
    BY <2>1, <2>2
<1>13. \A q \in Reqs : Before(link, q) /\ (q # r \/ p = "health") => Before(link, q)'
  BY <1>3, <1>4, <1>6, <1>7, <1>8 DEF Before, Unwritten, OnWire
<1>14. NotYet'
  BY <1>2, <1>3, <1>5, <1>7, <1>9, <1>13 DEF Inv, NotYet, Early
<1>15. Verdict(r, answer[r]) \notin {"done", "never"}
  BY <1>2, <1>3 DEF Inv, Honest, Before
<1>16. Honest'
  <2> DEFINE Fine(q) == /\ run'[q].pc \in {"idle", "queued"} => ~run'[q].cancelled
                        /\ run'[q].pc # "over" /\ ~run'[q].cancelled => answer[q] = "none"
                        /\ run'[q].cancelling # {} => answer[q] = "none" /\ run'[q].cancelled
                        /\ Verdict(q, answer[q]) = "done" => ran[q] = 1
                        /\ Verdict(q, answer[q]) = "never" => run'[q].pc = "over"
  <2>1. Fine(r)
    BY <1>2, <1>5, <1>7, <1>9, <1>15 DEF Inv, Honest
  <2>2. \A q \in Reqs \ {r} : Fine(q)
    BY <1>9 DEF Inv, Honest
  <2>3. \A q \in Reqs : Verdict(q, answer[q]) = "never" => Before(link, q)'
    BY <1>13, <1>15 DEF Inv, Honest
  <2>4. QED
    BY <1>6, <2>1, <2>2, <2>3 DEF Honest
<1>17. Promise!Next
  BY <1>6, PromiseStep DEF Fair
<1>18. QED
  BY <1>10, <1>11, <1>12, <1>14, <1>16, <1>17 DEF Step, Inv

\* The service works on what was written on link l, for request q.
ServiceWorks(l, q, w, b) ==
  /\ q = link[l].of
  /\ link' = [link EXCEPT ![l].wire = w] /\ ran' = [ran EXCEPT ![q] = @ + b]
  /\ UNCHANGED <<run, answer, actionConnection>>
  /\ \/ link[l].wire = "sent" /\ w = "begun" /\ b = 1
     \/ link[l].wire = "begun" /\ w = "done" /\ b = 0

LEMMA ServiceStep ==
  ASSUME Inv, NEW l \in Links, NEW w, NEW b \in {0, 1}, NEW q \in Reqs,
         ServiceWorks(l, q, w, b)
  PROVE  Step
<1> DEFINE n == [link[l] EXCEPT !.wire = w]
<1>1. link \in Seq(LinkRec) /\ link[l] \in LinkRec /\ l \in 1 .. Len(link)
  BY DEF Inv, LinksOK, Links
<1>2. /\ n \in LinkRec /\ n.req = link[l].req /\ n.of = q /\ n.wire = w
      /\ n.state = link[l].state
  BY <1>1 DEF LinkRec, ServiceWorks
<1>3. link' = [link EXCEPT ![l] = n]
  BY DEF ServiceWorks
<1> HIDE DEF n
<1>4. /\ link' \in Seq(LinkRec) /\ Len(link') = Len(link) /\ link'[l] = n
      /\ \A k \in 1 .. Len(link) : k # l => link'[k] = link[k]
  BY <1>1, <1>2, <1>3, SetLink
<1> USE DEF ServiceWorks
<1>5. ran[q] = (IF b = 1 THEN 0 ELSE 1) /\ ran'[q] = 1
      /\ \A p \in Reqs \ {q} : ran'[p] = ran[p]
  BY <1>1 DEF Inv, Typed, LinksOK, Wires
<1>6. Typed'
  BY DEF Inv, Typed
<1>7. \A k \in 1 .. Len(link) : k # l /\ link[k].of = q => link[k].wire \notin OnWire
  BY <1>1 DEF Inv, LinksOK, Wires, OnWire
<1>8. LinksOK(link)'
  <2>1. Wires(link)'
    <3>1. \A k \in 1 .. Len(link) :
            /\ link'[k].wire = "sent" => ran'[link'[k].of] = 0
            /\ link'[k].wire \in {"begun", "done"} => ran'[link'[k].of] = 1
      <4> SUFFICES ASSUME NEW k \in 1 .. Len(link)
                   PROVE  /\ link'[k].wire = "sent" => ran'[link'[k].of] = 0
                          /\ link'[k].wire \in {"begun", "done"} => ran'[link'[k].of] = 1
        OBVIOUS
      <4>1. CASE k = l
        BY <4>1, <1>2, <1>4, <1>5
      <4>2. CASE k # l
        <5>1. link'[k] = link[k] /\ link[k] \in LinkRec
          BY <4>2, <1>1, <1>4
        <5>2. link[k].of = q => link[k].wire \notin OnWire
          BY <4>2, <1>7
        <5>3. QED
          BY <5>1, <5>2, <1>5 DEF Inv, LinksOK, Wires, OnWire, LinkRec
      <4>3. QED
        BY <4>1, <4>2
    <3>2. \A k \in 1 .. Len(link) :
            link'[k].of = link[k].of /\ (link'[k].wire \in OnWire => link[k].wire \in OnWire)
      BY <1>2, <1>4 DEF OnWire
    <3>3. QED
      BY <1>4, <3>1, <3>2 DEF Inv, LinksOK, Wires
  <2>2. QED
    BY <1>1, <1>2, <1>4, <2>1 DEF Inv, LinksOK
<1>9. Waiting'
  <2> SUFFICES ASSUME NEW k \in 1 .. Len(link) PROVE Linked(link', run, k)
    BY <1>4 DEF Waiting, Links
  <2>1. Linked(link, run, k)
    BY DEF Inv, Waiting, Links
  <2>2. CASE k = l
    BY <2>1, <2>2, <1>2, <1>4 DEF Linked
  <2>3. CASE k # l
    BY <2>1, <2>3, <1>4 DEF Linked
  <2>4. QED
    BY <2>2, <2>3
<1>10. ~Before(link, q)
  BY <1>1 DEF Before, Unwritten, OnWire
<1>11. \A p \in Reqs : Before(link, p) => Before(link, p)'
  BY <1>2, <1>4, <1>5, <1>10 DEF Before, Unwritten
<1>12. NotYet'
  BY <1>11 DEF Inv, NotYet
<1>13. Verdict(q, answer[q]) # "never" /\ (b = 1 => Verdict(q, answer[q]) # "done")
  BY <1>5, <1>10 DEF Inv, Honest
<1>14. Honest'
  BY <1>5, <1>11 DEF Inv, Honest
<1>15. Promise!Next
  <2> SUFFICES ASSUME NEW p \in Reqs PROVE Fair(p)
    BY PromiseStep
  <2>1. CASE p = q
    BY <2>1, <1>5, <1>13 DEF Fair
  <2>2. CASE p # q
    BY <2>2, <1>5 DEF Fair
  <2>3. QED
    BY <2>1, <2>2
<1>16. QED
  BY <1>6, <1>8, <1>9, <1>12, <1>14, <1>15 DEF Step, Inv

LEMMA ServiceBeginsStep ==
  ASSUME Inv, NEW l \in Links, ServiceBegins(l) PROVE Step
<1>1. link[l].of \in Reqs
  <2>1. link[l] \in LinkRec
    BY DEF Inv, LinksOK, Links
  <2>2. QED
    BY <2>1 DEF LinkRec
<1>2. ServiceWorks(l, link[l].of, "begun", 1)
  BY DEF ServiceBegins, ServiceWorks
<1>3. QED
  BY <1>1, <1>2, ServiceStep

LEMMA ServiceFinishesStep ==
  ASSUME Inv, NEW l \in Links, ServiceFinishes(l) PROVE Step
<1>1. link[l].of \in Reqs
  <2>1. link[l] \in LinkRec
    BY DEF Inv, LinksOK, Links
  <2>2. QED
    BY <2>1 DEF LinkRec
<1>2. ran' = [ran EXCEPT ![link[l].of] = @ + 0]
  BY <1>1 DEF ServiceFinishes, Inv, Typed
<1>3. ServiceWorks(l, link[l].of, "done", 0)
  BY <1>2 DEF ServiceFinishes, ServiceWorks
<1>4. QED
  BY <1>1, <1>3, ServiceStep
-----------------------------------------------------------------------------
LEMMA AnyStep ==
  ASSUME Inv, [Next]_vars PROVE Inv' /\ [Promise!Next]_<<ran, Told>>
<1>1. CASE UNCHANGED vars
  <2>1. Inv' <=> Inv
    BY <1>1 DEF vars, Inv, Typed, LinksOK, Wires, Waiting, Links, NotYet, Before, Unwritten,
                Honest
  <2>2. UNCHANGED <<ran, Told>>
    BY <1>1 DEF vars, Told, Verdict
  <2>3. QED
    BY <2>1, <2>2
<1>2. CASE Close
  BY <1>2, SameAsIs, LinkStep DEF Close, Drop, Strike, Step
<1>3. ASSUME NEW r \in Reqs, Caller(r) PROVE Step
  <2>1. CASE Deadline(r)
    BY <2>1, CancelStep DEF Deadline, Reasons
  <2>2. QED
    BY <1>3, <2>1, RequestStep, BeginStep, AbortStep, CancelledStep DEF Caller
<1>4. ASSUME NEW l \in Links, Network(l) PROVE Step
  <2>1. CASE ServiceCloses(l) \/ SocketCloses(l)
    BY <2>1, ClosedStep DEF ServiceCloses, SocketCloses
  <2>2. QED
    BY <1>4, <2>1, ConnectedStep, ConnectFailsStep, HealthReplyStep, ServiceBeginsStep,
       ServiceFinishesStep, ActionReplyStep, GarbledReplyStep DEF Network
<1>5. QED
  BY <1>1, <1>2, <1>3, <1>4 DEF Next, Step

LEMMA Start == ASSUME Init PROVE Inv /\ Promise!Init
<1>1. link = <<>> /\ Len(link) = 0
  BY DEF Init
<1>2. LinksOK(link) /\ Waiting
  BY <1>1 DEF Init, LinksOK, Wires, Waiting, Links
<1>3. NewRun \in RunRec /\ NewRun.pc = "idle" /\ ~NewRun.cancelled /\ NewRun.cancelling = {}
  BY DEF NewRun, RunRec, PCs
<1>4. Typed
  BY <1>3 DEF Init, Typed, Answers
<1>5. NotYet
  BY <1>1 DEF Init, NotYet, Before, Unwritten
<1>6. Honest
  BY <1>3 DEF Init, Honest, Verdict
<1>7. Promise!Init
  BY DEF Init, Promise!Init, Told, Verdict
<1>8. QED
  BY <1>2, <1>4, <1>5, <1>6, <1>7 DEF Inv

\* What a caller was told of its action stays true, whatever the runs that
\* withDeadline gave up on do afterwards.
THEOREM TransportHonest == Spec => []Inv
<1>1. Init => Inv
  BY Start
<1>2. Inv /\ [Next]_vars => Inv'
  BY AnyStep
<1>3. QED
  BY <1>1, <1>2, PTL DEF Spec

\* SkyCuaTransport implements Mutation: with any number of requests, and
\* whatever is refused, broken, garbled, retried, cancelled or given up, an
\* action takes effect at most once, and its caller is told no more than is so.
THEOREM TransportKeepsWord == Spec => KeepsWord
<1>1. Init => Promise!Init
  BY Start
<1>2. Inv /\ [Next]_vars => [Promise!Next]_<<ran, Told>>
  BY AnyStep
<1>3. QED
  BY <1>1, <1>2, TransportHonest, PTL DEF Spec, KeepsWord, Promise!Spec
-----------------------------------------------------------------------------
\* The lane: who waits in it, and that all but the first have not begun.
LaneOK ==
  /\ lane \in Seq(Reqs)
  /\ \A i, j \in 1 .. Len(lane) : lane[i] = lane[j] => i = j
  /\ \A q \in Reqs :
       (\E i \in 1 .. Len(lane) : lane[i] = q) <=> (run[q].pc # "idle" /\ answer[q] = "none")
  /\ \A i \in 1 .. Len(lane) : i # 1 => run[lane[i]].pc = "queued"

Bounded == health \in BOOLEAN /\ \A q \in Reqs : run[q].link <= Len(link)

\* Only the action connection is open, and there is none while one is opened.
Tidy(ls, c) ==
  \A l \in 1 .. Len(ls) :
    (ls[l].state = "open" => l = c) /\ (ls[l].state = "connecting" => c = 0)

SameFlags(n, old) ==
  n.cancelled = old.cancelled /\ n.aborted = old.aborted /\ n.cancelling = old.cancelling

\* The run of r comes to its next await, or settles.
Goes(r) ==
  /\ Len(link') \in Nat /\ Len(link) <= Len(link') /\ health' \in BOOLEAN
  /\ Tidy(link, actionConnection) => Tidy(link', actionConnection')
  /\ \/ \E a \in Answers \ {"none"} : Settle(r, a)
     \/ \E n \in RunRec :
          /\ n.pc \in Waits /\ n.link <= Len(link') /\ SameFlags(n, run[r])
          /\ run' = [run EXCEPT ![r] = n] /\ UNCHANGED <<answer, lane>>

\* Links as the run of r finds them, at least as tidy as they were.
Found(ls) ==
  /\ LinksOK(ls) /\ Len(ls) = Len(link)
  /\ Tidy(link, actionConnection) => Tidy(ls, actionConnection)

LEMMA TailOfLane ==
  ASSUME NEW s \in Seq(Reqs), s # <<>>, NEW t, t = Tail(s)
  PROVE  /\ Len(s) \in Nat /\ Len(s) >= 1 /\ Head(s) = s[1] /\ s[1] \in Reqs
         /\ t \in Seq(Reqs) /\ Len(t) = Len(s) - 1
         /\ \A i \in 1 .. Len(t) : t[i] = s[i + 1]
OBVIOUS

\* A run that has begun and is not settled owns the lane.
LEMMA OwnsLane ==
  ASSUME Inv, LaneOK, NEW r \in Reqs, run[r].pc \notin {"idle", "queued"}, answer[r] = "none"
  PROVE  lane # <<>> /\ Head(lane) = r
<1>1. PICK i \in 1 .. Len(lane) : lane[i] = r
  BY DEF LaneOK
<1>2. i = 1
  BY <1>1 DEF LaneOK
<1>3. lane \in Seq(Reqs) /\ Len(lane) \in Nat /\ Len(lane) >= 1
  BY <1>1 DEF LaneOK
<1>4. lane # <<>>
  BY <1>3
<1>5. QED
  BY <1>1, <1>2, <1>3, <1>4, TailOfLane

\* The run that owns the lane changes, and nobody else does.
LEMMA LaneStays ==
  ASSUME LaneOK, Typed, NEW r \in Reqs, run[r].pc # "idle",
         run[r].pc = "queued" => lane # <<>> /\ Head(lane) = r,
         NEW n, n.pc \notin {"idle", "queued"}, run' = [run EXCEPT ![r] = n],
         UNCHANGED <<answer, lane>>
  PROVE  LaneOK'
<1>1. run'[r] = n /\ \A q \in Reqs \ {r} : run'[q] = run[q]
  BY DEF Typed
<1>2. \A i \in 1 .. Len(lane) : i # 1 => lane[i] # r
  <2>1. CASE run[r].pc = "queued"
    <3>1. lane \in Seq(Reqs) /\ lane # <<>> /\ lane[1] = r /\ 1 \in 1 .. Len(lane)
      BY <2>1, TailOfLane DEF LaneOK
    <3>2. QED
      BY <3>1 DEF LaneOK
  <2>2. CASE run[r].pc # "queued"
    BY <2>2 DEF LaneOK
  <2>3. QED
    BY <2>1, <2>2
<1>3. \A i \in 1 .. Len(lane) : lane[i] \in Reqs
  BY DEF LaneOK
<1>4. QED
  BY <1>1, <1>2, <1>3 DEF LaneOK

\* The request that owns the lane is settled.
LEMMA LaneAdvances ==
  ASSUME LaneOK, Typed, NEW r \in Reqs, lane # <<>>, Head(lane) = r, run[r].pc # "idle",
         NEW a, a # "none", answer' = [answer EXCEPT ![r] = a],
         NEW n, n.pc # "idle", run' = [run EXCEPT ![r] = n], lane' = Tail(lane)
  PROVE  LaneOK'
<1> DEFINE t == lane'
<1>1. /\ run'[r] = n /\ answer'[r] = a
      /\ \A q \in Reqs \ {r} : run'[q] = run[q] /\ answer'[q] = answer[q]
  BY DEF Typed
<1>2. lane \in Seq(Reqs)
  BY DEF LaneOK
<1>3. /\ Len(lane) \in Nat /\ Len(lane) >= 1 /\ lane[1] = r
      /\ t \in Seq(Reqs) /\ Len(t) = Len(lane) - 1
      /\ \A i \in 1 .. Len(t) : t[i] = lane[i + 1]
  BY <1>2, TailOfLane
<1> HIDE DEF t
<1>4. \A i \in 1 .. Len(t) : /\ i + 1 \in 1 .. Len(lane) /\ i + 1 # 1
                             /\ lane[i + 1] # r /\ lane[i + 1] \in Reqs
  <2> SUFFICES ASSUME NEW i \in 1 .. Len(t)
               PROVE  /\ i + 1 \in 1 .. Len(lane) /\ i + 1 # 1
                      /\ lane[i + 1] # r /\ lane[i + 1] \in Reqs
    OBVIOUS
  <2>1. i + 1 \in 1 .. Len(lane) /\ i + 1 # 1 /\ 1 \in 1 .. Len(lane)
    BY <1>3
  <2>2. lane[i + 1] # r
    BY <1>3, <2>1 DEF LaneOK
  <2>3. QED
    BY <1>2, <2>1, <2>2
<1>5. \A i \in 1 .. Len(t) : run'[t[i]].pc = "queued"
  <2> SUFFICES ASSUME NEW i \in 1 .. Len(t) PROVE run'[t[i]].pc = "queued"
    OBVIOUS
  <2>1. t[i] = lane[i + 1] /\ i + 1 \in 1 .. Len(lane) /\ i + 1 # 1 /\ lane[i + 1] \in Reqs \ {r}
    BY <1>3, <1>4
  <2>2. run[lane[i + 1]].pc = "queued"
    BY <2>1 DEF LaneOK
  <2>3. QED
    BY <2>1, <2>2, <1>1
<1>6. \A i, j \in 1 .. Len(t) : t[i] = t[j] => i = j
  <2> SUFFICES ASSUME NEW i \in 1 .. Len(t), NEW j \in 1 .. Len(t), t[i] = t[j]
               PROVE  i = j
    OBVIOUS
  <2>1. i + 1 = j + 1
    BY <1>3, <1>4 DEF LaneOK
  <2>2. QED
    BY <2>1
<1>7. ASSUME NEW q \in Reqs
      PROVE  (\E i \in 1 .. Len(t) : t[i] = q) <=> (run'[q].pc # "idle" /\ answer'[q] = "none")
  <2>1. CASE q = r
    BY <2>1, <1>1, <1>3, <1>4
  <2>2. CASE q # r
    <3>1. (\E i \in 1 .. Len(t) : t[i] = q) <=> (\E i \in 1 .. Len(lane) : lane[i] = q)
      <4>1. ASSUME NEW i \in 1 .. Len(lane), lane[i] = q
            PROVE  \E k \in 1 .. Len(t) : t[k] = q
        <5>1. i # 1
          BY <4>1, <2>2, <1>3
        <5>2. i - 1 \in 1 .. Len(t) /\ (i - 1) + 1 = i
          BY <5>1, <1>3
        <5>3. QED
          BY <4>1, <5>2, <1>3
      <4>2. QED
        BY <4>1, <1>3, <1>4
    <3>2. QED
      BY <3>1, <2>2, <1>1 DEF LaneOK
  <2>3. QED
    BY <2>1, <2>2
<1>8. QED
  BY <1>3, <1>5, <1>6, <1>7 DEF LaneOK, t

LEMMA GoesOn ==
  ASSUME Inv, LaneOK, Bounded, NEW r \in Reqs, run[r].pc \notin {"idle", "over"},
         run[r].pc = "queued" => lane # <<>> /\ Head(lane) = r, Goes(r)
  PROVE  LaneOK' /\ Bounded'
<1>1. run \in [Reqs -> RunRec] /\ run[r] \in RunRec /\ Typed
  BY DEF Inv, Typed
<1>2. CASE \E a \in Answers \ {"none"} : Settle(r, a)
  <2>1. PICK a \in Answers : a # "none" /\ Settle(r, a)
    BY <1>2
  <2> DEFINE n == [run[r] EXCEPT !.pc = "over"]
  <2>2. n.pc = "over" /\ n.link = run[r].link
    BY <1>1 DEF RunRec
  <2>3. run' = [run EXCEPT ![r] = n]
    BY <2>1 DEF Settle
  <2> HIDE DEF n
  <2>4. ASSUME run[r].cancelled PROVE LaneOK'
    BY <2>1, <2>2, <2>3, <2>4, <1>1, LaneStays DEF Settle
  <2>5. ASSUME ~run[r].cancelled PROVE LaneOK'
    <3>1. answer[r] = "none"
      BY <2>5 DEF Inv, Honest
    <3>2. lane # <<>> /\ Head(lane) = r
      <4>1. CASE run[r].pc = "queued"
        BY <4>1
      <4>2. CASE run[r].pc # "queued"
        BY <4>2, <3>1, OwnsLane
      <4>3. QED
        BY <4>1, <4>2
    <3>3. answer' = [answer EXCEPT ![r] = a] /\ lane' = Tail(lane)
      BY <2>1, <2>5 DEF Settle
    <3>4. QED
      BY <2>1, <2>2, <2>3, <3>2, <3>3, <1>1, LaneAdvances
  <2>6. \A q \in Reqs : run'[q].link = run[q].link
    BY <1>1, <2>2, <2>3
  <2>7. LaneOK'
    BY <2>4, <2>5
  <2>8. Bounded'
    <3>1. \A q \in Reqs : run[q].link \in Nat
      BY <1>1 DEF RunRec
    <3>2. Len(link) \in Nat /\ Len(link') \in Nat
      BY DEF Goes, Inv, LinksOK
    <3>3. QED
      BY <2>6, <3>1, <3>2 DEF Bounded, Goes
  <2>9. QED
    BY <2>7, <2>8
<1>3. CASE \E n \in RunRec :
          /\ n.pc \in Waits /\ n.link <= Len(link')
          /\ run' = [run EXCEPT ![r] = n] /\ UNCHANGED <<answer, lane>>
  <2>1. PICK n \in RunRec :
          /\ n.pc \in Waits /\ n.link <= Len(link')
          /\ run' = [run EXCEPT ![r] = n] /\ UNCHANGED <<answer, lane>>
    BY <1>3
  <2>2. n.pc \notin {"idle", "queued"}
    BY <2>1 DEF Waits
  <2>3. LaneOK'
    BY <2>1, <2>2, <1>1, LaneStays
  <2>4. Bounded'
    <3>1. \A q \in Reqs : run[q].link \in Nat
      BY <1>1 DEF RunRec
    <3>2. Len(link) \in Nat /\ Len(link') \in Nat
      BY DEF Goes, Inv, LinksOK
    <3>3. run'[r] = n /\ \A q \in Reqs \ {r} : run'[q] = run[q]
      BY <2>1, <1>1
    <3>4. QED
      BY <2>1, <3>1, <3>2, <3>3 DEF Bounded, Goes
  <2>5. QED
    BY <2>3, <2>4
<1>4. QED
  BY <1>2, <1>3 DEF Goes
LEMMA DroppedFound ==
  ASSUME NEW ls, Found(ls)
  PROVE  /\ LinksOK(ls) /\ Len(ls) \in Nat /\ Len(Dropped(ls)) = Len(ls)
         /\ SameLinks(Dropped(ls), ls)
         /\ Tidy(link, actionConnection) =>
              \A l \in 1 .. Len(ls) : Dropped(ls)[l].state \notin {"open", "connecting"}
                                      \/ (Dropped(ls)[l].state = "connecting" /\ actionConnection = 0)
<1> DEFINE k == actionConnection
<1>1. LinksOK(ls) /\ ls \in Seq(LinkRec) /\ Len(ls) \in Nat
  BY DEF Found, LinksOK
<1>2. SameLinks(Dropped(ls), ls)
  BY <1>1, DroppedLinks
<1>3. ASSUME Tidy(ls, k), NEW l \in 1 .. Len(ls), Dropped(ls)[l].state \in {"open", "connecting"}
      PROVE  Dropped(ls)[l].state = "connecting" /\ k = 0
  <2>1. CASE k = 0
    BY <1>3, <2>1 DEF Dropped, Tidy
  <2>2. CASE k # 0 /\ ls[k].state = "closed"
    BY <1>3, <2>2 DEF Dropped, Tidy
  <2>3. CASE k # 0 /\ ls[k].state # "closed"
    <3>1. k \in 1 .. Len(ls) /\ ls[k] \in LinkRec
      BY <1>1, <2>3 DEF LinksOK
    <3>2. Dropped(ls) = [ls EXCEPT ![k] = [ls[k] EXCEPT !.state = "dropped"]]
      BY <2>3 DEF Dropped
    <3>3. [ls[k] EXCEPT !.state = "dropped"].state = "dropped"
      BY <3>1 DEF LinkRec
    <3>4. Dropped(ls)[l] = IF l = k THEN [ls[k] EXCEPT !.state = "dropped"] ELSE ls[l]
      BY <1>1, <3>1, <3>2
    <3>5. QED
      BY <1>3, <2>3, <3>3, <3>4 DEF Tidy
  <2>4. QED
    BY <2>1, <2>2, <2>3
<1>4. QED
  BY <1>1, <1>2, <1>3 DEF Found, SameLinks

\* An await on a link that exists, or is opened.
LEMMA AwaitGoes ==
  ASSUME Inv, NEW r \in Reqs, NEW pc \in Waits, NEW l \in Nat,
         NEW attempt \in 0 .. 1, NEW hattempt \in 0 .. 1,
         Await(r, pc, l, attempt, hattempt),
         Len(link') \in Nat, Len(link) <= Len(link'), l <= Len(link'), health' \in BOOLEAN,
         Tidy(link, actionConnection) => Tidy(link', actionConnection')
  PROVE  Goes(r)
<1> DEFINE n == [run[r] EXCEPT !.pc = pc, !.link = l, !.attempt = attempt,
                               !.hattempt = hattempt]
<1>1. run[r] \in RunRec /\ pc \in PCs
  BY DEF Inv, Typed, PCs
<1>2. n \in RunRec /\ n.pc = pc /\ n.link = l /\ SameFlags(n, run[r])
  BY <1>1 DEF RunRec, SameFlags
<1>3. run' = [run EXCEPT ![r] = n] /\ UNCHANGED <<answer, lane>>
  BY DEF Await
<1> HIDE DEF n
<1>4. QED
  BY <1>2, <1>3 DEF Goes

\* A new link among links none of which is open.
LEMMA OpenGoes ==
  ASSUME Inv, Bounded, NEW r \in Reqs, NEW pc \in {"connect", "reconnect"},
         NEW attempt \in 0 .. 1, NEW hattempt \in 0 .. 1,
         NEW ls \in Seq(LinkRec), Len(ls) = Len(link), Open(r, pc, attempt, hattempt, ls),
         health' \in BOOLEAN, actionConnection' = 0,
         Tidy(link, actionConnection) => Tidy(ls, 0)
  PROVE  Goes(r)
<1>1. NewLink(r) \in LinkRec /\ NewLink(r).state = "connecting"
  BY DEF NewLink, LinkRec
<1>2. link' = Append(ls, NewLink(r)) /\ Await(r, pc, Len(ls) + 1, attempt, hattempt)
  BY DEF Open
<1>3. /\ Len(ls) \in Nat /\ Len(link') = Len(ls) + 1
      /\ \A l \in 1 .. Len(link') : IF l \in 1 .. Len(ls) THEN link'[l] = ls[l]
                                    ELSE link'[l] = NewLink(r)
  BY <1>1, <1>2
<1>4. Tidy(link, actionConnection) => Tidy(link', actionConnection')
  BY <1>1, <1>3 DEF Tidy
<1>5. QED
  BY <1>2, <1>3, <1>4, AwaitGoes DEF Waits

LEMMA DropAndOpenGoes ==
  ASSUME Inv, Bounded, NEW r \in Reqs, NEW attempt \in 0 .. 1, NEW hattempt \in 0 .. 1,
         NEW ls, Found(ls), DropAndOpen(r, attempt, hattempt, ls)
  PROVE  Goes(r)
<1> DEFINE d == Dropped(ls)
<1>1. /\ LinksOK(ls) /\ Len(ls) \in Nat /\ Len(d) = Len(ls) /\ SameLinks(d, ls)
      /\ Tidy(link, actionConnection) => Tidy(d, 0)
  BY DroppedFound DEF Tidy
<1>2. Open(r, "connect", attempt, hattempt, d) /\ actionConnection' = 0 /\ health' \in BOOLEAN
  BY DEF DropAndOpen
<1> HIDE DEF d
<1>3. d \in Seq(LinkRec) /\ Len(d) = Len(link)
  BY <1>1 DEF SameLinks, Found
<1>4. QED
  BY <1>1, <1>2, <1>3, OpenGoes

LEMMA SettleGoes ==
  ASSUME NEW r \in Reqs, NEW a \in Answers, a # "none", Settle(r, a), NEW ls, Found(ls),
         Drop(ls) \/ (\E h \in BOOLEAN : Keep(ls, h))
  PROVE  Goes(r)
<1>1. CASE Drop(ls)
  <2>1. Len(link') \in Nat /\ Len(link') = Len(link) /\ health' \in BOOLEAN
    BY <1>1, DroppedFound DEF Drop, Found
  <2>2. Tidy(link, actionConnection) => Tidy(link', actionConnection')
    BY <1>1, DroppedFound DEF Drop, Tidy
  <2>3. QED
    BY <2>1, <2>2 DEF Goes
<1>2. CASE \E h \in BOOLEAN : Keep(ls, h)
  <2>1. link' = ls /\ health' \in BOOLEAN /\ actionConnection' = actionConnection
    BY <1>2 DEF Keep
  <2>2. Len(ls) \in Nat /\ Len(ls) = Len(link)
    BY DEF Found, LinksOK
  <2>3. QED
    BY <2>1, <2>2 DEF Goes, Found
<1>3. QED
  BY <1>1, <1>2

\* A line is written to a link that is not busy.
LEMMA WriteGoes ==
  ASSUME Inv, NEW r \in Reqs, NEW pc \in Waits, NEW what \in {"health", "sent"},
         NEW ls, Found(ls), actionConnection # 0, NEW attempt \in 0 .. 1, NEW h \in BOOLEAN,
         Await(r, pc, actionConnection, attempt, 0),
         Keep(Write(r, actionConnection, what, ls), h)
  PROVE  Goes(r)
<1> DEFINE l == actionConnection
           w == IF ls[l].state = "destroyed" THEN "none" ELSE what
           n == [ls[l] EXCEPT !.req = r, !.of = r, !.wire = w]
<1>1. /\ ls \in Seq(LinkRec) /\ l \in 1 .. Len(ls) /\ l \in Nat /\ ls[l] \in LinkRec
      /\ Len(ls) = Len(link)
  BY DEF Found, LinksOK
<1>2. n \in LinkRec /\ n.state = ls[l].state
  BY <1>1 DEF LinkRec
<1>3. /\ link' = [ls EXCEPT ![l] = n] /\ actionConnection' = actionConnection
      /\ health' \in BOOLEAN
  BY DEF Keep, Write
<1> HIDE DEF n
<1>4. /\ link' \in Seq(LinkRec) /\ Len(link') = Len(ls) /\ link'[l] = n
      /\ \A k \in 1 .. Len(ls) : k # l => link'[k] = ls[k]
  BY <1>1, <1>2, <1>3, SetLink
<1>5. Len(link') \in Nat /\ Len(link) <= Len(link') /\ l <= Len(link')
  BY <1>1, <1>4
<1>6. Tidy(link, actionConnection) => Tidy(link', actionConnection')
  BY <1>2, <1>3, <1>4 DEF Tidy, Found
<1>7. l \in Nat /\ 0 \in 0 .. 1 /\ Await(r, pc, l, attempt, 0)
  BY <1>1
<1> HIDE DEF l
<1>8. QED
  BY <1>3, <1>5, <1>6, <1>7, AwaitGoes

LEMMA SendGoes ==
  ASSUME Inv, Bounded, NEW r \in Reqs, NEW attempt \in 0 .. 1, NEW ls, Found(ls),
         NEW h \in BOOLEAN, SendAction(r, attempt, ls, h)
  PROVE  Goes(r)
<1> DEFINE l == actionConnection
<1>1. CASE /\ l = 0 /\ Open(r, "reconnect", attempt, 0, ls)
           /\ health' = h /\ UNCHANGED actionConnection
  <2>1. ls \in Seq(LinkRec) /\ Len(ls) = Len(link)
    BY DEF Found, LinksOK
  <2>2. QED
    BY <1>1, <2>1, OpenGoes DEF Found
<1>2. CASE DropAndOpen(r, 1, 0, ls)
  BY <1>2, DropAndOpenGoes
<1>3. CASE Settle(r, "disconnected") /\ Drop(ls)
  BY <1>3, SettleGoes DEF Answers
<1>4. CASE Settle(r, "internal") /\ Keep(ls, h)
  BY <1>4, SettleGoes DEF Answers
<1>5. CASE /\ l # 0 /\ Await(r, "action", l, attempt, 0)
           /\ Keep(Write(r, l, "sent", ls), h)
  BY <1>5, WriteGoes DEF Waits
<1>6. QED
  BY <1>1, <1>2, <1>3, <1>4, <1>5 DEF SendAction

LEMMA AsIsFound == ASSUME Inv PROVE Found(link)
BY DEF Inv, Found

LEMMA AttemptGoes ==
  ASSUME Inv, Bounded, NEW r \in Reqs, NEW attempt \in 0 .. 1, Attempt(r, attempt)
  PROVE  Goes(r)
<1> DEFINE l == actionConnection
<1>1. Found(link) /\ health \in BOOLEAN
  BY AsIsFound DEF Bounded
<1>2. CASE SendAction(r, attempt, link, health)
  BY <1>1, <1>2, SendGoes
<1>3. CASE DropAndOpen(r, attempt, 1, link)
  BY <1>1, <1>3, DropAndOpenGoes
<1>4. CASE Settle(r, "internal") /\ Drop(link)
  BY <1>1, <1>4, SettleGoes DEF Answers
<1>5. CASE /\ l # 0 /\ Await(r, "health", l, attempt, 0)
           /\ Keep(Write(r, l, "health", link), health)
  BY <1>1, <1>5, WriteGoes DEF Waits
<1>6. CASE /\ l = 0 /\ Open(r, "connect", attempt, 0, link)
           /\ UNCHANGED <<actionConnection, health>>
  <2>1. link \in Seq(LinkRec)
    BY DEF Inv, LinksOK
  <2>2. QED
    BY <1>1, <1>6, <2>1, OpenGoes DEF Found
<1>7. QED
  BY <1>2, <1>3, <1>4, <1>5, <1>6 DEF Attempt

\* The request of a link was taken off it, and the link is no more open than before.
LEMMA TakenOffFound ==
  ASSUME Inv, NEW l \in Links, Busy(l), NEW s \in {"open", "destroyed", "closed"},
         s = "open" => link[l].state = "open",
         NEW w \in {link[l].wire, "none"}, NEW ls, ls = TakenOff(l, s, w)
  PROVE  Found(ls) /\ link[l].req \in Reqs /\ run[link[l].req].pc \in Waits
<1> DEFINE r == link[l].req
           n == [link[l] EXCEPT !.state = s, !.req = NoReq, !.wire = w]
<1>1. link \in Seq(LinkRec) /\ link[l] \in LinkRec /\ l \in 1 .. Len(link)
  BY DEF Inv, LinksOK, Links
<1>2. /\ r \in Reqs /\ run[r].pc \in Waits /\ Detached(ls, r) /\ Len(ls) = Len(link)
      /\ \A k \in Links : k # l => ls[k] = link[k]
  BY Detaches
<1>3. n \in LinkRec /\ n.state = s /\ ls = [link EXCEPT ![l] = n]
  BY <1>1 DEF LinkRec, TakenOff
<1>4. ls[l].state = s
  BY <1>1, <1>3
<1>5. Tidy(link, actionConnection) => Tidy(ls, actionConnection)
  BY <1>1, <1>2, <1>4 DEF Tidy, Links
<1>6. QED
  BY <1>2, <1>5 DEF Found, Detached
\* A run that is cancelled keeps the lane until that was answered.
LEMMA CancelLane ==
  ASSUME Inv, LaneOK, Bounded, NEW r \in Reqs, NEW reason \in Reasons,
         run[r].pc # "idle", run[r].pc = "queued" => lane # <<>> /\ Head(lane) = r,
         CancelAndReject(r, reason)
  PROVE  LaneOK' /\ Bounded'
<1> DEFINE p == IF run[r].pc = "queued" THEN "over" ELSE run[r].pc
           n == [run[r] EXCEPT !.pc = p, !.cancelled = TRUE, !.fired = @ \cup {reason},
                               !.cancelling = @ \cup {reason}]
<1>1. run \in [Reqs -> RunRec] /\ run[r] \in RunRec /\ Typed
  BY DEF Inv, Typed
<1>2. n.pc = p /\ n.link = run[r].link /\ p \notin {"idle", "queued"}
  BY <1>1 DEF RunRec
<1>3. run' = [run EXCEPT ![r] = n] /\ UNCHANGED <<answer, lane>>
  BY <1>1 DEF CancelAndReject, RunRec
<1> HIDE DEF n
<1>4. LaneOK'
  BY <1>1, <1>2, <1>3, LaneStays
<1>5. Len(link') = Len(link) /\ health' \in BOOLEAN
  BY AsIsFound, DroppedFound DEF CancelAndReject, Drop
<1>6. \A q \in Reqs : run'[q].link = run[q].link
  BY <1>1, <1>2, <1>3
<1>7. QED
  BY <1>4, <1>5, <1>6 DEF Bounded
-----------------------------------------------------------------------------
\* A step that concerns no run.
Idles ==
  /\ UNCHANGED <<run, lane, answer>> /\ Len(link') = Len(link) /\ health' \in BOOLEAN
  /\ Tidy(link, actionConnection) => Tidy(link', actionConnection')

Lane == Inv /\ LaneOK /\ Bounded
Goer(r) == run[r].pc \in Waits /\ Goes(r)

LEMMA CloseIdles == ASSUME Lane, Close PROVE Idles
<1>1. Found(link)
  BY AsIsFound DEF Lane
<1>2. link' = Dropped(link) /\ actionConnection' = 0 /\ health' = FALSE
      /\ UNCHANGED <<run, lane, answer>>
  BY DEF Close, Drop
<1>3. QED
  BY <1>1, <1>2, DroppedFound DEF Idles, Tidy

\* A link is replaced by one that is no more open.
LEMMA LinkIdles ==
  ASSUME Lane, NEW l \in Links, NEW n \in LinkRec, n.state \in {link[l].state, "closed"},
         link' = [link EXCEPT ![l] = n],
         UNCHANGED <<run, lane, answer, actionConnection, health>>
  PROVE  Idles
<1>1. link \in Seq(LinkRec) /\ l \in 1 .. Len(link)
  BY DEF Lane, Inv, LinksOK, Links
<1>2. /\ Len(link') = Len(link) /\ link'[l] = n
      /\ \A k \in 1 .. Len(link) : k # l => link'[k] = link[k]
  BY <1>1, SetLink
<1>3. Tidy(link, actionConnection) => Tidy(link', actionConnection')
  BY <1>2 DEF Tidy
<1>4. QED
  BY <1>2, <1>3 DEF Idles, Lane, Bounded

LEMMA ServiceIdles ==
  ASSUME Lane, NEW l \in Links, ServiceBegins(l) \/ ServiceFinishes(l) PROVE Idles
<1>1. link[l] \in LinkRec
  BY DEF Lane, Inv, LinksOK, Links
<1>2. PICK w \in {"begun", "done"} : link' = [link EXCEPT ![l].wire = w]
  BY DEF ServiceBegins, ServiceFinishes
<1> DEFINE n == [link[l] EXCEPT !.wire = w]
<1>3. n \in LinkRec /\ n.state = link[l].state /\ link' = [link EXCEPT ![l] = n]
  BY <1>1, <1>2 DEF LinkRec
<1> HIDE DEF n
<1>4. UNCHANGED <<run, lane, answer, actionConnection, health>>
  BY DEF ServiceBegins, ServiceFinishes
<1>5. QED
  BY <1>3, <1>4, LinkIdles

LEMMA ClosedGoes ==
  ASSUME Lane, NEW l \in Links, link[l].state # "connecting", Closed(l)
  PROVE  Idles \/ \E r \in Reqs : Goer(r)
<1> USE DEF Lane
<1> DEFINE r == link[l].req
           ls == [link EXCEPT ![l] = [@ EXCEPT !.state = "closed", !.req = NoReq]]
           n == [link[l] EXCEPT !.state = "closed", !.req = NoReq]
<1>1. link[l] \in LinkRec
  BY DEF Inv, LinksOK, Links
<1>2. CASE Keep(ls, health) /\ UNCHANGED <<lane, run, answer>>
  <2>1. n \in LinkRec /\ n.state = "closed" /\ link' = [link EXCEPT ![l] = n]
    BY <1>1, <1>2 DEF LinkRec, Keep
  <2> HIDE DEF n
  <2>2. UNCHANGED <<run, lane, answer, actionConnection, health>>
    BY <1>2 DEF Keep
  <2>3. QED
    BY <2>1, <2>2, LinkIdles
<1>3. CASE Busy(l) /\ Drop(ls) /\ Settle(r, Lost(r))
  <2>1. ls = TakenOff(l, "closed", link[l].wire)
    BY <1>1 DEF LinkRec, TakenOff
  <2>2. Found(ls) /\ r \in Reqs /\ run[r].pc \in Waits
    BY <1>3, <2>1, TakenOffFound
  <2>3. Lost(r) \in Answers /\ Lost(r) # "none"
    BY DEF Lost, Answers
  <2> HIDE DEF ls
  <2>4. Goes(r)
    BY <1>3, <2>2, <2>3, SettleGoes
  <2>5. QED
    BY <2>2, <2>4 DEF Goer
<1>4. QED
  BY <1>2, <1>3 DEF Closed

LEMMA ConnectFailsGoes ==
  ASSUME Lane, NEW l \in Links, ConnectFails(l) PROVE \E r \in Reqs : Goer(r)
<1> USE DEF Lane
<1> DEFINE r == link[l].req
           gone == [link EXCEPT ![l] = [@ EXCEPT !.state = "closed", !.req = NoReq]]
<1>1. Busy(l) /\ link[l] \in LinkRec
  BY DEF ConnectFails, Inv, LinksOK, Links, Busy
<1>2. gone = TakenOff(l, "closed", link[l].wire)
  BY <1>1 DEF LinkRec, TakenOff
<1>3. Found(gone) /\ r \in Reqs /\ run[r].pc \in Waits
  BY <1>1, <1>2, TakenOffFound
<1>4. run[r].attempt \in 0 .. 1
  BY <1>3 DEF Inv, Typed, RunRec
<1> HIDE DEF gone
<1>5. CASE DropAndOpen(r, run[r].attempt, 1, gone) \/ DropAndOpen(r, 1, 0, gone)
  BY <1>3, <1>4, <1>5, DropAndOpenGoes DEF Goer
<1>6. CASE Settle(r, "restart") /\ Drop(gone)
  BY <1>3, <1>6, SettleGoes DEF Answers, Goer
<1>7. QED
  BY <1>5, <1>6 DEF ConnectFails, gone

\* A reply that leaves the link as it is, without its request.
LEMMA AnsweredFound ==
  ASSUME Lane, NEW l \in Links, Busy(l), link[l].state = "open"
  PROVE  Found(Answered(l)) /\ link[l].req \in Reqs /\ run[link[l].req].pc \in Waits
<1>1. link[l] \in LinkRec
  BY DEF Lane, Inv, LinksOK, Links
<1>2. Answered(l) = TakenOff(l, "open", "none")
  BY <1>1 DEF LinkRec, Answered, TakenOff
<1>3. "none" \in {link[l].wire, "none"} /\ "open" \in {"open", "destroyed", "closed"}
  OBVIOUS
<1>4. QED
  BY <1>2, <1>3, TakenOffFound DEF Lane

LEMMA HealthReplyGoes ==
  ASSUME Lane, NEW l \in Links, HealthReply(l) PROVE \E r \in Reqs : Goer(r)
<1> DEFINE r == link[l].req
           ls == Answered(l)
<1>1. Found(ls) /\ r \in Reqs /\ run[r].pc \in Waits
  BY AnsweredFound DEF HealthReply
<1>2. run[r].attempt \in 0 .. 1
  BY <1>1 DEF Lane, Inv, Typed, RunRec
<1> HIDE DEF ls
<1>3. CASE SendAction(r, run[r].attempt, ls, TRUE)
  BY <1>1, <1>2, <1>3, SendGoes DEF Lane, Goer
<1>4. CASE Settle(r, "error") /\ (Drop(ls) \/ Keep(ls, TRUE))
  BY <1>1, <1>4, SettleGoes DEF Answers, Goer
<1>5. QED
  BY <1>3, <1>4 DEF HealthReply, ls

LEMMA ActionReplyGoes ==
  ASSUME Lane, NEW l \in Links, ActionReply(l) PROVE \E r \in Reqs : Goer(r)
<1> DEFINE r == link[l].req
           ls == Answered(l)
<1>1. Found(ls) /\ r \in Reqs /\ run[r].pc \in Waits
  BY AnsweredFound DEF ActionReply
<1>2. health \in BOOLEAN
  BY DEF Lane, Bounded
<1> HIDE DEF ls
<1>3. CASE (Settle(r, "ok") \/ Settle(r, "error")) /\ Keep(ls, health)
  BY <1>1, <1>2, <1>3, SettleGoes DEF Answers, Goer
<1>4. CASE DropAndOpen(r, 1, 0, ls)
  BY <1>1, <1>4, DropAndOpenGoes DEF Lane, Goer
<1>5. QED
  BY <1>3, <1>4 DEF ActionReply, ls

LEMMA GarbledReplyGoes ==
  ASSUME Lane, NEW l \in Links, GarbledReply(l) PROVE \E r \in Reqs : Goer(r)
<1> DEFINE r == link[l].req
           ls == [link EXCEPT ![l] = [@ EXCEPT !.state = "destroyed", !.req = NoReq]]
<1>1. Busy(l) /\ link[l] \in LinkRec /\ health \in BOOLEAN
  BY DEF GarbledReply, Lane, Inv, LinksOK, Links, Bounded
<1>2. ls = TakenOff(l, "destroyed", link[l].wire)
  BY <1>1 DEF LinkRec, TakenOff
<1>3. Found(ls) /\ r \in Reqs /\ run[r].pc \in Waits
  BY <1>1, <1>2, TakenOffFound DEF Lane
<1> HIDE DEF ls
<1>4. Settle(r, "error") /\ (Drop(ls) \/ Keep(ls, health))
  BY DEF GarbledReply, ls
<1>5. QED
  BY <1>1, <1>3, <1>4, SettleGoes DEF Answers, Goer
\* A connected run writes, to what is now the action connection.
LEMMA ConnectedRuns ==
  ASSUME Lane, NEW l \in Links, Connected(l)
  PROVE  \E r \in Reqs, n \in RunRec :
           /\ run[r].pc \in {"connect", "reconnect"} /\ run[r].link = l /\ link[l].req = r
           /\ n.pc \in Waits /\ n.link = l /\ SameFlags(n, run[r])
           /\ run' = [run EXCEPT ![r] = n]
           /\ UNCHANGED <<answer, lane, health>> /\ actionConnection' = l
           /\ Len(link') = Len(link) /\ link'[l].state = "open"
           /\ \A k \in Links : k # l => link'[k] = link[k]
<1> DEFINE r == link[l].req
           w == IF run[r].pc = "connect" THEN "health" ELSE "sent"
           p == IF run[r].pc = "connect" THEN "health" ELSE "action"
           m == [link[l] EXCEPT !.state = "open", !.wire = w]
           n == [run[r] EXCEPT !.pc = p]
<1> USE DEF Lane
<1>1. link \in Seq(LinkRec) /\ link[l] \in LinkRec /\ l \in 1 .. Len(link)
  BY DEF Inv, LinksOK, Links
<1>2. r \in Reqs /\ run[r].link = l /\ run[r].pc \in {"connect", "reconnect"}
  <2>1. r # NoReq /\ link[l].state = "connecting"
    BY DEF Connected, Inv, LinksOK, Links
  <2>2. QED
    BY <1>1, <2>1 DEF LinkRec, Inv, Waiting, Linked
<1>3. run[r] \in RunRec
  BY <1>2 DEF Inv, Typed
<1>4. m \in LinkRec /\ m.state = "open"
  BY <1>1 DEF LinkRec
<1>5. n \in RunRec /\ n.pc = p /\ n.link = l /\ SameFlags(n, run[r])
  BY <1>2, <1>3 DEF RunRec, PCs, Waits, SameFlags
<1>6. /\ link' = [link EXCEPT ![l] = m] /\ run' = [run EXCEPT ![r] = n]
      /\ actionConnection' = l /\ UNCHANGED <<answer, lane, health>>
  BY <1>2 DEF Connected
<1>7. p \in Waits
  BY DEF Waits
<1> HIDE DEF m, n, w, p
<1>8. /\ Len(link') = Len(link) /\ link'[l] = m
      /\ \A k \in 1 .. Len(link) : k # l => link'[k] = link[k]
  BY <1>1, <1>4, <1>6, SetLink
<1> HIDE DEF r
<1>9. QED
  BY <1>2, <1>4, <1>5, <1>6, <1>7, <1>8 DEF r, Links

\* The runs of the other actions.
LEMMA NetworkGoes ==
  ASSUME Lane, NEW l \in Links, Network(l)
  PROVE  Idles \/ Connected(l) \/ \E r \in Reqs : Goer(r)
<1>1. CASE ServiceCloses(l) \/ SocketCloses(l)
  BY <1>1, ClosedGoes DEF ServiceCloses, SocketCloses
<1>2. QED
  BY <1>1, ConnectFailsGoes, HealthReplyGoes, ServiceIdles, ActionReplyGoes,
     GarbledReplyGoes DEF Network

LEMMA LinksGrow == ASSUME Lane PROVE Len(link) \in Nat /\ \A q \in Reqs : run[q].link \in Nat
BY DEF Lane, Inv, Typed, RunRec, LinksOK

LEMMA IdlesLane == ASSUME Lane, Idles PROVE LaneOK' /\ Bounded'
BY DEF Lane, Idles, LaneOK, Bounded

LEMMA GoerLane ==
  ASSUME Lane, NEW r \in Reqs, Goer(r) PROVE LaneOK' /\ Bounded'
BY GoesOn DEF Lane, Goer, Waits

LEMMA ConnectedLane ==
  ASSUME Lane, NEW l \in Links, Connected(l) PROVE LaneOK' /\ Bounded'
<1>1. PICK r \in Reqs, n \in RunRec :
           /\ run[r].pc \in {"connect", "reconnect"}
           /\ n.pc \in Waits /\ n.link = l /\ run' = [run EXCEPT ![r] = n]
           /\ UNCHANGED <<answer, lane, health>> /\ Len(link') = Len(link)
  BY ConnectedRuns
<1>2. LaneOK'
  BY <1>1, LaneStays DEF Lane, Inv, Waits
<1>3. run'[r] = n /\ \A q \in Reqs \ {r} : run'[q] = run[q]
  BY <1>1 DEF Lane, Inv, Typed
<1>4. l <= Len(link) /\ Len(link) \in Nat
  BY LinksGrow DEF Links
<1>5. Bounded'
  BY <1>1, <1>3, <1>4 DEF Lane, Bounded
<1>6. QED
  BY <1>2, <1>5
\* What the callers do.
LEMMA RequestLane ==
  ASSUME Lane, NEW r \in Reqs, Request(r) PROVE LaneOK' /\ Bounded'
<1> DEFINE n == [run[r] EXCEPT !.pc = "queued"]
<1> USE DEF Lane
<1>1. /\ n.pc = "queued" /\ n.link = run[r].link /\ run[r].pc = "idle" /\ run[r] \in RunRec
  BY DEF Inv, Typed, RunRec, Request
<1>2. run' = [run EXCEPT ![r] = n] /\ lane' = Append(lane, r)
      /\ UNCHANGED <<answer, link, health>>
  BY DEF Request
<1> HIDE DEF n
<1>3. run'[r] = n /\ \A q \in Reqs \ {r} : run'[q] = run[q]
  BY <1>2 DEF Inv, Typed
<1>4. lane \in Seq(Reqs)
  BY DEF LaneOK
<1>5. /\ Len(lane) \in Nat /\ lane' \in Seq(Reqs) /\ Len(lane') = Len(lane) + 1
      /\ lane'[Len(lane) + 1] = r
      /\ \A i \in 1 .. Len(lane) : lane'[i] = lane[i] /\ lane[i] \in Reqs
  BY <1>2, <1>4
<1>6. answer[r] = "none" /\ \A i \in 1 .. Len(lane) : lane[i] # r
  BY <1>1 DEF Inv, Honest, LaneOK
<1>7. \A i \in 1 .. Len(lane') : i \in 1 .. Len(lane) \/ (i = Len(lane) + 1 /\ lane'[i] = r)
  BY <1>5
<1>8. LaneOK'
  <2>1. \A i, j \in 1 .. Len(lane') : lane'[i] = lane'[j] => i = j
    BY <1>5, <1>6, <1>7 DEF LaneOK
  <2>2. \A i \in 1 .. Len(lane') : i # 1 => run'[lane'[i]].pc = "queued"
    BY <1>1, <1>3, <1>5, <1>6, <1>7 DEF LaneOK
  <2>3. ASSUME NEW q \in Reqs
        PROVE  (\E i \in 1 .. Len(lane') : lane'[i] = q)
               <=> (run'[q].pc # "idle" /\ answer'[q] = "none")
    <3>1. CASE q = r
      BY <3>1, <1>1, <1>2, <1>3, <1>5, <1>6
    <3>2. CASE q # r
      <4>1. (\E i \in 1 .. Len(lane') : lane'[i] = q)
            <=> (\E i \in 1 .. Len(lane) : lane[i] = q)
        BY <3>2, <1>5, <1>7
      <4>2. QED
        BY <3>2, <4>1, <1>2, <1>3 DEF LaneOK
    <3>3. QED
      BY <3>1, <3>2
  <2>4. QED
    BY <1>5, <2>1, <2>2, <2>3 DEF LaneOK
<1>9. Bounded'
  BY <1>1, <1>2, <1>3 DEF Bounded
<1>10. QED
  BY <1>8, <1>9

LEMMA BeginGoes ==
  ASSUME Lane, NEW r \in Reqs, Begin(r), ~run[r].aborted
  PROVE  Goes(r) /\ LaneOK' /\ Bounded'
<1> USE DEF Lane
<1>1. Attempt(r, 0) => Goes(r)
  BY AttemptGoes
<1>2. Unfit(r) => Goes(r)
  BY AsIsFound, SettleGoes DEF Unfit, Answers, Bounded
<1>3. Goes(r)
  BY <1>1, <1>2 DEF Begin
<1>4. QED
  BY <1>3, GoesOn DEF Begin

LEMMA AbortLane ==
  ASSUME Lane, NEW r \in Reqs, Abort(r) PROVE LaneOK' /\ Bounded'
<1> USE DEF Lane
<1>1. CASE run[r].pc \notin {"idle", "queued"} /\ CancelAndReject(r, "cancelled")
  BY <1>1, CancelLane DEF Reasons
<1>2. CASE /\ run' = [run EXCEPT ![r].aborted = TRUE]
           /\ UNCHANGED <<lane, answer, link, actionConnection, health>>
  <2>1. \A q \in Reqs : run'[q].pc = run[q].pc /\ run'[q].link = run[q].link
    BY <1>2 DEF Inv, Typed, RunRec
  <2>2. \A i \in 1 .. Len(lane) : lane[i] \in Reqs
    BY DEF LaneOK
  <2>3. QED
    BY <1>2, <2>1, <2>2 DEF LaneOK, Bounded
<1>3. QED
  BY <1>1, <1>2 DEF Abort

LEMMA CancelledLane ==
  ASSUME Lane, NEW r \in Reqs, NEW reason \in Reasons, Cancelled(r, reason)
  PROVE  LaneOK' /\ Bounded'
<1> DEFINE n == [run[r] EXCEPT !.cancelling = {}]
<1> USE DEF Lane
<1>1. run[r] \in RunRec /\ n.pc = run[r].pc /\ n.link = run[r].link
  BY DEF Inv, Typed, RunRec
<1>2. run' = [run EXCEPT ![r] = n] /\ lane' = Tail(lane) /\ UNCHANGED <<link, health>>
  BY DEF Cancelled
<1>3. PICK a \in {reason, "cancel_failed"} : answer' = [answer EXCEPT ![r] = a]
  BY DEF Cancelled
<1>4. answer[r] = "none" /\ run[r].pc \notin {"idle", "queued"} /\ a # "none"
  BY <1>3 DEF Cancelled, Inv, Honest, Reasons
<1> HIDE DEF n
<1>5. LaneOK'
  BY <1>1, <1>2, <1>3, <1>4, OwnsLane, LaneAdvances DEF Inv
<1>6. Bounded'
  BY <1>1, <1>2 DEF Bounded, Inv, Typed
<1>7. QED
  BY <1>5, <1>6

LEMMA CallerLane ==
  ASSUME Lane, NEW r \in Reqs, Caller(r) PROVE LaneOK' /\ Bounded'
<1>1. CASE Begin(r) /\ run[r].aborted
  BY <1>1, CancelLane DEF Begin, Reasons, Lane
<1>2. CASE Deadline(r)
  BY <1>2, CancelLane DEF Deadline, Reasons, Lane
<1>3. QED
  BY <1>1, <1>2, RequestLane, BeginGoes, AbortLane, CancelledLane DEF Caller

LEMMA FaultsStep ==
  ASSUME faults \in 0 .. MaxFaults, [Next]_vars PROVE faults' \in 0 .. MaxFaults
<1>1. MaxFaults \in Nat
  BY TransportAssumption
<1>2. ASSUME NEW kind, Strike(kind) PROVE faults' \in 0 .. MaxFaults
  BY <1>1, <1>2 DEF Strike
<1>3. CASE UNCHANGED vars
  BY <1>3 DEF vars
<1>4. CASE Close
  BY <1>2, <1>4 DEF Close
<1>5. ASSUME NEW r \in Reqs, Caller(r) PROVE faults' = faults \/ \E kind \in FaultKinds : Strike(kind)
  BY <1>5 DEF Caller, Request, Begin, Unfit, FaultKinds, Abort, Deadline, Cancelled
<1>6. ASSUME NEW l \in Links, Network(l) PROVE faults' = faults \/ \E kind \in FaultKinds : Strike(kind)
  BY <1>6 DEF Network, Connected, ConnectFails, HealthReply, ServiceBegins, ServiceFinishes,
              ActionReply, GarbledReply, ServiceCloses, SocketCloses, FaultKinds
<1>7. QED
  BY <1>2, <1>3, <1>4, <1>5, <1>6 DEF Next

Sound == Lane /\ faults \in 0 .. MaxFaults

LEMMA SoundStep == ASSUME Sound, [Next]_vars PROVE Sound'
<1> USE DEF Sound
<1>1. Inv'
  BY AnyStep DEF Lane
<1>2. faults' \in 0 .. MaxFaults
  BY FaultsStep
<1>3. LaneOK' /\ Bounded'
  <2>1. CASE UNCHANGED vars
    BY <2>1 DEF vars, Lane, LaneOK, Bounded
  <2>2. CASE Close
    BY <2>2, CloseIdles, IdlesLane
  <2>3. ASSUME NEW r \in Reqs, Caller(r) PROVE LaneOK' /\ Bounded'
    BY <2>3, CallerLane
  <2>4. ASSUME NEW l \in Links, Network(l) PROVE LaneOK' /\ Bounded'
    BY <2>4, NetworkGoes, IdlesLane, ConnectedLane, GoerLane
  <2>5. QED
    BY <2>1, <2>2, <2>3, <2>4 DEF Next
<1>4. QED
  BY <1>1, <1>2, <1>3 DEF Lane

LEMMA SoundStart == ASSUME Init PROVE Sound
<1>1. Inv
  BY Start
<1>2. NewRun.pc = "idle" /\ NewRun.link = 0
  BY DEF NewRun
<1>3. Len(lane) = 0 /\ lane \in Seq(Reqs) /\ Len(link) = 0
  BY DEF Init
<1>4. \A q \in Reqs : run[q].pc = "idle" /\ run[q].link = 0
  BY <1>2 DEF Init
<1>5. LaneOK
  BY <1>3, <1>4 DEF LaneOK
<1>6. Bounded
  <2>1. health \in BOOLEAN
    <3>1. health = FALSE
      BY DEF Init
    <3>2. QED
      BY <3>1, Zenon
  <2>2. 0 <= 0
    OBVIOUS
  <2>3. \A q \in Reqs : run[q].link <= Len(link)
    BY <1>3, <1>4, <2>2, Zenon
  <2>4. QED
    BY <2>1, <2>3 DEF Bounded
<1>7. faults \in 0 .. MaxFaults
  BY TransportAssumption DEF Init
<1>8. QED
  BY <1>1, <1>5, <1>6, <1>7 DEF Sound, Lane

LEMMA SoundTypes == ASSUME Sound PROVE TypeOK
<1>1. Len(link) \in Nat /\ \A q \in Reqs : run[q].link \in 0 .. Len(link)
  BY LinksGrow DEF Sound, Lane, Bounded
<1>2. run \in [Reqs -> [ pc : Waits \cup {"idle", "queued", "over"}, link : 0 .. Len(link),
                         attempt : 0 .. 1, hattempt : 0 .. 1, cancelled : BOOLEAN,
                         aborted : BOOLEAN, fired : SUBSET Reasons,
                         cancelling : SUBSET Reasons ]]
  <2>1. run \in [Reqs -> RunRec]
    BY DEF Sound, Lane, Inv, Typed
  <2>2. \A q \in Reqs : run[q] \in RunRec
    BY <2>1
  <2>3. QED
    BY <1>1, <2>1, <2>2 DEF RunRec, PCs
<1>3. \A l \in Links : link[l] \in LinkRec
  BY DEF Sound, Lane, Inv, LinksOK, Links
<1>4. QED
  BY <1>2, <1>3 DEF TypeOK, Sound, Lane, Inv, Typed, LinksOK, LaneOK, Bounded, LinkRec

\* A promise settles once and gives the lane to the next request: the lane holds
\* the requests that are not settled, each once, only the first of them has
\* begun, and a run awaits no link that was not opened.
THEOREM TransportType == Spec => []TypeOK
<1>1. Init => Sound
  BY SoundStart
<1>2. Sound /\ [Next]_vars => Sound'
  BY SoundStep
<1>3. Sound => TypeOK
  BY SoundTypes
<1>4. QED
  BY <1>1, <1>2, <1>3, PTL DEF Spec
-----------------------------------------------------------------------------
\* Without aborts and deadlines no run is given up, so there is one at a time.
Whole ==
  /\ Tidy(link, actionConnection)
  /\ \A q \in Reqs : SameFlags(run[q], NewRun)

LEMMA GoesWhole ==
  ASSUME Lane, Whole, NEW r \in Reqs, Goes(r) PROVE Whole'
<1>1. \A q \in Reqs : run[q] \in RunRec
  BY DEF Lane, Inv, Typed
<1>2. \A q \in Reqs : SameFlags(run'[q], run[q])
  <2>1. CASE \E a \in Answers \ {"none"} : Settle(r, a)
    <3>1. run' = [run EXCEPT ![r] = [run[r] EXCEPT !.pc = "over"]]
      BY <2>1 DEF Settle
    <3>2. QED
      BY <1>1, <3>1 DEF SameFlags, RunRec, Lane, Inv, Typed
  <2>2. CASE \E n \in RunRec : SameFlags(n, run[r]) /\ run' = [run EXCEPT ![r] = n]
    BY <1>1, <2>2 DEF SameFlags, Lane, Inv, Typed
  <2>3. QED
    BY <2>1, <2>2 DEF Goes
<1>3. Tidy(link', actionConnection')
  BY DEF Goes, Whole
<1>4. QED
  BY <1>2, <1>3 DEF Whole, SameFlags

LEMMA ConnectedWhole ==
  ASSUME Lane, Whole, NEW l \in Links, Connected(l) PROVE Whole'
<1> USE DEF Lane
<1>1. PICK r \in Reqs, n \in RunRec :
           /\ run[r].pc \in {"connect", "reconnect"} /\ run[r].link = l /\ link[l].req = r
           /\ SameFlags(n, run[r]) /\ run' = [run EXCEPT ![r] = n]
           /\ actionConnection' = l /\ Len(link') = Len(link)
           /\ \A k \in Links : k # l => link'[k] = link[k]
  BY ConnectedRuns
<1>2. \A q \in Reqs : SameFlags(run'[q], run[q])
  BY <1>1 DEF SameFlags, Inv, Typed
<1>3. link[l].state = "connecting" /\ actionConnection = 0 /\ link'[l].state = "open"
  BY ConnectedRuns DEF Connected, Whole, Tidy, Links
\* Another run that connects would own the lane as well.
<1>4. \A k \in Links : k # l => link[k].state # "connecting"
  <2> SUFFICES ASSUME NEW k \in Links, k # l, link[k].state = "connecting" PROVE FALSE
    OBVIOUS
  <2>1. link[k].req # NoReq /\ link[k] \in LinkRec
    BY DEF Inv, LinksOK, Links
  <2>2. PICK q \in Reqs : q = link[k].req
    BY <2>1 DEF LinkRec
  <2>3. run[q].link = k /\ run[q].pc \in Waits
    BY <2>1, <2>2 DEF Inv, Waiting, Linked
  <2>4. answer[q] = "none" /\ answer[r] = "none"
    BY <1>1, <2>3 DEF Inv, Honest, Whole, SameFlags, NewRun, Waits
  <2>5. Head(lane) = q /\ Head(lane) = r
    BY <1>1, <2>3, <2>4, OwnsLane DEF Waits
  <2>6. QED
    BY <1>1, <2>3, <2>5
<1>5. \A k \in Links : k # l => link'[k].state \notin {"open", "connecting"}
  BY <1>1, <1>3, <1>4 DEF Whole, Tidy, Links
<1>6. Tidy(link', actionConnection')
  BY <1>1, <1>3, <1>5 DEF Tidy, Links
<1>7. QED
  BY <1>2, <1>6 DEF Whole, SameFlags

LEMMA WholeStep ==
  ASSUME "abort" \notin Faults, "deadline" \notin Faults, Sound, Whole, [Next]_vars PROVE Whole'
<1> USE DEF Sound
<1>1. CASE UNCHANGED vars
  BY <1>1 DEF vars, Whole, Tidy, SameFlags
<1>2. ASSUME Idles PROVE Whole'
  BY <1>2 DEF Idles, Whole, SameFlags
<1>3. ASSUME NEW r \in Reqs, Caller(r) PROVE Whole'
  <2>1. ~run[r].aborted /\ run[r].cancelling = {}
    BY DEF Whole, SameFlags, NewRun
  <2>2. CASE Begin(r)
    BY <2>1, <2>2, BeginGoes, GoesWhole
  <2>3. CASE Request(r)
    <3>1. \A q \in Reqs : run[q] \in RunRec
      BY DEF Lane, Inv, Typed
    <3>2. \A q \in Reqs : SameFlags(run'[q], run[q])
      BY <3>1, <2>3 DEF Request, SameFlags, RunRec, Lane, Inv, Typed
    <3>3. UNCHANGED <<link, actionConnection>>
      BY <2>3 DEF Request
    <3>4. QED
      BY <3>2, <3>3 DEF Whole, SameFlags, Tidy
  <2>4. QED
    BY <1>3, <2>1, <2>2, <2>3 DEF Caller, Abort, Deadline, Cancelled
<1>4. ASSUME NEW l \in Links, Network(l) PROVE Whole'
  BY <1>2, <1>4, NetworkGoes, ConnectedWhole, GoesWhole DEF Goer
<1>5. QED
  BY <1>1, <1>2, <1>3, <1>4, CloseIdles DEF Next

LEMMA WholeStart == ASSUME Init PROVE Whole
<1>1. Len(link) = 0 /\ \A q \in Reqs : run[q] = NewRun
  BY DEF Init
<1>2. QED
  BY <1>1 DEF Whole, Tidy, SameFlags

LEMMA WholeKeeps == ASSUME Sound, Whole PROVE NoLeak
<1> SUFFICES ASSUME NEW l \in Links, link[l].state = "connecting"
             PROVE  \E r \in Reqs : run[r].pc \in Waits /\ run[r].link = l
  BY DEF NoLeak, Whole, Tidy, Links
<1> USE DEF Sound, Lane
<1>1. link[l].req # NoReq /\ link[l] \in LinkRec
  BY DEF Inv, LinksOK, Links
<1>2. link[l].req \in Reqs
  BY <1>1 DEF LinkRec
<1>3. QED
  BY <1>1, <1>2 DEF Inv, Waiting, Linked

\* Whatever is refused, broken, garbled or retried, and whenever the transport
\* is closed, the socket that is open is the action connection, or a run awaits
\* it: no path forgets one.  This takes a transport whose callers do not give
\* up: a run that was given up may connect while the next one does, and the
\* later of the two connections replaces the other, which stays open.
THEOREM TransportForgetsNoSocket ==
  ASSUME "abort" \notin Faults, "deadline" \notin Faults
  PROVE  Spec => []NoLeak
<1>1. Init => Sound /\ Whole
  BY SoundStart, WholeStart
<1>2. Sound /\ Whole /\ [Next]_vars => Sound' /\ Whole'
  BY SoundStep, WholeStep
<1>3. Sound /\ Whole => NoLeak
  BY WholeKeeps
<1>4. QED
  BY <1>1, <1>2, <1>3, PTL DEF Spec
=============================================================================
