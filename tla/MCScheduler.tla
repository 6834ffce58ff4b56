----------------------------- MODULE MCScheduler -----------------------------
(* Small instances of Scheduler for TLC.                                    *)
EXTENDS Scheduler

CONSTANTS o1, o2, o3, o4, o5, o6, t1, t2, b1, b2, g1, g2, c1, c2, p1, p2

Placement == [t \in Tabs |-> b1]
Homes == [g \in GroupIds |-> b1]
Owners == [g \in GroupIds |-> p1]
OneUid == [p \in Principals |-> 1000]

Asks(lane, group, client, principal, class) ==
  [on |-> lane, group |-> group, client |-> client, principal |-> principal,
   class |-> class]

\* Two operations follow one another on the first tab while a third, on the
\* second tab, shares their group and their browser.
TwoTabs ==
  [o \in Ops |->
     CASE o = o1 -> Asks(t1, g1, c1, p1, "Mutation")
       [] o = o2 -> Asks(t2, g1, c1, p1, "Mutation")
       [] OTHER  -> Asks(t1, g1, c1, p1, "ReadOnly")]

\* A mutation on each tab and one of the browser itself, all of one group.
OneGroup ==
  [o \in Ops |->
     CASE o = o1 -> Asks(t1, g1, c1, p1, "Mutation")
       [] o = o2 -> Asks(t2, g1, c1, p1, "Mutation")
       [] OTHER  -> Asks(b1, g1, c1, p1, "BrowserGlobal")]

\* An operation on a tab, two on its browser, one of the daemon, and an idle tab.
EveryLane ==
  [o \in Ops |->
     CASE o = o1 -> Asks(t1, g1, c1, p1, "Mutation")
       [] o \in {o2, o3} -> Asks(b1, g1, c1, p1, "AbsoluteSet")
       [] OTHER  -> Asks(Daemon, NoGroup, c1, p1, "ReadOnly")]

\* The group may change hands between its two users.
TwoOwners ==
  [o \in Ops |->
     CASE o \in {o1, o2} -> Asks(t1, g1, c1, p1, "Mutation")
       [] OTHER  -> Asks(t1, g1, c2, p2, "Mutation")]

\* Two clients of one owner share a tab, against two global operations of its
\* browser and two of the daemon.
Shared ==
  [o \in Ops |->
     CASE o = o1 -> Asks(t1, g1, c1, p1, "Mutation")
       [] o = o2 -> Asks(t1, g1, c2, p1, "Mutation")
       [] o = o3 -> Asks(b1, NoGroup, c1, p1, "ReadOnly")
       [] o = o4 -> Asks(b1, NoGroup, c2, p1, "ReadOnly")
       [] OTHER  -> Asks(Daemon, NoGroup, c2, p1, "ReadOnly")]

\* Two operations on a tab, two on the browser itself outside any group.
TwoGlobals ==
  [o \in Ops |->
     CASE o = o1 -> Asks(t1, g1, c1, p1, "Mutation")
       [] o = o2 -> Asks(t1, g1, c1, p1, "ReadOnly")
       [] OTHER  -> Asks(b1, NoGroup, c2, p1, "ReadOnly")]

\* Three operations of raw clients on the browser itself, outside any group.
LostGlobals == [o \in Ops |-> Asks(b1, NoGroup, c1, p1, "Mutation")]
=============================================================================
