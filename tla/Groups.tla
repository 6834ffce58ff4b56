------------------------------- MODULE Groups -------------------------------
(***************************************************************************)
(* One entry of the group registry of the browser control plane            *)
(* (control_plane/group.rs and lease.rs): a browser-control group, the     *)
(* lease that says who may drive its tabs, and the settlements that freeze *)
(* it while the outcome of a dispatched mutation is unknown.  Every method *)
(* of GroupRegistry that changes one group is an operator from a group to  *)
(* a group; the conditions it checks first are operators of their own.     *)
(* The module has no variables: Scheduler keeps one such record per group. *)
(*                                                                         *)
(* Time is relative.  `expires` is what is left of expires_at_ms and       *)
(* `grace` what is left of grace_until_ms, both measured by the clock the  *)
(* scheduler keeps in now_ms and both stopping at 0, so the test           *)
(* now_ms >= expires_at_ms reads expires = 0.                              *)
(***************************************************************************)
EXTENDS Naturals

CONSTANTS
  Ops,              \* operation ids
  Tabs,             \* tab keys
  Browsers,         \* browser instance ids
  Principals,       \* authenticated principals
  UidOf,            \* the operating-system user of a principal
  IdleLease,        \* IDLE_LEASE_MS, in clock units
  DisconnectGrace   \* DISCONNECT_GRACE_MS, in clock units

ASSUME TimersAssumption ==
  /\ IdleLease \in Nat \ {0}
  /\ DisconnectGrace \in Nat \ {0}

Admissions == { "Open", "HandoffPending", "ExpiryPending", "SettlementPending",
                "RecoveryRequired", "Suspended", "Released" }

LeaseStates == { "Active", "OrphanedGrace", "ExpiryPending", "Suspended", "Released" }

\* The payload of GroupAdmission::HandoffPending.
HandoffOffer == [target : Principals, membership_revision : Nat]

\* A lease proof names its group too; Scheduler only ever checks a proof
\* against the group it names.
LeaseProof == [lease_id : Nat, fence : Nat]

(***************************************************************************)
(* GroupSnapshot and LeaseSnapshot in one record, with the entries the     *)
(* registry keeps for the group in pending_settlements,                    *)
(* unknown_settlements and deferred_admission ("None" when there is none). *)
(* `present` says whether the registry holds the group at all.  The offer  *)
(* is read only while the admission, or the deferred admission, is         *)
(* HandoffPending.                                                         *)
(***************************************************************************)
GroupState ==
  [ present             : BOOLEAN,
    browser_instance_id : Browsers,
    members             : SUBSET Tabs,
    membership_revision : Nat,
    admission           : Admissions,
    offer               : HandoffOffer,
    lease_id            : Nat,
    principal           : Principals,
    fence               : Nat,
    lease_state         : LeaseStates,
    expires             : 0 .. IdleLease,
    grace               : 0 .. DisconnectGrace,
    pending             : SUBSET Ops,
    unknown             : SUBSET Ops,
    deferred            : Admissions \cup {"None"} ]

\* Mutant: the minimum mistaken for the maximum.
BugAtMost(a, b) == IF a < b THEN b ELSE a

AtMost(a, b) == IF a < b THEN a ELSE b

Proof(s) == [lease_id |-> s.lease_id, fence |-> s.fence]

-----------------------------------------------------------------------------
(* The lease: lease.rs.                                                     *)

\* `grace` is the payload of OrphanedGrace and is 0 in every other state.
LeaseIn(s, lease_state) == [s EXCEPT !.lease_state = lease_state, !.grace = 0]

\* LeaseSnapshot::renew.
Unexpired(s) == [LeaseIn(s, "Active") EXCEPT !.expires = IdleLease]

\* LeaseSnapshot::disconnect: the grace never outlives the idle deadline.
Orphaned(s) == [s EXCEPT !.lease_state = "OrphanedGrace",
                         !.grace = AtMost(s.expires, DisconnectGrace)]

BlocksAdmission(s) == s.lease_state # "Active" \/ s.expires = 0

\* The clock moves on by one unit.
Older(s) == [s EXCEPT !.expires = IF @ = 0 THEN 0 ELSE @ - 1,
                      !.grace   = IF @ = 0 THEN 0 ELSE @ - 1]

-----------------------------------------------------------------------------
(* What a caller must show.                                                 *)

OpenOwner(s, principal) == s.principal = principal /\ s.admission = "Open"

HasUnresolved(s) == s.pending # {}

ValidProof(s, proof) == s.present /\ proof = Proof(s)

Validates(s, proof, principal, tab) ==
  /\ ValidProof(s, proof)
  /\ OpenOwner(s, principal)
  /\ ~ BlocksAdmission(s)
  /\ tab \in s.members

ValidatesBridgeGlobal(s, principal, browser) ==
  /\ s.present
  /\ OpenOwner(s, principal)
  /\ s.browser_instance_id = browser
  /\ ~ BlocksAdmission(s)

-----------------------------------------------------------------------------
(* Creation, pruning, membership.                                           *)

\* create returns the existing group unless it was released.
Creatable(s) == ~ s.present \/ s.admission = "Released"

Created(s, browser, principal, lease_id) ==
  [s EXCEPT !.present = TRUE,
            !.browser_instance_id = browser,
            !.members = {},
            !.membership_revision = 0,
            !.admission = "Open",
            !.lease_id = lease_id,
            !.principal = principal,
            !.fence = 1,
            !.lease_state = "Active",
            !.expires = IdleLease,
            !.grace = 0]

Prunable(s, in_flight) ==
  /\ s.present
  /\ s.admission = "Released"
  /\ in_flight = 0
  /\ ~ HasUnresolved(s)
  /\ s.deferred = "None"

Pruned(s) == [s EXCEPT !.present = FALSE, !.pending = {}, !.unknown = {},
                       !.deferred = "None"]

CanAddMember(s, principal, browser) ==
  /\ s.present
  /\ OpenOwner(s, principal)
  /\ s.browser_instance_id = browser

WithMember(s, tab) ==
  IF tab \in s.members THEN s
  ELSE [s EXCEPT !.members = @ \cup {tab}, !.membership_revision = @ + 1]

WithoutBrowserTargets(s, browser) ==
  IF s.present /\ s.browser_instance_id = browser /\ s.members # {}
  THEN [s EXCEPT !.members = {}, !.membership_revision = @ + 1]
  ELSE s

\* browser_lost bumps the fence, so that every proof already issued is stale.
AfterBrowserLost(s, browser) ==
  IF ~ s.present \/ s.browser_instance_id # browser \/ s.admission = "Released" THEN s
  ELSE [LeaseIn(s, "Suspended") EXCEPT
          !.members = {},
          !.membership_revision = IF s.members = {} THEN @ ELSE @ + 1,
          !.fence = @ + 1,
          !.admission = "RecoveryRequired"]

-----------------------------------------------------------------------------
(* Renewal, disconnection, recovery and handoff.                            *)

InGrace(s) == s.lease_state = "OrphanedGrace" /\ s.grace > 0

\* An orphaned lease is renewed inside its grace only; a group whose admission
\* is closed for a while is renewed only by the reconnection of its owner.
CanRenew(s, proof, principal) ==
  /\ ValidProof(s, proof)
  /\ s.principal = principal
  /\ s.lease_state = "OrphanedGrace" => s.grace > 0
  /\ \/ s.admission = "Open"
     \/ /\ s.admission \in {"HandoffPending", "ExpiryPending", "SettlementPending"}
        /\ InGrace(s)

MarkDisconnected(s, principal) ==
  IF s.present /\ s.principal = principal /\ s.lease_state # "Released"
  THEN Orphaned(s) ELSE s

CanResume(s, browser, principal, members, revision) ==
  /\ s.present
  /\ s.admission = "Suspended"
  /\ s.browser_instance_id = browser
  /\ s.principal = principal
  /\ s.members = members
  /\ s.membership_revision = revision

Resumed(s, lease_id) ==
  [Unexpired(s) EXCEPT !.lease_id = lease_id, !.admission = "Open"]

CanOffer(s, principal, revision) ==
  /\ s.present
  /\ OpenOwner(s, principal)
  /\ s.membership_revision = revision

Offered(s, target, revision) ==
  [s EXCEPT !.admission = "HandoffPending",
            !.offer = [target |-> target, membership_revision |-> revision]]

\* Mutant: an operation in flight does not delay the handoff.
BugCanAccept(s, target, revision, in_flight) ==
  /\ s.present
  /\ s.admission = "HandoffPending"
  /\ s.offer = [target |-> target, membership_revision |-> revision]
  /\ s.membership_revision = revision

CanAccept(s, target, revision, in_flight) ==
  /\ in_flight = 0
  /\ s.present
  /\ s.admission = "HandoffPending"
  /\ s.offer = [target |-> target, membership_revision |-> revision]
  /\ s.membership_revision = revision

CanForce(s, requester, target, revision, in_flight) ==
  /\ ~ HasUnresolved(s)
  /\ s.present
  /\ s.admission \notin {"RecoveryRequired", "SettlementPending"}
  /\ UidOf[requester] = UidOf[s.principal]
  /\ UidOf[target] = UidOf[requester]
  /\ s.membership_revision = revision
  /\ in_flight = 0

\* Mutant: the fence is not advanced.
BugMoved(s, target) ==
  [Unexpired(s) EXCEPT !.principal = target, !.admission = "Open"]

\* move_owner: the fence bump makes the old owner's proof stale.
Moved(s, target) ==
  [Unexpired(s) EXCEPT !.principal = target, !.fence = @ + 1, !.admission = "Open"]

-----------------------------------------------------------------------------
(* Settlements: the group is frozen while an outcome is outstanding, and    *)
(* what it was doing before is kept in `deferred`.                          *)

ReleaseExpired(s) ==
  [LeaseIn(s, "Released") EXCEPT !.fence = @ + 1, !.admission = "Released"]

\* Mutant: the group is frozen but still open.
BugBeginSettlement(s, op) ==
  [s EXCEPT
     !.deferred = IF s.present /\ ~ HasUnresolved(s) THEN s.admission ELSE @,
     !.pending = @ \cup {op}]

\* An absent group keeps its pending set but has no admission to defer.
BeginSettlement(s, op) ==
  [s EXCEPT
     !.deferred = IF s.present /\ ~ HasUnresolved(s) THEN s.admission ELSE @,
     !.pending = @ \cup {op},
     !.admission = IF s.present THEN "SettlementPending" ELSE @]

MarkUnknown(s, ops) ==
  LET known == ops \cap s.pending IN
  [s EXCEPT
     !.unknown = @ \cup known,
     !.admission = IF s.present /\ known # {} THEN "RecoveryRequired" ELSE @]

\* The last settlement gives back a deferred handoff, applies a deferred
\* expiry, and opens the group in every other case.
Unfrozen(s) ==
  LET open == [s EXCEPT !.deferred = "None"] IN
  CASE ~ s.present -> open
    [] s.present /\ s.deferred = "ExpiryPending" -> ReleaseExpired(open)
    [] s.present /\ s.deferred = "HandoffPending" ->
         [open EXCEPT !.admission = "HandoffPending"]
    [] OTHER -> [open EXCEPT !.admission = "Open"]

\* Mutant: a settled operation stays in the unknown set.
BugFinishSettlement(s, op) ==
  LET t == [s EXCEPT !.pending = @ \ {op}] IN
  IF ~ HasUnresolved(t) THEN Unfrozen(t)
  ELSE IF ~ s.present THEN t
  ELSE [t EXCEPT !.admission =
          IF t.unknown # {} THEN "RecoveryRequired" ELSE "SettlementPending"]

FinishSettlement(s, op) ==
  LET t == [s EXCEPT !.pending = @ \ {op}, !.unknown = @ \ {op}] IN
  IF ~ HasUnresolved(t) THEN Unfrozen(t)
  ELSE IF ~ s.present THEN t
  ELSE [t EXCEPT !.admission =
          IF t.unknown # {} THEN "RecoveryRequired" ELSE "SettlementPending"]

\* Mutant: the unresolved settlements of the group are not looked at.
BugFinishExecution(s) ==
  IF s.present /\ s.admission = "ExpiryPending" THEN ReleaseExpired(s) ELSE s

FinishExecution(s) ==
  IF s.present /\ ~ HasUnresolved(s) /\ s.admission = "ExpiryPending"
  THEN ReleaseExpired(s) ELSE s

-----------------------------------------------------------------------------
(* The end of a group: on request and by the clock.                         *)

CanEnd(s, principal) == s.present /\ s.principal = principal

\* Mutant: the group is released under an operation in flight.
BugEnded(s, in_flight) ==
  LET t == [LeaseIn(s, "ExpiryPending") EXCEPT
              !.deferred = IF HasUnresolved(s) THEN "ExpiryPending" ELSE @,
              !.admission = "ExpiryPending"] IN
  IF ~ HasUnresolved(s) THEN ReleaseExpired(t) ELSE t

Ended(s, in_flight) ==
  LET t == [LeaseIn(s, "ExpiryPending") EXCEPT
              !.deferred = IF HasUnresolved(s) THEN "ExpiryPending" ELSE @,
              !.admission = "ExpiryPending"] IN
  IF ~ HasUnresolved(s) /\ in_flight = 0 THEN ReleaseExpired(t) ELSE t

\* The lease ran out, and this pass of the timer looks at the group.
Lapsed(s) ==
  /\ s.present
  /\ s.lease_state # "Suspended"
  /\ s.admission # "Released"
  /\ s.expires = 0 \/ (s.lease_state = "OrphanedGrace" /\ s.grace = 0)

\* The part of the flag expire() returns that this group contributes.
ExpireReports(s) ==
  Lapsed(s) /\ (HasUnresolved(s) \/ s.admission # "RecoveryRequired")

\* Mutant: a pending settlement does not delay the expiry.
BugExpire(s, in_flight) ==
  IF ~ Lapsed(s) \/ s.admission = "RecoveryRequired" THEN s
  ELSE IF in_flight = 0 THEN ReleaseExpired(s)
  ELSE [LeaseIn(s, "ExpiryPending") EXCEPT !.admission = "ExpiryPending"]

\* Mutant: the expiry waits for the end of an execution when there is none.
BugExpireWaits(s, in_flight) ==
  IF ~ Lapsed(s) THEN s
  ELSE IF HasUnresolved(s)
    THEN [LeaseIn(s, "ExpiryPending") EXCEPT !.deferred = "ExpiryPending"]
  ELSE IF s.admission = "RecoveryRequired" THEN s
  ELSE [LeaseIn(s, "ExpiryPending") EXCEPT !.admission = "ExpiryPending"]

Expire(s, in_flight) ==
  IF ~ Lapsed(s) THEN s
  ELSE IF HasUnresolved(s)
    THEN [LeaseIn(s, "ExpiryPending") EXCEPT !.deferred = "ExpiryPending"]
  ELSE IF s.admission = "RecoveryRequired" THEN s
  ELSE IF in_flight = 0 THEN ReleaseExpired(s)
  ELSE [LeaseIn(s, "ExpiryPending") EXCEPT !.admission = "ExpiryPending"]
=============================================================================
