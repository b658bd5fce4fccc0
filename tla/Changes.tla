------------------------------ MODULE Changes -------------------------------
(***************************************************************************)
(* ChangesController: an operator requests a change, another one reviews   *)
(* it, and an approved change is applied to the record as the requester    *)
(* saw it.  AdminGuard reads an operator's permissions before the handler  *)
(* runs; by then other changes, to the record or to the permissions        *)
(* themselves, may have been approved.                                     *)
(*                                                                         *)
(* A role is a single permission here.  An identity review and a market's  *)
(* switch are requested and reviewed like a payment method.                *)
(***************************************************************************)
EXTENDS Integers, FiniteSets

CONSTANTS
  Operators,
  ChangeIds,
  Customers,    \* targets of USER_CONTROLS
  Methods,      \* targets of PAYMENT_METHOD
  Settings,     \* what such a record may hold
  Roles,        \* the roles that changes give or take
  FirstHolds    \* the permissions provisioned to each operator

Permissions == {"USER_CONTROLS", "PAYMENT_METHOD", "ADMIN_ROLE", "REVIEW"}

ASSUME ChangesAssumption ==
  /\ IsFiniteSet(ChangeIds)
  /\ Roles \subseteq Permissions
  /\ FirstHolds \in [Operators -> SUBSET Permissions]

VARIABLES
  setting,   \* the users and payment_methods rows a change is about
  holds,     \* admin_role_assignments
  stamp,     \* how often each record was written: its updatedAt, or the
             \* createdAt of an operator's assignments
  change,    \* admin_changes
  acting     \* the request an operator makes, with the permissions AdminGuard read

changesVars == <<setting, holds, stamp, change, acting>>

Records == Customers \cup Methods
NoChange == [status |-> "NONE"]
NotActing == [does |-> "NOTHING"]

KindOf(target) ==
  CASE target \in Customers -> "USER_CONTROLS"
    [] target \in Methods   -> "PAYMENT_METHOD"
    [] OTHER                -> "ADMIN_ROLE"

(* validate: a role to give or to take, or all the values of a record.     *)
Payloads(target) ==
  IF target \in Operators THEN [role : Roles, remove : BOOLEAN] ELSE Settings

(* snapshot: the switches of a customer alone, every other record with its *)
(* times.                                                                  *)
Snapshot(target) ==
  CASE target \in Customers -> [values |-> setting[target]]
    [] target \in Methods   -> [values |-> setting[target], stamp |-> stamp[target]]
    [] OTHER                -> [assigned |-> holds[target], stamp |-> stamp[target]]

ChangesInit ==
  /\ setting \in [Records -> Settings]
  /\ holds = FirstHolds
  /\ stamp = [t \in Records \cup Operators |-> 0]
  /\ change = [id \in ChangeIds |-> NoChange]
  /\ acting = [o \in Operators |-> NotActing]

(* AdminGuard lets an operator in, with the permissions held by then.      *)
Enter(o) ==
  /\ acting[o] = NotActing
  /\ acting' = [acting EXCEPT ![o] = [does |-> "REQUEST", may |-> holds[o]]]
  /\ UNCHANGED <<setting, holds, stamp, change>>

Leave(o) == acting' = [acting EXCEPT ![o] = NotActing]
Allowed(o, permission) == acting[o] # NotActing /\ permission \in acting[o].may

(* create.                                                                 *)
RequestChange(o, id, target, payload) ==
  /\ Allowed(o, KindOf(target))
  /\ change[id] = NoChange
  /\ change' = [change EXCEPT ![id] =
       [status |-> "PENDING", target |-> target, payload |-> payload,
        seen |-> Snapshot(target), maker |-> o, reviewer |-> o]]
  /\ Leave(o)
  /\ UNCHANGED <<setting, holds, stamp>>

MayReview(o, id) ==
  /\ Allowed(o, "REVIEW")
  /\ change[id].status = "PENDING"
  /\ change[id].maker # o
  /\ Allowed(o, KindOf(change[id].target))

Reviewed(o, id, status) ==
  change' = [change EXCEPT ![id].status = status, ![id].reviewer = o]

RejectChange(o, id) ==
  /\ MayReview(o, id)
  /\ Reviewed(o, id, "REJECTED")
  /\ Leave(o)
  /\ UNCHANGED <<setting, holds, stamp>>

(* Faulty: does not look whether the record is still the one requested on. *)
MayApproveAnyRecord(o, id) ==
  LET c == change[id]
  IN  /\ MayReview(o, id)
      /\ KindOf(c.target) \in holds[c.maker]
      /\ c.target \notin {o, c.maker}

(* What review checks before it applies a change: the fingerprint, the     *)
(* requester's authority as it is now, and that nobody's own permissions   *)
(* are at stake.  Approving is a serializable transaction.                 *)
MayApprove(o, id) ==
  LET c == change[id]
  IN  /\ MayReview(o, id)
      /\ Snapshot(c.target) = c.seen
      /\ KindOf(c.target) \in holds[c.maker]
      /\ c.target \notin {o, c.maker}

ApplyRole(o, p) ==
  /\ holds' = [holds EXCEPT ![o] = IF p.remove THEN @ \ {p.role} ELSE @ \cup {p.role}]
  /\ stamp' = IF ~p.remove /\ p.role \notin holds[o]
                THEN [stamp EXCEPT ![o] = @ + 1] ELSE stamp
  /\ UNCHANGED setting

ApplySetting(t, value) ==
  /\ setting' = [setting EXCEPT ![t] = value]
  /\ stamp' = [stamp EXCEPT ![t] = @ + 1]
  /\ UNCHANGED holds

ApproveChange(o, id) ==
  LET c == change[id]
  IN  /\ MayApprove(o, id)
      /\ IF c.target \in Operators THEN ApplyRole(c.target, c.payload)
         ELSE ApplySetting(c.target, c.payload)
      /\ Reviewed(o, id, "APPROVED")
      /\ Leave(o)

(* Whatever was refused: a changed record, a requester without authority,  *)
(* a missing permission.                                                   *)
TurnedAway(o) ==
  /\ acting[o] # NotActing
  /\ Leave(o)
  /\ UNCHANGED <<setting, holds, stamp, change>>

ChangesNext ==
  \E o \in Operators :
    \/ Enter(o) \/ TurnedAway(o)
    \/ \E id \in ChangeIds :
         \/ RejectChange(o, id) \/ ApproveChange(o, id)
         \/ \E target \in Records \cup Operators :
              \E payload \in Payloads(target) : RequestChange(o, id, target, payload)

ChangesSpec == ChangesInit /\ [][ChangesNext]_changesVars

-----------------------------------------------------------------------------
Approves(id, t) == /\ change[id].status = "PENDING"
                   /\ change'[id].status = "APPROVED"
                   /\ change[id].target = t

(* changes.module.ts review: whatever a review writes, it is one change,   *)
(* made by another operator who still has that authority, to the record as *)
(* that operator saw it, and nobody's permissions change by own request.   *)
(* Of two changes requested on one record, the second is never applied     *)
(* over the first.                                                         *)
AppliedAsRequested ==
  [][\A t \in Records \cup Operators :
       (t \in Records /\ setting'[t] # setting[t]) \/ (t \in Operators /\ holds'[t] # holds[t])
         => \E id \in ChangeIds :
              /\ Approves(id, t)
              /\ change[id].seen = Snapshot(t)
              /\ KindOf(t) \in holds[change[id].maker]
              /\ change'[id].reviewer \notin {t, change[id].maker}
              /\ change[id].maker # t]_changesVars
=============================================================================
