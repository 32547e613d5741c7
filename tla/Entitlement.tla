---------------------------- MODULE Entitlement ----------------------------
(***************************************************************************)
(* What an App Store notification means for a subscription, as decided by  *)
(* src/modules/billing/entitlement.ts: a pure table without clock or I/O.  *)
(*                                                                         *)
(* Dates are naturals (milliseconds in the code, ticks here) and Null is   *)
(* the absent value of an optional field or an absent row.                 *)
(***************************************************************************)
EXTENDS Naturals

CONSTANT Null

ASSUME NullAssumption == Null \notin Nat

(* The constraint on the column status of billing_subscriptions.           *)
Statuses == {"active", "grace_period", "expired", "revoked"}

(* The notification types this build has an opinion on.                    *)
HandledTypes ==
  { "SUBSCRIBED", "DID_RENEW", "DID_CHANGE_RENEWAL_STATUS",
    "DID_FAIL_TO_RENEW", "GRACE_PERIOD_EXPIRED", "EXPIRED", "REFUND" }

IsHandledNotificationType(type) == type \in HandledTypes

IsEntitling(status) == status \in {"active", "grace_period"}

(* mutation: the status alone decides                                      *)
IsCurrentlyEntitled_StatusOnly(status, expiresAt, now) == IsEntitling(status)

(* The status alone is not enough: a lapsed expiry refuses, except in the  *)
(* grace period, whose expiry has passed by definition.                    *)
IsCurrentlyEntitled(status, expiresAt, now) ==
  /\ IsEntitling(status)
  /\ \/ status = "grace_period"
     \/ expiresAt = Null
     \/ expiresAt > now

(* mutation: the end of a grace period is taken for one more failed try   *)
ResolveOutcome_GraceNeverEnds(type, subtype) ==
  CASE type \in {"SUBSCRIBED", "DID_RENEW", "DID_CHANGE_RENEWAL_STATUS"} ->
         [status |-> "active", ends |-> FALSE]
    [] type \in {"DID_FAIL_TO_RENEW", "GRACE_PERIOD_EXPIRED"} ->
         [status |-> "grace_period", ends |-> FALSE]
    [] type = "REFUND" ->
         [status |-> "revoked", ends |-> TRUE]
    [] OTHER ->
         [status |-> "expired", ends |-> TRUE]

(* mutation: a status the column does not know                            *)
ResolveOutcome_Refunded(type, subtype) ==
  [status |-> IF type = "REFUND" THEN "refunded" ELSE "active", ends |-> FALSE]

(* mutation: a refund runs the revocation and leaves the status alone     *)
ResolveOutcome_RefundKeepsStatus(type, subtype) ==
  [status |-> IF type \in {"EXPIRED", "GRACE_PERIOD_EXPIRED"} THEN "expired" ELSE "active",
   ends |-> type \in {"EXPIRED", "GRACE_PERIOD_EXPIRED", "REFUND"}]

(* The status a handled notification leaves, and whether it ends the       *)
(* entitlement and so runs the revocation of bank access.                  *)
ResolveOutcome(type, subtype) ==
  CASE type \in {"SUBSCRIBED", "DID_RENEW", "DID_CHANGE_RENEWAL_STATUS"} ->
         [status |-> "active", ends |-> FALSE]
    [] type = "DID_FAIL_TO_RENEW" /\ subtype = "GRACE_PERIOD" ->
         [status |-> "grace_period", ends |-> FALSE]
    [] type = "REFUND" ->
         [status |-> "revoked", ends |-> TRUE]
    [] OTHER ->
         [status |-> "expired", ends |-> TRUE]

(* mutations: one of the two guards is missing                            *)
ShouldApply_NoOrder(uuid, signedDate, stored) ==
  stored # Null => stored.uuid # uuid
ShouldApply_NoReplay(uuid, signedDate, stored) ==
  (stored # Null /\ signedDate # Null /\ stored.at # Null)
    => signedDate >= stored.at

(* Whether an arriving notification is applied over the stored row: a      *)
(* replay of the last one is not, nor one signed strictly earlier. A       *)
(* missing row or a missing date on either side lets it through.           *)
ShouldApply(uuid, signedDate, stored) ==
  stored # Null =>
    /\ stored.uuid # uuid
    /\ (signedDate # Null /\ stored.at # Null) => signedDate >= stored.at
=============================================================================
