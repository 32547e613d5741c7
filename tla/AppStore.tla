------------------------------ MODULE AppStore ------------------------------
(***************************************************************************)
(* Apple's side of billing, external to the server and known to it only    *)
(* through what Apple signs: server notifications, and the transactions    *)
(* that StoreKit hands the app.  It is modelled from the fields and the    *)
(* types that src/modules/billing reads.                                   *)
(*                                                                         *)
(* A subscription is named by its original transaction id, Apple's stable  *)
(* key across renewals.  The index of a notification in sent stands for    *)
(* its notificationUUID.  A notification carries the transaction that is   *)
(* current when it is signed, and the app can hold that transaction too,   *)
(* for as long as it likes.  What the server's schemas make optional Apple *)
(* may leave out: the date of a notification, its transaction, and the     *)
(* expiry of a transaction.                                                *)
(***************************************************************************)
EXTENDS Sequences, Entitlement

CONSTANTS
  Subs,        \* original transaction ids
  Events,      \* the App Store events that happen in this instance
  Term,        \* how long a payment lasts
  MaxTime,     \* bound on the clock
  MaxNotices,  \* bound on the notifications Apple signs
  Ties,        \* may two notifications of one subscription bear one date?
  Gaps         \* the optional fields Apple may leave out in this instance

ASSUME BoundsAssumption == Term \in Nat /\ MaxTime \in Nat /\ MaxNotices \in Nat
ASSUME GapsAssumption == Gaps \subseteq {"date", "transaction", "expiry"}

VARIABLES
  now,         \* the clock, shared by Apple and the server
  apple,       \* what Apple knows of each subscription
  sent,        \* the notifications signed so far
  receipts     \* the signed transactions an app may submit

appleVars == <<now, apple, sent, receipts>>

Phases == {"none", "active", "grace", "lapsed", "refunded"}

AppleInit ==
  /\ now = 1
  /\ apple = [s \in Subs |-> [phase |-> "none", paidUntil |-> 0]]
  /\ sent = <<>>
  /\ receipts = {}

Tick ==
  /\ now < MaxTime
  /\ now' = now + 1
  /\ UNCHANGED <<apple, sent, receipts>>

OrMissing(field, value) == IF field \in Gaps THEN {value, Null} ELSE {value}

(* Apple moves s to a phase and signs both the notification that says so   *)
(* and the transaction that goes with it, which the notification may fail  *)
(* to carry.                                                               *)
Sign(s, type, subtype, phase, paidUntil) ==
  /\ Len(sent) < MaxNotices
  /\ apple' = [apple EXCEPT ![s] = [phase |-> phase, paidUntil |-> paidUntil]]
  /\ \E date \in OrMissing("date", now), expiry \in OrMissing("expiry", paidUntil),
        carries \in IF "transaction" \in Gaps THEN BOOLEAN ELSE {TRUE} :
       /\ Ties \/ date = Null \/ \A i \in DOMAIN sent :
            sent[i].sub = s => sent[i].signedDate # date
       /\ sent' = Append(sent, [sub |-> s, type |-> type, subtype |-> subtype,
            signedDate |-> date, expiresAt |-> expiry, carries |-> carries])
       /\ receipts' = receipts \cup
            {[sub |-> s, expiresAt |-> expiry, revoked |-> phase = "refunded"]}
  /\ UNCHANGED now

(* A first purchase, or a new one of a lapsed subscription.                *)
Purchase(s) ==
  /\ "Purchase" \in Events
  /\ apple[s].phase \in {"none", "lapsed"}
  /\ apple[s].paidUntil <= now
  /\ Sign(s, "SUBSCRIBED", "INITIAL_BUY", "active", now + Term)

(* The next period is paid, in time or by recovery in the grace period.    *)
Renew(s) ==
  /\ "Renew" \in Events
  /\ apple[s].phase \in {"active", "grace"}
  /\ apple[s].paidUntil <= now
  /\ Sign(s, "DID_RENEW", "NONE", "active", now + Term)

ChangeAutoRenew(s) ==
  /\ "ChangeAutoRenew" \in Events
  /\ apple[s].phase \in {"active", "grace"}
  /\ Sign(s, "DID_CHANGE_RENEWAL_STATUS", "AUTO_RENEW_DISABLED",
          apple[s].phase, apple[s].paidUntil)

EnterGrace(s) ==
  /\ "Grace" \in Events
  /\ apple[s].phase = "active" /\ apple[s].paidUntil <= now
  /\ Sign(s, "DID_FAIL_TO_RENEW", "GRACE_PERIOD", "grace", apple[s].paidUntil)

LeaveGrace(s) ==
  /\ "Grace" \in Events
  /\ apple[s].phase = "grace"
  /\ Sign(s, "GRACE_PERIOD_EXPIRED", "NONE", "lapsed", apple[s].paidUntil)

(* Without a grace period a failed renewal, or the plain end of the term,  *)
(* ends the subscription.                                                  *)
Lapse(s) ==
  /\ "Lapse" \in Events
  /\ apple[s].phase = "active" /\ apple[s].paidUntil <= now
  /\ \E type \in {"DID_FAIL_TO_RENEW", "EXPIRED"} :
       Sign(s, type, "NONE", "lapsed", apple[s].paidUntil)

Refund(s) ==
  /\ "Refund" \in Events
  /\ apple[s].phase \in {"active", "grace", "lapsed"}
  /\ Sign(s, "REFUND", "NONE", "refunded", apple[s].paidUntil)

(* One of the many types the server has no opinion on.                     *)
Announce(s) ==
  /\ "Announce" \in Events
  /\ apple[s].phase = "active"
  /\ Sign(s, "PRICE_INCREASE", "NONE", "active", apple[s].paidUntil)

AppleNext ==
  \/ Tick
  \/ \E s \in Subs :
       \/ Purchase(s) \/ Renew(s) \/ ChangeAutoRenew(s)
       \/ EnterGrace(s) \/ LeaveGrace(s)
       \/ Lapse(s) \/ Refund(s) \/ Announce(s)
=============================================================================
