------------------------------ MODULE Billing ------------------------------
(***************************************************************************)
(* The server's billing: the table billing_subscriptions, the handler of   *)
(* App Store notifications and the submission of purchases, from           *)
(* src/modules/billing.                                                    *)
(*                                                                         *)
(* Both writers read a row, decide, and then upsert a whole row: each      *)
(* await is a step of its own here, so deliveries and submissions          *)
(* interleave at exactly the points where the code suspends.  Verification *)
(* of the signed payloads happens before the first read and touches no     *)
(* shared state; only what Apple signed reaches these actions.             *)
(*                                                                         *)
(* There is one plan, so plan_code is a constant of the row and is left    *)
(* out with product_id; a transaction for a product that is not offered is *)
(* refused before any read and changes nothing.                            *)
(***************************************************************************)
EXTENDS AppStore

CONSTANTS
  Users,       \* accounts
  Deliveries,  \* concurrent requests to billing/apple/notifications
  Submissions, \* concurrent requests to /billing/transaction
  Failures     \* where a request may die: subset of {"write", "revoke", "submit"}

VARIABLES
  rows,        \* billing_subscriptions: user -> row or Null
  delivery,    \* the requests that handle a notification
  submission,  \* the requests that submit a transaction
  acked,       \* notifications answered with a 2xx
  applied,     \* history: notifications written to a row
  revoked,     \* history: notifications whose revocation has completed
  claims,      \* history: what each user has submitted with success
  heard        \* history: the notifications each row has taken in order, since
               \* it was linked, took one without a date, or was written on a
               \* read that had gone stale

serverVars == <<rows, delivery, submission, acked, applied, revoked, claims, heard>>
vars == <<now, apple, sent, receipts, rows, delivery, submission,
          acked, applied, revoked, claims, heard>>

Idle == [pc |-> "idle"]

Init ==
  /\ AppleInit
  /\ rows = [u \in Users |-> Null]
  /\ delivery = [h \in Deliveries |-> Idle]
  /\ submission = [p \in Submissions |-> Idle]
  /\ acked = {} /\ applied = {} /\ revoked = {} /\ claims = {}
  /\ heard = [u \in Users |-> {}]

-----------------------------------------------------------------------------
(* The repository                                                          *)

(* findByOriginalTransactionId: the accounts whose row names s.  The       *)
(* unique index leaves at most one.                                        *)
OwnersOf(s) == {u \in Users : rows[u] # Null /\ rows[u].sub = s}

(* upsert on user_id: one row per account, replaced whole, and refused by  *)
(* the unique index on original_transaction_id when another account holds  *)
(* the subscription.                                                       *)
CanUpsert_NoUniqueIndex(u, s) == TRUE  \* mutation
CanUpsert(u, s) == OwnersOf(s) \subseteq {u}

Upsert(u, row) ==
  /\ CanUpsert(u, row.sub)
  /\ rows' = [rows EXCEPT ![u] = row]

(* Notification i is written to u's row on the strength of what was seen.  *)
Hear(u, i, seen) ==
  heard' = [heard EXCEPT ![u] =
    IF seen # Null /\ seen = rows[u] /\ seen.at # Null /\ sent[i].signedDate # Null
    THEN @ \cup {i} ELSE {i}]

(* A submission carries the cursor seen over to u's row.                   *)
CarryOver(u, seen) ==
  heard' = [heard EXCEPT ![u] =
    IF seen # Null /\ seen = rows[u] THEN @ ELSE {}]

(* subscriptionFor and the requireSubscription gate: what a request of u   *)
(* is told at this moment.                                                 *)
Entitled(u) ==
  /\ rows[u] # Null
  /\ IsCurrentlyEntitled(rows[u].status, rows[u].expiresAt, now)

-----------------------------------------------------------------------------
(* App Store notifications: AppleNotificationService.handle and apply      *)

Outcome(i) == ResolveOutcome(sent[i].type, sent[i].subtype)

Applies(i, row) == ShouldApply(i, sent[i].signedDate, row)

(* mutation: an unclaimed subscription is a 404, which Apple retries      *)
IgnoreNotification_UnclaimedFails(i) ==
  /\ i \in DOMAIN sent
  /\ \/ ~IsHandledNotificationType(sent[i].type)
     \/ ~sent[i].carries
     \/ \E u \in OwnersOf(sent[i].sub) : ~Applies(i, rows[u])
  /\ acked' = acked \cup {i}
  /\ UNCHANGED <<appleVars, rows, delivery, submission, applied, revoked, claims, heard>>

(* Answered with 200 and handled: false, nothing written: a type this      *)
(* build ignores, no transaction info, a subscription no account has       *)
(* claimed, or a replayed or out-of-order notification.                    *)
IgnoreNotification(i) ==
  /\ i \in DOMAIN sent
  /\ \/ ~IsHandledNotificationType(sent[i].type)
     \/ ~sent[i].carries
     \/ OwnersOf(sent[i].sub) = {}
     \/ \E u \in OwnersOf(sent[i].sub) : ~Applies(i, rows[u])
  /\ acked' = acked \cup {i}
  /\ UNCHANGED <<appleVars, rows, delivery, submission, applied, revoked, claims, heard>>

(* mutation: an unlinked subscription is given to some account            *)
ReadForNotification_GuessOwner(h, i) ==
  /\ delivery[h] = Idle
  /\ i \in DOMAIN sent
  /\ IsHandledNotificationType(sent[i].type) /\ sent[i].carries
  /\ \E u \in IF OwnersOf(sent[i].sub) = {} THEN Users ELSE OwnersOf(sent[i].sub) :
       /\ Applies(i, rows[u])
       /\ delivery' = [delivery EXCEPT ![h] =
            [pc |-> "write", notice |-> i, user |-> u, seen |-> rows[u]]]
  /\ UNCHANGED <<appleVars, rows, submission, acked, applied, revoked, claims, heard>>

(* The row is read and the notification found worth applying.  Apple       *)
(* delivers in any order, and again whether or not it has an answer.       *)
ReadForNotification(h, i) ==
  /\ delivery[h] = Idle
  /\ i \in DOMAIN sent
  /\ IsHandledNotificationType(sent[i].type) /\ sent[i].carries
  /\ \E u \in OwnersOf(sent[i].sub) :
       /\ Applies(i, rows[u])
       /\ delivery' = [delivery EXCEPT ![h] =
            [pc |-> "write", notice |-> i, user |-> u, seen |-> rows[u]]]
  /\ UNCHANGED <<appleVars, rows, submission, acked, applied, revoked, claims, heard>>

(* mutation: a notification that ends entitlement is answered at once     *)
WriteNotification_NeverRevokes(h) ==
  /\ delivery[h].pc = "write"
  /\ LET i == delivery[h].notice
     IN /\ Upsert(delivery[h].user,
                  [sub |-> sent[i].sub, status |-> Outcome(i).status,
                   expiresAt |-> sent[i].expiresAt,
                   uuid |-> i, at |-> sent[i].signedDate])
        /\ Hear(delivery[h].user, i, delivery[h].seen)
        /\ applied' = applied \cup {i}
        /\ acked' = acked \cup {i}
  /\ delivery' = [delivery EXCEPT ![h] = Idle]
  /\ UNCHANGED <<appleVars, submission, revoked, claims>>

(* The upsert that records both the outcome and the notification's own     *)
(* identity and date, over whatever the row has become since the read.     *)
WriteNotification(h) ==
  /\ delivery[h].pc = "write"
  /\ LET i == delivery[h].notice
         ends == Outcome(i).ends
     IN /\ Upsert(delivery[h].user,
                  [sub |-> sent[i].sub, status |-> Outcome(i).status,
                   expiresAt |-> sent[i].expiresAt,
                   uuid |-> i, at |-> sent[i].signedDate])
        /\ Hear(delivery[h].user, i, delivery[h].seen)
        /\ applied' = applied \cup {i}
        /\ \/ /\ ends
              /\ delivery' = [delivery EXCEPT ![h].pc = "revoke"]
              /\ UNCHANGED acked
           \/ /\ ~ends
              /\ delivery' = [delivery EXCEPT ![h] = Idle]
              /\ acked' = acked \cup {i}
  /\ UNCHANGED <<appleVars, submission, revoked, claims>>

(* The awaited BankAccessRevoker.revoke returns, and so does the handler.  *)
RevokeAccess(h) ==
  /\ delivery[h].pc = "revoke"
  /\ revoked' = revoked \cup {delivery[h].notice}
  /\ acked' = acked \cup {delivery[h].notice}
  /\ delivery' = [delivery EXCEPT ![h] = Idle]
  /\ UNCHANGED <<appleVars, rows, submission, applied, claims, heard>>

(* The upsert hits the unique index: a 409, which Apple retries.           *)
RefuseNotification(h) ==
  /\ delivery[h].pc = "write"
  /\ ~CanUpsert(delivery[h].user, sent[delivery[h].notice].sub)
  /\ delivery' = [delivery EXCEPT ![h] = Idle]
  /\ UNCHANGED <<appleVars, rows, submission, acked, applied, revoked, claims, heard>>

(* An await rejects, or the process dies: no 2xx, and Apple retries.       *)
FailDelivery(h) ==
  /\ delivery[h].pc \in Failures
  /\ delivery' = [delivery EXCEPT ![h] = Idle]
  /\ UNCHANGED <<appleVars, rows, submission, acked, applied, revoked, claims, heard>>

-----------------------------------------------------------------------------
(* Purchase submission: BillingService.submitTransaction                   *)

ResolveSubmittedStatus(receipt) ==
  CASE receipt.revoked -> "revoked"
    [] ~receipt.revoked /\ receipt.expiresAt # Null /\ receipt.expiresAt <= now -> "expired"
    [] OTHER -> "active"

(* mutation: the cursor is carried over from whatever row the user has    *)
ReadForSubmission_CursorOfUser(p, u, receipt) ==
  /\ submission[p] = Idle
  /\ receipt \in receipts
  /\ OwnersOf(receipt.sub) \subseteq {u}
  /\ submission' = [submission EXCEPT ![p] =
       [pc |-> "write", user |-> u, receipt |-> receipt,
        status |-> ResolveSubmittedStatus(receipt), seen |-> rows[u]]]
  /\ UNCHANGED <<appleVars, rows, delivery, acked, applied, revoked, claims, heard>>

(* The row of this subscription is read; another account's is a 409.       *)
ReadForSubmission(p, u, receipt) ==
  /\ submission[p] = Idle
  /\ receipt \in receipts
  /\ OwnersOf(receipt.sub) \subseteq {u}
  /\ submission' = [submission EXCEPT ![p] =
       [pc |-> "write", user |-> u, receipt |-> receipt,
        status |-> ResolveSubmittedStatus(receipt),
        seen |-> IF OwnersOf(receipt.sub) = {} THEN Null ELSE rows[u]]]
  /\ UNCHANGED <<appleVars, rows, delivery, acked, applied, revoked, claims, heard>>

(* The upsert, which carries over the notification cursor of the row read. *)
WriteSubmission(p) ==
  /\ submission[p].pc = "write"
  /\ LET r == submission[p] IN
       /\ Upsert(r.user,
            [sub |-> r.receipt.sub, status |-> r.status,
             expiresAt |-> r.receipt.expiresAt,
             uuid |-> IF r.seen = Null THEN Null ELSE r.seen.uuid,
             at |-> IF r.seen = Null THEN Null ELSE r.seen.at])
       /\ CarryOver(r.user, r.seen)
       /\ claims' = claims \cup {[user |-> r.user, receipt |-> r.receipt]}
  /\ submission' = [submission EXCEPT ![p] = Idle]
  /\ UNCHANGED <<appleVars, delivery, acked, applied, revoked>>

(* The unique index refuses the upsert.                                    *)
RefuseSubmission(p) ==
  /\ submission[p].pc = "write"
  /\ ~CanUpsert(submission[p].user, submission[p].receipt.sub)
  /\ submission' = [submission EXCEPT ![p] = Idle]
  /\ UNCHANGED <<appleVars, rows, delivery, acked, applied, revoked, claims, heard>>

FailSubmission(p) ==
  /\ submission[p] # Idle /\ "submit" \in Failures
  /\ submission' = [submission EXCEPT ![p] = Idle]
  /\ UNCHANGED <<appleVars, rows, delivery, acked, applied, revoked, claims, heard>>

-----------------------------------------------------------------------------
(* A delivery up to the point where its row is written.                    *)
HandlerStep(h) ==
  \/ \E i \in DOMAIN sent : ReadForNotification(h, i)
  \/ WriteNotification(h) \/ RefuseNotification(h)

NotificationStep(h) == HandlerStep(h) \/ RevokeAccess(h) \/ FailDelivery(h)

SubmissionStep(p) ==
  \/ \E u \in Users, r \in receipts : ReadForSubmission(p, u, r)
  \/ WriteSubmission(p) \/ RefuseSubmission(p) \/ FailSubmission(p)

AppleStep == AppleNext /\ UNCHANGED serverVars

Next ==
  \/ AppleStep
  \/ \E i \in DOMAIN sent : IgnoreNotification(i)
  \/ \E h \in Deliveries : NotificationStep(h)
  \/ \E p \in Submissions : SubmissionStep(p)

Spec == Init /\ [][Next]_vars

(* Apple retries whatever it has no 2xx for, so an unanswered notification *)
(* keeps being delivered; a request that has started runs to its end; and  *)
(* a handler's failures do not go on for ever, which is the strong         *)
(* fairness of the steps a failure may pre-empt.  Nothing obliges users or *)
(* Apple's events.                                                         *)
DeliveryFairness ==
  /\ \A i \in 1..MaxNotices :
       /\ WF_vars(i \notin acked /\ IgnoreNotification(i))
       /\ SF_vars(i \notin acked /\ \E h \in Deliveries : ReadForNotification(h, i))
  /\ \A h \in Deliveries :
       /\ SF_vars(WriteNotification(h))
       /\ SF_vars(RevokeAccess(h))
       /\ WF_vars(RefuseNotification(h))

SubmissionFairness ==
  \A p \in Submissions : WF_vars(WriteSubmission(p) \/ RefuseSubmission(p))

FairSpec == Spec /\ DeliveryFairness /\ SubmissionFairness

-----------------------------------------------------------------------------
(* Properties                                                              *)

Receipt == [sub : Subs, expiresAt : Nat \cup {Null}, revoked : BOOLEAN]
Notice == [sub : Subs, type : HandledTypes \cup {"PRICE_INCREASE"},
           subtype : {"NONE", "INITIAL_BUY", "GRACE_PERIOD", "AUTO_RENEW_DISABLED"},
           signedDate : Nat \cup {Null}, expiresAt : Nat \cup {Null}, carries : BOOLEAN]
Row == [sub : Subs, status : Statuses, expiresAt : Nat \cup {Null},
        uuid : Nat \cup {Null}, at : Nat \cup {Null}]

DeliveryState ==
  {Idle} \cup
  [pc : {"write", "revoke"}, notice : DOMAIN sent, user : Users, seen : Row]

SubmissionState ==
  {Idle} \cup
  [pc : {"write"}, user : Users, receipt : receipts,
   status : {"active", "expired", "revoked"}, seen : Row \cup {Null}]

(* Every variable has its type, and every request in flight works for an   *)
(* account, a notification and a receipt that exist.                       *)
TypeOK ==
  /\ now \in Nat
  /\ apple \in [Subs -> [phase : Phases, paidUntil : Nat]]
  /\ sent \in Seq(Notice)
  /\ receipts \subseteq Receipt
  /\ rows \in [Users -> Row \cup {Null}]
  /\ delivery \in [Deliveries -> DeliveryState]
  /\ submission \in [Submissions -> SubmissionState]
  /\ acked \subseteq DOMAIN sent
  /\ applied \subseteq DOMAIN sent
  /\ revoked \subseteq DOMAIN sent
  /\ claims \subseteq [user : Users, receipt : receipts]
  /\ heard \in [Users -> SUBSET DOMAIN sent]

(* One App Store subscription entitles at most one account, whatever races *)
(* between submissions and notifications (billing.service.ts:66-71, and    *)
(* the unique index behind it).                                            *)
OneSubscriptionOneAccount ==
  \A u, v \in Users :
    (rows[u] # Null /\ rows[v] # Null /\ rows[u].sub = rows[v].sub) => u = v

(* No notification invents an owner: a row links a user only to a          *)
(* subscription that this user has submitted (notifications.service.ts:86).*)
OwnersClaimed ==
  \A u \in Users : rows[u] # Null =>
    \E c \in claims : c.user = u /\ c.receipt.sub = rows[u].sub

(* The replay and ordering guards of a row are keyed to the delivery       *)
(* stream of that row's own subscription, even when a user changes         *)
(* subscription or a submission overtakes a notification                   *)
(* (billing.service.ts:83-87).                                             *)
CursorIsOwn ==
  \A u \in Users :
    (rows[u] # Null /\ rows[u].uuid # Null) =>
      /\ rows[u].uuid \in DOMAIN sent
      /\ sent[rows[u].uuid].sub = rows[u].sub
      /\ sent[rows[u].uuid].signedDate = rows[u].at

(* A purchase without an expiry is served without end (entitlement.ts:40). *)
BoughtForGood(u) ==
  /\ rows[u].expiresAt = Null
  /\ \E r \in receipts : r.sub = rows[u].sub /\ r.expiresAt = Null

InAnnouncedGrace(u) ==
  /\ rows[u].status = "grace_period" /\ rows[u].uuid # Null
  /\ Outcome(rows[u].uuid).status = "grace_period"

(* The account has submitted an unrefunded transaction for the row's term. *)
Submitted(u) ==
  \E c \in claims :
    /\ c.user = u /\ ~c.receipt.revoked
    /\ c.receipt.sub = rows[u].sub /\ c.receipt.expiresAt = rows[u].expiresAt

(* A notification heard by u's row was signed before the row's last one.   *)
Superseded(i, u) ==
  /\ i # rows[u].uuid
  /\ sent[i].signedDate # Null /\ rows[u].at # Null
  /\ sent[i].signedDate <= rows[u].at

(* Nobody is served for free.  An account that is served has a term that   *)
(* Apple was paid for, a purchase that Apple signed without an expiry, or  *)
(* a grace period that the row's last notification announces.  And no      *)
(* notification that ended the subscription is undone by an older one or   *)
(* by a replay: every one the row has heard is followed by a newer one     *)
(* that did not, or, when it is the last, by a submission of the account.  *)
(* What the row has heard starts afresh at a notification without a date,  *)
(* which the code does not order, and at a write over a row that changed   *)
(* since it was read, whose consequence LapseLeadsToRefusal shows          *)
(* (entitlement.ts:20-43, 101-127).                                        *)
NoServiceBeyondPaidTerm ==
  \A u \in Users : Entitled(u) =>
    /\ now < apple[rows[u].sub].paidUntil \/ BoughtForGood(u) \/ InAnnouncedGrace(u)
    /\ \A i \in heard[u] : Outcome(i).ends =>
         Superseded(i, u) \/ (i = rows[u].uuid /\ Submitted(u))

(* This step sets the notification date of u's row back.                   *)
Regresses(u) ==
  /\ rows[u] # Null /\ rows'[u] # Null /\ rows'[u].sub = rows[u].sub
  /\ rows[u].at # Null
  /\ rows'[u].at = Null \/ rows'[u].at < rows[u].at

(* This step writes on the strength of a row that is no longer u's row.    *)
WritesOnStaleRead(u) ==
  \/ \E h \in Deliveries : /\ delivery[h].pc = "write"
                           /\ delivery'[h] # delivery[h]
                           /\ delivery[h].seen # rows[u]
  \/ \E p \in Submissions : /\ submission[p].pc = "write"
                            /\ submission'[p] = Idle
                            /\ submission[p].seen # rows[u]

(* This step writes a notification to u's row that bears no date.          *)
WritesUndated(u) ==
  \E h \in Deliveries :
    /\ delivery[h].pc = "write" /\ delivery[h].user = u /\ delivery'[h] # delivery[h]
    /\ sent[delivery[h].notice].signedDate = Null

(* A row's notification date goes back only in a write whose read has gone *)
(* stale, or to nothing with a notification that has no date: as long as   *)
(* nothing else wrote between the read and the upsert, shouldApply keeps   *)
(* the newest dated notification of a subscription                         *)
(* (entitlement.ts:107-109, 121).                                          *)
RegressOnlyOnStaleRead ==
  [][\A u \in Users :
       Regresses(u) => WritesOnStaleRead(u) \/ WritesUndated(u)]_vars

(* The same notificationUUID arriving twice changes nothing, however late  *)
(* and whatever arrived in between, unless its handler writes on a read    *)
(* that has gone stale or the row started afresh since (entitlement.ts:106)*)
AppliedOnce ==
  [][\A h \in Deliveries :
       (WriteNotification(h) /\ delivery[h].seen = rows[delivery[h].user])
         => delivery[h].notice \notin heard[delivery[h].user]]_vars

(* Every notification is answered in the end, whether its type is unknown, *)
(* it carries no transaction, no account has claimed its subscription, or  *)
(* the unique index refused its upsert when the subscription changed hands *)
(* under its handler: provided the accounts do not go on submitting for    *)
(* ever, every notification is dated, and its handler's failures come to   *)
(* an end.  (Undated ones, which nothing orders, can be delivered in turns *)
(* for ever while the failures single one of them out.)                    *)
(* (notifications.service.ts:52-69, 86-104).                               *)
EveryNoticeAcked ==
  <>[](\A p \in Submissions : submission[p] = Idle) =>
    \A i \in 1..MaxNotices : [](i \in DOMAIN sent => <>(i \in acked))

Incomplete(notice) ==
  notice.signedDate = Null \/ notice.expiresAt = Null \/ ~notice.carries

(* Once Apple ends a subscription its owner stops being served: a grace    *)
(* period, which has no expiry in the row, does not outlive its            *)
(* GRACE_PERIOD_EXPIRED, provided Apple leaves out no field                *)
(* (entitlement.ts:83-85).                                                 *)
LapseLeadsToRefusal ==
  \A u \in Users, s \in Subs :
    (apple[s].phase = "lapsed" /\ u \in OwnersOf(s))
      ~> \/ ~Entitled(u) \/ apple[s].phase # "lapsed" \/ u \notin OwnersOf(s)
         \/ \E i \in DOMAIN sent : Incomplete(sent[i])

(* Losing entitlement revokes bank access: an applied notification that    *)
(* ends entitlement is followed by a completed revocation                  *)
(* (bank-access-revoker.ts:2, notifications.service.ts:143-146).           *)
EndIsRevoked ==
  \A i \in 1..MaxNotices :
    [](i \in applied /\ Outcome(i).ends => <>(i \in revoked))

(* "Apple refunded it. Submitting it must not resurrect entitlement."      *)
(* (billing.service.ts:116)                                                *)
RefundSticks ==
  [][\A u \in Users :
       (/\ rows[u] # Null /\ rows[u].status = "revoked"
        /\ \E p \in Submissions : WriteSubmission(p) /\ submission[p].user = u)
       => ~Entitled(u)']_vars

(* "Turning auto-renew off does **not** end entitlement. The user has paid *)
(* through the current period and keeps it until EXPIRED arrives."         *)
(* (entitlement.ts:74-76)                                                  *)
AutoRenewOffKeepsService ==
  [][\A u \in Users, h \in Deliveries :
       (/\ WriteNotification(h) /\ delivery[h].user = u /\ Entitled(u)
        /\ sent[delivery[h].notice].type = "DID_CHANGE_RENEWAL_STATUS")
       => Entitled(u)']_vars
=============================================================================
