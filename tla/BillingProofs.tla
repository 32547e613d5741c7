--------------------------- MODULE BillingProofs ---------------------------
(***************************************************************************)
(* What Billing guarantees for any number of accounts, subscriptions,      *)
(* concurrent requests and notifications.                                  *)
(***************************************************************************)
EXTENDS Billing, TLAPS

(* A row whose cursor, when it has one, is one of the given notifications  *)
(* and of the row's own subscription.                                      *)
CursorIn(notices, row) ==
  row.uuid # Null =>
    /\ row.uuid \in DOMAIN notices
    /\ notices[row.uuid].sub = row.sub
    /\ notices[row.uuid].signedDate = row.at

(* What a submission holds over its await: a row of the subscription it    *)
(* submits, with that subscription's cursor, and a status that is active   *)
(* only for a transaction that was not refunded when it was signed.        *)
SubmissionReads ==
  \A p \in Submissions : submission[p] # Idle =>
    /\ submission[p].status = "active" => ~submission[p].receipt.revoked
    /\ submission[p].seen # Null =>
         /\ submission[p].seen.sub = submission[p].receipt.sub
         /\ CursorIn(sent, submission[p].seen)

(* What a delivery holds over its await: an account that claimed the       *)
(* subscription, and a row that the notification was found to succeed.     *)
DeliveryReads ==
  \A h \in Deliveries : delivery[h] # Idle =>
    LET i == delivery[h].notice IN
    /\ \E c \in claims : c.user = delivery[h].user /\ c.receipt.sub = sent[i].sub
    /\ delivery[h].seen # Null /\ delivery[h].seen.sub = sent[i].sub
    /\ Applies(i, delivery[h].seen)

(* A term that was paid, or one that Apple signed without an end.          *)
TermPaid(x, ledger, signed) ==
  IF x.expiresAt = Null
  THEN \E r \in signed : r.sub = x.sub /\ r.expiresAt = Null
  ELSE x.expiresAt <= ledger[x.sub].paidUntil

(* Whatever Apple signs is covered by what Apple was paid.                 *)
SignedIsPaid ==
  /\ \A i \in DOMAIN sent : TermPaid(sent[i], apple, receipts)
  /\ \A r \in receipts : TermPaid(r, apple, receipts)

(* Every row repeats a term that Apple signed.                             *)
RowIsPaid == \A u \in Users : rows[u] # Null => TermPaid(rows[u], apple, receipts)

(* A row that entitles says what its last notification says, or what its   *)
(* account submitted.                                                      *)
RowSays ==
  \A u \in Users : (rows[u] # Null /\ IsEntitling(rows[u].status)) =>
    \/ rows[u].uuid # Null /\ Outcome(rows[u].uuid).status = rows[u].status
    \/ rows[u].status = "active" /\ Submitted(u)

(* The last notification of a row is the newest of those it has heard.     *)
HeardInOrder ==
  \A u \in Users : \A i \in heard[u] :
    /\ rows[u].uuid # Null
    /\ i = rows[u].uuid \/ Superseded(i, u)

IInv ==
  /\ TypeOK
  /\ OneSubscriptionOneAccount
  /\ OwnersClaimed
  /\ CursorIsOwn
  /\ SubmissionReads
  /\ DeliveryReads
  /\ SignedIsPaid
  /\ RowIsPaid
  /\ RowSays
  /\ HeardInOrder

-----------------------------------------------------------------------------
(* A step of Apple's either moves the clock or signs one notification and  *)
(* one transaction of a subscription, for a term that is never shorter     *)
(* than the one already paid.                                              *)
Signs(s, n, r, phase, paid) ==
  /\ now' = now
  /\ sent' = Append(sent, n)
  /\ receipts' = receipts \cup {r}
  /\ apple' = [apple EXCEPT ![s] = [phase |-> phase, paidUntil |-> paid]]
  /\ n.sub = s /\ r.sub = s /\ r.expiresAt = n.expiresAt
  /\ n.expiresAt \in {paid, Null} /\ paid >= apple[s].paidUntil

(* Every App Store event is such a step.                                   *)
LEMMA AppleSteps ==
  ASSUME TypeOK, AppleNext
  PROVE  \/ now' = now + 1 /\ UNCHANGED <<apple, sent, receipts>>
         \/ \E s \in Subs, n \in Notice, r \in Receipt, phase \in Phases, paid \in Nat :
              Signs(s, n, r, phase, paid)
<1>1. CASE Tick
  BY <1>1 DEF Tick
<1>2. ASSUME NEW s \in Subs, NEW type \in HandledTypes \cup {"PRICE_INCREASE"},
             NEW subtype \in {"NONE", "INITIAL_BUY", "GRACE_PERIOD", "AUTO_RENEW_DISABLED"},
             NEW phase \in Phases, NEW paid \in Nat, paid >= apple[s].paidUntil,
             Sign(s, type, subtype, phase, paid)
      PROVE  \E n \in Notice, r \in Receipt : Signs(s, n, r, phase, paid)
  <2>1. PICK date \in OrMissing("date", now), expiry \in OrMissing("expiry", paid),
             carries \in IF "transaction" \in Gaps THEN BOOLEAN ELSE {TRUE} :
          /\ sent' = Append(sent, [sub |-> s, type |-> type, subtype |-> subtype,
               signedDate |-> date, expiresAt |-> expiry, carries |-> carries])
          /\ receipts' = receipts \cup
               {[sub |-> s, expiresAt |-> expiry, revoked |-> phase = "refunded"]}
    BY <1>2 DEF Sign
  <2> DEFINE n == [sub |-> s, type |-> type, subtype |-> subtype,
                   signedDate |-> date, expiresAt |-> expiry, carries |-> carries]
             r == [sub |-> s, expiresAt |-> expiry, revoked |-> phase = "refunded"]
  <2>2. /\ date \in Nat \cup {Null} /\ expiry \in Nat \cup {Null}
        /\ expiry \in {paid, Null} /\ carries \in BOOLEAN
    BY DEF TypeOK, OrMissing
  <2>3. n \in Notice /\ r \in Receipt
    BY <2>2 DEF Notice, Receipt
  <2>4. Signs(s, n, r, phase, paid)
    BY <1>2, <2>1, <2>2 DEF Sign, Signs
  <2> QED BY <2>3, <2>4
<1>3. ASSUME NEW s \in Subs,
             \/ Purchase(s) \/ Renew(s) \/ ChangeAutoRenew(s)
             \/ EnterGrace(s) \/ LeaveGrace(s)
             \/ Lapse(s) \/ Refund(s) \/ Announce(s)
      PROVE  \E n \in Notice, r \in Receipt, phase \in Phases, paid \in Nat :
               Signs(s, n, r, phase, paid)
  <2>1. /\ now \in Nat /\ Term \in Nat /\ now + Term \in Nat
        /\ apple[s].paidUntil \in Nat /\ apple[s].phase \in Phases
    BY BoundsAssumption DEF TypeOK
  <2>2. now + Term >= now
    BY <2>1
  <2>3. CASE Purchase(s)
    BY <2>1, <2>2, <2>3, <1>2 DEF Purchase, HandledTypes, Phases
  <2>4. CASE Renew(s)
    BY <2>1, <2>2, <2>4, <1>2 DEF Renew, HandledTypes, Phases
  <2>5. CASE ChangeAutoRenew(s)
    BY <2>1, <2>5, <1>2 DEF ChangeAutoRenew, HandledTypes, Phases
  <2>6. CASE EnterGrace(s)
    BY <2>1, <2>6, <1>2 DEF EnterGrace, HandledTypes, Phases
  <2>7. CASE LeaveGrace(s)
    BY <2>1, <2>7, <1>2 DEF LeaveGrace, HandledTypes, Phases
  <2>8. CASE Lapse(s)
    BY <2>1, <2>8, <1>2 DEF Lapse, HandledTypes, Phases
  <2>9. CASE Refund(s)
    BY <2>1, <2>9, <1>2 DEF Refund, HandledTypes, Phases
  <2>10. CASE Announce(s)
    BY <2>1, <2>10, <1>2 DEF Announce, HandledTypes, Phases
  <2> QED
    BY <1>3, <2>3, <2>4, <2>5, <2>6, <2>7, <2>8, <2>9, <2>10
<1> QED BY <1>1, <1>3 DEF AppleNext

(* A signed notification is added at the end; the others keep their place. *)
LEMMA SignsExtends ==
  ASSUME TypeOK, NEW s \in Subs, NEW n \in Notice, NEW r \in Receipt,
         NEW phase \in Phases, NEW paid \in Nat, Signs(s, n, r, phase, paid)
  PROVE  /\ sent' \in Seq(Notice)
         /\ DOMAIN sent' = DOMAIN sent \cup {Len(sent) + 1}
         /\ \A i \in DOMAIN sent : sent'[i] = sent[i]
         /\ sent'[Len(sent) + 1] = n
  BY DEF Signs, TypeOK

-----------------------------------------------------------------------------
(* Type correctness                                                        *)

(* Every handled type resolves to a status of the enum.                    *)
LEMMA OutcomeStatus ==
  ASSUME NEW i PROVE Outcome(i).status \in Statuses
  BY DEF Outcome, ResolveOutcome, Statuses

(* The types hold at the start.                                            *)
LEMMA InitTypeOK == Init => TypeOK
  BY BoundsAssumption
     DEF Init, AppleInit, TypeOK, Phases, DeliveryState, SubmissionState, Idle

(* Apple signs only well-formed notifications and transactions.            *)
LEMMA AppleTypeOK == TypeOK /\ AppleStep => TypeOK'
<1> SUFFICES ASSUME TypeOK, AppleStep PROVE TypeOK'
  OBVIOUS
<1> USE DEF AppleStep, serverVars
<1>1. CASE now' = now + 1 /\ UNCHANGED <<apple, sent, receipts>>
  BY <1>1 DEF TypeOK, DeliveryState, SubmissionState
<1>2. ASSUME NEW s \in Subs, NEW n \in Notice, NEW r \in Receipt,
             NEW phase \in Phases, NEW paid \in Nat, Signs(s, n, r, phase, paid)
      PROVE  TypeOK'
  <2>1. /\ sent' \in Seq(Notice)
        /\ DOMAIN sent \subseteq DOMAIN sent'
    BY <1>2, SignsExtends
  <2>2. now' \in Nat /\ receipts' \subseteq Receipt /\ receipts \subseteq receipts'
    BY <1>2 DEF TypeOK, Signs
  <2>3. apple' \in [Subs -> [phase : Phases, paidUntil : Nat]]
    BY <1>2 DEF TypeOK, Signs, Notice
  <2>4. delivery' \in [Deliveries -> DeliveryState']
    <3>1. DeliveryState \subseteq DeliveryState'
      BY <2>1 DEF DeliveryState
    <3> QED BY <3>1 DEF TypeOK
  <2>5. submission' \in [Submissions -> SubmissionState']
    <3>1. SubmissionState \subseteq SubmissionState'
      BY <2>2 DEF SubmissionState
    <3> QED BY <3>1 DEF TypeOK
  <2>6. claims' \subseteq [user : Users, receipt : receipts']
    BY <2>2 DEF TypeOK
  <2>7. acked' \subseteq DOMAIN sent' /\ applied' \subseteq DOMAIN sent'
        /\ revoked' \subseteq DOMAIN sent'
    BY <2>1 DEF TypeOK
  <2>8. heard' \in [Users -> SUBSET DOMAIN sent']
    BY <2>1 DEF TypeOK
  <2> QED BY <2>1, <2>2, <2>3, <2>4, <2>5, <2>6, <2>7, <2>8 DEF TypeOK
<1> QED BY <1>1, <1>2, AppleSteps

(* An ignored notification exists.                                         *)
LEMMA IgnoreTypeOK ==
  ASSUME TypeOK, NEW i, IgnoreNotification(i) PROVE TypeOK'
  BY DEF IgnoreNotification, TypeOK, appleVars, DeliveryState, SubmissionState

(* What a request that is under way holds.                                 *)
LEMMA DeliveryTypes ==
  ASSUME TypeOK, NEW h \in Deliveries, delivery[h] # Idle
  PROVE  /\ delivery[h] \in [pc : {"write", "revoke"}, notice : DOMAIN sent,
                             user : Users, seen : Row]
         /\ sent[delivery[h].notice] \in Notice
         /\ delivery[h].notice \in Nat
  BY DEF TypeOK, DeliveryState

(* What a submission that is under way holds.                              *)
LEMMA SubmissionTypes ==
  ASSUME TypeOK, NEW p \in Submissions, submission[p] # Idle
  PROVE  /\ submission[p] \in
              [pc : {"write"}, user : Users, receipt : receipts,
               status : {"active", "expired", "revoked"}, seen : Row \cup {Null}]
         /\ submission[p].receipt \in Receipt
  BY DEF TypeOK, SubmissionState

(* Every step of a notification handler keeps the types.                   *)
LEMMA NotificationTypeOK ==
  ASSUME TypeOK, NEW h \in Deliveries, NotificationStep(h) PROVE TypeOK'
<1> USE DEF appleVars
<1>0. Idle \in DeliveryState /\ SubmissionState' = SubmissionState
  BY DEF DeliveryState, SubmissionState, NotificationStep, HandlerStep, ReadForNotification,
         WriteNotification, RevokeAccess, RefuseNotification, FailDelivery
<1>1. ASSUME NEW i \in DOMAIN sent, ReadForNotification(h, i) PROVE TypeOK'
  <2>1. PICK u \in OwnersOf(sent[i].sub) :
          delivery' = [delivery EXCEPT ![h] =
            [pc |-> "write", notice |-> i, user |-> u, seen |-> rows[u]]]
    BY <1>1 DEF ReadForNotification
  <2>2. u \in Users /\ rows[u] \in Row
    BY DEF OwnersOf, TypeOK
  <2>3. delivery' \in [Deliveries -> DeliveryState]
    BY <2>1, <2>2 DEF TypeOK, DeliveryState
  <2>4. DeliveryState' = DeliveryState
    BY <1>1 DEF ReadForNotification, DeliveryState
  <2> QED BY <1>0, <1>1, <2>3, <2>4 DEF ReadForNotification, TypeOK
<1>2. CASE WriteNotification(h)
  <2> DEFINE d == delivery[h]
             i == d.notice
             row == [sub |-> sent[i].sub, status |-> Outcome(i).status,
                     expiresAt |-> sent[i].expiresAt,
                     uuid |-> i, at |-> sent[i].signedDate]
  <2>1. d # Idle
    BY <1>2 DEF WriteNotification, Idle
  <2>2. d \in DeliveryState /\ i \in DOMAIN sent /\ d.user \in Users
    BY <2>1, DeliveryTypes DEF DeliveryState
  <2>3. row \in Row
    BY <2>1, DeliveryTypes, OutcomeStatus DEF Row, Notice
  <2>4. rows' \in [Users -> Row \cup {Null}]
    BY <1>2, <2>2, <2>3 DEF WriteNotification, Upsert, TypeOK
  <2>5. delivery' \in [Deliveries -> DeliveryState]
    <3>1. [d EXCEPT !.pc = "revoke"] \in DeliveryState
      BY <2>1, DeliveryTypes DEF DeliveryState
    <3> QED BY <1>0, <1>2, <3>1 DEF WriteNotification, TypeOK
  <2>6. DeliveryState' = DeliveryState
    BY <1>2 DEF WriteNotification, DeliveryState
  <2>7. applied' \subseteq DOMAIN sent /\ acked' \subseteq DOMAIN sent
    BY <1>2, <2>2 DEF WriteNotification, TypeOK
  <2>8. heard' \in [Users -> SUBSET DOMAIN sent]
    BY <1>2, <2>2 DEF WriteNotification, Hear, TypeOK
  <2> QED BY <1>0, <1>2, <2>4, <2>5, <2>6, <2>7, <2>8 DEF WriteNotification, TypeOK
<1>3. CASE RevokeAccess(h)
  <2>1. delivery[h].notice \in DOMAIN sent
    BY <1>3, DeliveryTypes DEF RevokeAccess, Idle
  <2>2. DeliveryState' = DeliveryState
    BY <1>3 DEF RevokeAccess, DeliveryState
  <2> QED BY <1>0, <1>3, <2>1, <2>2 DEF RevokeAccess, TypeOK
<1>4. CASE RefuseNotification(h) \/ FailDelivery(h)
  <2>1. DeliveryState' = DeliveryState
    BY <1>4 DEF RefuseNotification, FailDelivery, DeliveryState
  <2> QED BY <1>0, <1>4, <2>1 DEF RefuseNotification, FailDelivery, TypeOK
<1> QED BY <1>1, <1>2, <1>3, <1>4 DEF NotificationStep, HandlerStep

(* Every step of a submission keeps the types.                             *)
LEMMA SubmissionTypeOK ==
  ASSUME TypeOK, NEW p \in Submissions, SubmissionStep(p) PROVE TypeOK'
<1> USE DEF appleVars
<1>0. /\ Idle \in SubmissionState
      /\ SubmissionState' = SubmissionState
      /\ DeliveryState' = DeliveryState
  BY DEF DeliveryState, SubmissionState, SubmissionStep, ReadForSubmission,
         WriteSubmission, RefuseSubmission, FailSubmission
<1>1. ASSUME NEW u \in Users, NEW receipt \in receipts, ReadForSubmission(p, u, receipt)
      PROVE  TypeOK'
  <2>1. ResolveSubmittedStatus(receipt) \in {"active", "expired", "revoked"}
    BY DEF ResolveSubmittedStatus, TypeOK, Receipt
  <2>2. submission' \in [Submissions -> SubmissionState]
    BY <1>1, <2>1 DEF ReadForSubmission, TypeOK, SubmissionState
  <2> QED BY <1>0, <1>1, <2>2 DEF ReadForSubmission, TypeOK
<1>2. CASE WriteSubmission(p)
  <2> DEFINE r == submission[p]
             row == [sub |-> r.receipt.sub, status |-> r.status,
                     expiresAt |-> r.receipt.expiresAt,
                     uuid |-> IF r.seen = Null THEN Null ELSE r.seen.uuid,
                     at |-> IF r.seen = Null THEN Null ELSE r.seen.at]
  <2>1. r # Idle
    BY <1>2 DEF WriteSubmission, Idle
  <2>2. row \in Row
    BY <2>1, SubmissionTypes DEF Row, Receipt, Statuses
  <2>3. r.user \in Users /\ r.receipt \in receipts
    BY <2>1, SubmissionTypes
  <2>4. rows' \in [Users -> Row \cup {Null}]
    BY <1>2, <2>2, <2>3 DEF WriteSubmission, Upsert, TypeOK
  <2>5. claims' \subseteq [user : Users, receipt : receipts]
    BY <1>2, <2>3 DEF WriteSubmission, TypeOK
  <2>6. heard' \in [Users -> SUBSET DOMAIN sent]
    BY <1>2, <2>3 DEF WriteSubmission, CarryOver, TypeOK
  <2> QED BY <1>0, <1>2, <2>4, <2>5, <2>6 DEF WriteSubmission, TypeOK
<1>3. CASE RefuseSubmission(p) \/ FailSubmission(p)
  BY <1>0, <1>3 DEF RefuseSubmission, FailSubmission, TypeOK
<1> QED BY <1>1, <1>2, <1>3 DEF SubmissionStep

(* Stuttering keeps the types.                                             *)
LEMMA StutterTypeOK == TypeOK /\ UNCHANGED vars => TypeOK'
  BY DEF TypeOK, vars, DeliveryState, SubmissionState

(* Any step keeps the types.                                               *)
LEMMA NextTypeOK == TypeOK /\ [Next]_vars => TypeOK'
  BY AppleTypeOK, IgnoreTypeOK, NotificationTypeOK, SubmissionTypeOK, StutterTypeOK
     DEF Next

(* Every variable keeps its type, and every request in flight works for an *)
(* account, a notification and a receipt that exist.                       *)
THEOREM TypeCorrect == Spec => []TypeOK
  BY InitTypeOK, NextTypeOK, PTL DEF Spec

-----------------------------------------------------------------------------
(* What a step can change                                                  *)

(* Nothing that Apple signed and nothing that was claimed is ever taken    *)
(* back, and what is paid is never unpaid.                                 *)
LEMMA Grows ==
  ASSUME TypeOK, [Next]_vars
  PROVE  /\ claims \subseteq claims'
         /\ receipts \subseteq receipts'
         /\ DOMAIN sent \subseteq DOMAIN sent'
         /\ \A i \in DOMAIN sent : sent'[i] = sent[i]
         /\ \A s \in Subs : apple'[s].paidUntil >= apple[s].paidUntil
<1>1. CASE AppleStep
  <2>1. ASSUME NEW s \in Subs, NEW n \in Notice, NEW r \in Receipt,
               NEW phase \in Phases, NEW paid \in Nat, Signs(s, n, r, phase, paid)
        PROVE  /\ receipts \subseteq receipts'
               /\ DOMAIN sent \subseteq DOMAIN sent'
               /\ \A i \in DOMAIN sent : sent'[i] = sent[i]
               /\ \A t \in Subs : apple'[t].paidUntil >= apple[t].paidUntil
    <3>1. receipts \subseteq receipts'
      BY <2>1 DEF Signs
    <3>2. DOMAIN sent \subseteq DOMAIN sent' /\ \A i \in DOMAIN sent : sent'[i] = sent[i]
      BY <2>1, SignsExtends
    <3>3. \A t \in Subs : apple'[t].paidUntil >= apple[t].paidUntil
      BY <2>1 DEF Signs, TypeOK, Notice
    <3> QED BY <3>1, <3>2, <3>3
  <2>2. CASE now' = now + 1 /\ UNCHANGED <<apple, sent, receipts>>
    BY <1>1, <2>2 DEF AppleStep, serverVars, TypeOK
  <2> QED BY <1>1, <2>1, <2>2, AppleSteps DEF AppleStep, serverVars
<1>2. CASE ~AppleStep
  <2>1. UNCHANGED appleVars /\ claims \subseteq claims'
    BY <1>2 DEF Next, vars, appleVars, NotificationStep, HandlerStep, SubmissionStep,
      IgnoreNotification, ReadForNotification, WriteNotification, RevokeAccess,
      RefuseNotification, FailDelivery, ReadForSubmission, WriteSubmission,
      RefuseSubmission, FailSubmission
  <2> QED BY <2>1 DEF appleVars, TypeOK
<1> QED BY <1>1, <1>2

(* The two writers of billing_subscriptions.                               *)
NoticeRow(i) ==
  [sub |-> sent[i].sub, status |-> Outcome(i).status,
   expiresAt |-> sent[i].expiresAt, uuid |-> i, at |-> sent[i].signedDate]

SubmittedRow(r) ==
  [sub |-> r.receipt.sub, status |-> r.status, expiresAt |-> r.receipt.expiresAt,
   uuid |-> IF r.seen = Null THEN Null ELSE r.seen.uuid,
   at |-> IF r.seen = Null THEN Null ELSE r.seen.at]

NotificationWrites(h) ==
  /\ delivery[h] # Idle /\ delivery[h].pc = "write" /\ delivery'[h] # delivery[h]
  /\ Upsert(delivery[h].user, NoticeRow(delivery[h].notice))
  /\ Hear(delivery[h].user, delivery[h].notice, delivery[h].seen)
  /\ UNCHANGED <<now, apple, sent, receipts, submission, claims>>

SubmissionWrites(p) ==
  /\ submission[p] # Idle /\ submission[p].pc = "write" /\ submission'[p] = Idle
  /\ Upsert(submission[p].user, SubmittedRow(submission[p]))
  /\ CarryOver(submission[p].user, submission[p].seen)
  /\ claims' = claims \cup {[user |-> submission[p].user,
                             receipt |-> submission[p].receipt]}
  /\ UNCHANGED <<now, apple, sent, receipts, delivery>>

(* A handler that writes writes the notification over what is there.       *)
LEMMA WriteIsNotificationWrites ==
  ASSUME TypeOK, NEW h \in Deliveries, WriteNotification(h)
  PROVE  NotificationWrites(h)
<1>1. delivery[h] # Idle
  BY DEF WriteNotification, Idle
<1>2. delivery'[h] # delivery[h]
  <2>1. [delivery[h] EXCEPT !.pc = "revoke"].pc = "revoke"
    BY <1>1, DeliveryTypes
  <2>2. delivery'[h] = [delivery[h] EXCEPT !.pc = "revoke"] \/ delivery'[h] = Idle
    BY DEF WriteNotification, TypeOK
  <2> QED BY <1>1, <2>1, <2>2 DEF WriteNotification
<1> QED
  BY <1>1, <1>2 DEF WriteNotification, NotificationWrites, NoticeRow, appleVars

(* The only writers of the table: a notification or a submission upserts.  *)
LEMMA RowWriters ==
  ASSUME TypeOK, [Next]_vars
  PROVE  \/ rows' = rows /\ heard' = heard
         \/ \E h \in Deliveries : NotificationWrites(h)
         \/ \E p \in Submissions : SubmissionWrites(p)
<1>1. \A h \in Deliveries : WriteNotification(h) => NotificationWrites(h)
  BY WriteIsNotificationWrites
<1>2. ASSUME NEW p \in Submissions, WriteSubmission(p) PROVE SubmissionWrites(p)
  <2>1. submission[p] # Idle
    BY <1>2 DEF WriteSubmission, Idle
  <2>2. submission'[p] = Idle
    BY <1>2 DEF WriteSubmission, TypeOK
  <2> QED
    BY <1>2, <2>1, <2>2 DEF WriteSubmission, SubmissionWrites, SubmittedRow, appleVars
<1>3. CASE AppleStep
  BY <1>3 DEF AppleStep, serverVars
<1>4. ASSUME NEW i, IgnoreNotification(i) PROVE rows' = rows /\ heard' = heard
  BY <1>4 DEF IgnoreNotification
<1>5. ASSUME NEW h \in Deliveries, NotificationStep(h), ~WriteNotification(h)
      PROVE  rows' = rows /\ heard' = heard
  BY <1>5 DEF NotificationStep, HandlerStep, ReadForNotification, RevokeAccess,
              RefuseNotification, FailDelivery
<1>6. ASSUME NEW p \in Submissions, SubmissionStep(p), ~WriteSubmission(p)
      PROVE  rows' = rows /\ heard' = heard
  BY <1>6 DEF SubmissionStep, ReadForSubmission, RefuseSubmission, FailSubmission
<1>7. CASE UNCHANGED vars
  BY <1>7 DEF vars
<1> QED BY <1>1, <1>2, <1>3, <1>4, <1>5, <1>6, <1>7 DEF Next

-----------------------------------------------------------------------------
(* Requests in flight keep what they hold: it was true when they read it   *)
(* and nothing takes it back.                                              *)

(* What a delivery holds after a step it held before, or has just read.    *)
LEMMA NewDelivery ==
  ASSUME TypeOK, [Next]_vars, NEW h \in Deliveries, delivery'[h] # Idle
  PROVE  \/ /\ delivery[h] # Idle
            /\ delivery'[h].notice = delivery[h].notice
            /\ delivery'[h].user = delivery[h].user
            /\ delivery'[h].seen = delivery[h].seen
         \/ \E i \in DOMAIN sent, u \in Users :
              /\ u \in OwnersOf(sent[i].sub) /\ Applies(i, rows[u])
              /\ delivery'[h] = [pc |-> "write", notice |-> i, user |-> u, seen |-> rows[u]]
              /\ UNCHANGED <<sent, claims, rows>>
<1>1. CASE UNCHANGED delivery
  BY <1>1
<1>2. ASSUME NEW g \in Deliveries, NEW i \in DOMAIN sent, ReadForNotification(g, i)
      PROVE  \/ delivery'[h] = delivery[h]
             \/ \E u \in Users :
                  /\ u \in OwnersOf(sent[i].sub) /\ Applies(i, rows[u])
                  /\ delivery'[h] = [pc |-> "write", notice |-> i, user |-> u, seen |-> rows[u]]
                  /\ UNCHANGED <<sent, claims, rows>>
  BY <1>2 DEF ReadForNotification, TypeOK, OwnersOf, appleVars
<1>3. ASSUME NEW g \in Deliveries, WriteNotification(g)
      PROVE  \/ delivery'[h] = delivery[h]
             \/ delivery[h] # Idle /\ delivery'[h] = [delivery[h] EXCEPT !.pc = "revoke"]
  BY <1>3 DEF WriteNotification, TypeOK, Idle
<1>4. ASSUME NEW g \in Deliveries,
             RevokeAccess(g) \/ RefuseNotification(g) \/ FailDelivery(g)
      PROVE  delivery'[h] = delivery[h]
  BY <1>4 DEF RevokeAccess, RefuseNotification, FailDelivery, TypeOK
<1>5. \/ UNCHANGED delivery
      \/ \E g \in Deliveries : NotificationStep(g)
  BY DEF Next, vars, AppleStep, serverVars, SubmissionStep, IgnoreNotification,
    ReadForSubmission, WriteSubmission, RefuseSubmission, FailSubmission
<1>6. delivery[h] # Idle => delivery[h] \in
        [pc : {"write", "revoke"}, notice : DOMAIN sent, user : Users, seen : Row]
  BY DeliveryTypes
<1> QED BY <1>1, <1>2, <1>3, <1>4, <1>5, <1>6 DEF NotificationStep, HandlerStep

(* What a submission holds after a step it held before, or has just read.  *)
LEMMA NewSubmission ==
  ASSUME TypeOK, [Next]_vars, NEW p \in Submissions, submission'[p] # Idle
  PROVE  \/ submission'[p] = submission[p]
         \/ \E u \in Users, r \in receipts :
              /\ submission'[p].receipt = r
              /\ submission'[p].status = ResolveSubmittedStatus(r)
              /\ submission'[p].seen = IF OwnersOf(r.sub) = {} THEN Null ELSE rows[u]
              /\ OwnersOf(r.sub) \subseteq {u}
              /\ UNCHANGED <<sent, claims, rows>>
<1>1. CASE UNCHANGED submission
  BY <1>1
<1>2. ASSUME NEW q \in Submissions, SubmissionStep(q)
      PROVE  \/ submission'[p] = submission[p]
             \/ \E u \in Users, r \in receipts :
                  /\ submission'[p].receipt = r
                  /\ submission'[p].status = ResolveSubmittedStatus(r)
                  /\ submission'[p].seen = IF OwnersOf(r.sub) = {} THEN Null ELSE rows[u]
                  /\ OwnersOf(r.sub) \subseteq {u}
                  /\ UNCHANGED <<sent, claims, rows>>
  <2>1. ASSUME NEW u \in Users, NEW r \in receipts, ReadForSubmission(q, u, r), q = p
        PROVE  /\ submission'[p].receipt = r
               /\ submission'[p].status = ResolveSubmittedStatus(r)
               /\ submission'[p].seen = IF OwnersOf(r.sub) = {} THEN Null ELSE rows[u]
               /\ OwnersOf(r.sub) \subseteq {u}
               /\ UNCHANGED <<sent, claims, rows>>
    BY <2>1 DEF ReadForSubmission, TypeOK, appleVars
  <2>2. q # p => submission'[p] = submission[p]
    BY <1>2 DEF SubmissionStep, ReadForSubmission, WriteSubmission,
                RefuseSubmission, FailSubmission, TypeOK
  <2>3. q = p => \E u \in Users, r \in receipts : ReadForSubmission(q, u, r)
    BY <1>2 DEF SubmissionStep, WriteSubmission, RefuseSubmission, FailSubmission, TypeOK
  <2> QED BY <2>1, <2>2, <2>3
<1>3. \/ UNCHANGED submission
      \/ \E q \in Submissions : SubmissionStep(q)
  BY DEF Next, vars, AppleStep, serverVars, NotificationStep, HandlerStep, IgnoreNotification,
    ReadForNotification, WriteNotification, RevokeAccess, RefuseNotification, FailDelivery
<1> QED BY <1>1, <1>2, <1>3

-----------------------------------------------------------------------------
(* The inductive invariant                                                 *)

(* The unique index keeps a subscription with one account.                 *)
LEMMA UniqueStep ==
  ASSUME TypeOK, OneSubscriptionOneAccount, [Next]_vars
  PROVE  OneSubscriptionOneAccount'
<1>1. ASSUME NEW u \in Users, NEW row, Upsert(u, row)
      PROVE  OneSubscriptionOneAccount'
  BY <1>1 DEF Upsert, CanUpsert, OwnersOf, OneSubscriptionOneAccount, TypeOK
<1>2. \A h \in Deliveries : NotificationWrites(h) => delivery[h].user \in Users
  BY DeliveryTypes DEF NotificationWrites
<1>3. \A p \in Submissions : SubmissionWrites(p) => submission[p].user \in Users
  BY SubmissionTypes DEF SubmissionWrites
<1>4. CASE rows' = rows
  BY <1>4 DEF OneSubscriptionOneAccount
<1> QED BY <1>1, <1>2, <1>3, <1>4, RowWriters DEF NotificationWrites, SubmissionWrites

(* Rows name only subscriptions their users have submitted.                *)
LEMMA ClaimedStep ==
  ASSUME TypeOK, OwnersClaimed, DeliveryReads, [Next]_vars
  PROVE  OwnersClaimed'
<1>1. ASSUME NEW u \in Users, NEW row, rows' = [rows EXCEPT ![u] = row],
             \E c \in claims' : c.user = u /\ c.receipt.sub = row.sub
      PROVE  OwnersClaimed'
  BY <1>1, Grows DEF OwnersClaimed, TypeOK
<1>2. ASSUME NEW h \in Deliveries, NotificationWrites(h) PROVE OwnersClaimed'
  <2>1. \E c \in claims' : /\ c.user = delivery[h].user
                           /\ c.receipt.sub = sent[delivery[h].notice].sub
    BY <1>2 DEF NotificationWrites, DeliveryReads
  <2>2. /\ delivery[h].user \in Users
        /\ rows' = [rows EXCEPT ![delivery[h].user] = NoticeRow(delivery[h].notice)]
    BY <1>2, DeliveryTypes DEF NotificationWrites, Upsert
  <2>3. NoticeRow(delivery[h].notice).sub = sent[delivery[h].notice].sub
    BY DEF NoticeRow
  <2> QED BY <1>1, <2>1, <2>2, <2>3
<1>3. ASSUME NEW p \in Submissions, SubmissionWrites(p) PROVE OwnersClaimed'
  <2> DEFINE c == [user |-> submission[p].user, receipt |-> submission[p].receipt]
  <2>1. c \in claims' /\ c.user = submission[p].user
        /\ c.receipt.sub = SubmittedRow(submission[p]).sub
    BY <1>3 DEF SubmissionWrites, SubmittedRow
  <2>2. submission[p].user \in Users
    BY <1>3, SubmissionTypes DEF SubmissionWrites
  <2>3. rows' = [rows EXCEPT ![submission[p].user] = SubmittedRow(submission[p])]
    BY <1>3 DEF SubmissionWrites, Upsert
  <2> HIDE DEF c
  <2> QED BY <1>1, <2>1, <2>2, <2>3
<1>4. CASE rows' = rows
  BY <1>4, Grows DEF OwnersClaimed
<1> QED BY <1>2, <1>3, <1>4, RowWriters

(* Both writers record a cursor of the subscription they write.            *)
LEMMA CursorStep ==
  ASSUME TypeOK, CursorIsOwn, SubmissionReads, [Next]_vars
  PROVE  CursorIsOwn'
<1>1. ASSUME NEW u \in Users, NEW row, rows' = [rows EXCEPT ![u] = row], CursorIn(sent, row)
      PROVE  CursorIsOwn'
  BY <1>1, Grows DEF CursorIsOwn, CursorIn, TypeOK
<1>2. ASSUME NEW h \in Deliveries, NotificationWrites(h) PROVE CursorIsOwn'
  <2>1. CursorIn(sent, NoticeRow(delivery[h].notice))
    BY <1>2, DeliveryTypes DEF NotificationWrites, CursorIn, NoticeRow
  <2> QED BY <1>1, <1>2, <2>1, DeliveryTypes DEF NotificationWrites, Upsert
<1>3. ASSUME NEW p \in Submissions, SubmissionWrites(p) PROVE CursorIsOwn'
  <2>1. CursorIn(sent, SubmittedRow(submission[p]))
    BY <1>3, SubmissionTypes DEF SubmissionWrites, SubmissionReads, CursorIn, SubmittedRow
  <2> QED BY <1>1, <1>3, <2>1, SubmissionTypes DEF SubmissionWrites, Upsert
<1>4. CASE rows' = rows
  BY <1>4, Grows DEF CursorIsOwn
<1> QED BY <1>2, <1>3, <1>4, RowWriters

(* A submission goes on holding a row of its own subscription.             *)
LEMMA SubmissionReadsStep ==
  ASSUME TypeOK, CursorIsOwn, SubmissionReads, [Next]_vars
  PROVE  SubmissionReads'
<1> DEFINE Holds(d, notices) ==
      /\ d.status = "active" => ~d.receipt.revoked
      /\ d.seen # Null => d.seen.sub = d.receipt.sub /\ CursorIn(notices, d.seen)
<1> SUFFICES ASSUME NEW p \in Submissions, submission'[p] # Idle
             PROVE  Holds(submission'[p], sent')
  BY DEF SubmissionReads, CursorIn
<1>1. CASE submission'[p] = submission[p]
  <2>1. Holds(submission[p], sent)
    BY <1>1 DEF SubmissionReads
  <2> QED BY <1>1, <2>1, Grows DEF CursorIn
<1>2. ASSUME NEW u \in Users, NEW r \in receipts,
             submission'[p].receipt = r,
             submission'[p].status = ResolveSubmittedStatus(r),
             submission'[p].seen = IF OwnersOf(r.sub) = {} THEN Null ELSE rows[u],
             OwnersOf(r.sub) \subseteq {u},
             UNCHANGED <<sent, claims, rows>>
      PROVE  Holds(submission'[p], sent')
  <2>1. ASSUME submission'[p].seen # Null
        PROVE  submission'[p].seen.sub = r.sub /\ CursorIn(sent, submission'[p].seen)
    <3>1. submission'[p].seen = rows[u] /\ u \in OwnersOf(r.sub)
      BY <1>2, <2>1
    <3> QED BY <3>1 DEF OwnersOf, CursorIsOwn, CursorIn
  <2>2. ResolveSubmittedStatus(r) = "active" => ~r.revoked
    BY DEF ResolveSubmittedStatus, TypeOK, Receipt
  <2> QED BY <1>2, <2>1, <2>2
<1> QED BY <1>1, <1>2, NewSubmission

(* What DeliveryReads says of one request.                                 *)
ReadOK(d, notices, made) ==
  /\ \E c \in made : c.user = d.user /\ c.receipt.sub = notices[d.notice].sub
  /\ d.seen # Null /\ d.seen.sub = notices[d.notice].sub
  /\ ShouldApply(d.notice, notices[d.notice].signedDate, d.seen)

(* A delivery goes on holding an account that claimed its subscription.    *)
LEMMA DeliveryReadsStep ==
  ASSUME TypeOK, OwnersClaimed, DeliveryReads, [Next]_vars
  PROVE  DeliveryReads'
<1> SUFFICES ASSUME NEW h \in Deliveries, delivery'[h] # Idle
             PROVE  ReadOK(delivery'[h], sent', claims')
  BY DEF DeliveryReads, Applies, ReadOK
<1>1. ASSUME delivery[h] # Idle,
             delivery'[h].notice = delivery[h].notice,
             delivery'[h].user = delivery[h].user,
             delivery'[h].seen = delivery[h].seen
      PROVE  ReadOK(delivery'[h], sent', claims')
  <2>1. delivery[h].notice \in DOMAIN sent
    BY <1>1, DeliveryTypes
  <2>2. ReadOK(delivery[h], sent, claims)
    BY <1>1 DEF DeliveryReads, Applies, ReadOK
  <2>3. sent'[delivery[h].notice] = sent[delivery[h].notice] /\ claims \subseteq claims'
    BY <2>1, Grows
  <2> QED BY <1>1, <2>2, <2>3 DEF ReadOK
<1>2. ASSUME NEW i \in DOMAIN sent, NEW u \in Users,
             u \in OwnersOf(sent[i].sub), Applies(i, rows[u]),
             delivery'[h] = [pc |-> "write", notice |-> i, user |-> u, seen |-> rows[u]],
             UNCHANGED <<sent, claims, rows>>
      PROVE  ReadOK(delivery'[h], sent', claims')
  BY <1>2 DEF OwnersOf, OwnersClaimed, Applies, ReadOK
<1> QED BY <1>1, <1>2, NewDelivery

(* A term stays paid.                                                      *)
LEMMA TermGrows ==
  ASSUME TypeOK, [Next]_vars, NEW x, x.sub \in Subs, x.expiresAt \in Nat \cup {Null},
         TermPaid(x, apple, receipts)
  PROVE  TermPaid(x, apple', receipts')
<1>1. CASE x.expiresAt = Null
  BY <1>1, Grows DEF TermPaid
<1>2. CASE x.expiresAt \in Nat
  <2>1. apple[x.sub].paidUntil \in Nat /\ apple'[x.sub].paidUntil \in Nat
    BY NextTypeOK DEF TypeOK
  <2>2. x.expiresAt # Null
    BY <1>2, NullAssumption
  <2> QED BY <1>2, <2>1, <2>2, Grows DEF TermPaid
<1> QED BY <1>1, <1>2

(* Whatever Apple signs next is covered by what it was paid.               *)
LEMMA SignedStep ==
  ASSUME TypeOK, SignedIsPaid, [Next]_vars
  PROVE  SignedIsPaid'
<1>1. \A i \in DOMAIN sent : TermPaid(sent[i], apple', receipts')
  <2>1. \A i \in DOMAIN sent : sent[i] \in Notice
    BY DEF TypeOK
  <2> QED BY <2>1, TermGrows DEF SignedIsPaid, Notice
<1>2. \A r \in receipts : TermPaid(r, apple', receipts')
  <2>1. \A r \in receipts : r \in Receipt
    BY DEF TypeOK
  <2> QED BY <2>1, TermGrows DEF SignedIsPaid, Receipt
<1>3. ASSUME NEW s \in Subs, NEW n \in Notice, NEW r \in Receipt,
             NEW phase \in Phases, NEW paid \in Nat, Signs(s, n, r, phase, paid)
      PROVE  SignedIsPaid'
  <2>1. TermPaid(r, apple', receipts')
    <3>1. r \in receipts' /\ apple'[s].paidUntil = paid /\ r.sub = s
          /\ r.expiresAt \in {paid, Null}
      BY <1>3 DEF Signs, TypeOK
    <3> QED BY <3>1 DEF TermPaid
  <2>2. TermPaid(n, apple', receipts')
    <3>1. n.sub = r.sub /\ n.expiresAt = r.expiresAt
      BY <1>3 DEF Signs
    <3> QED BY <2>1, <3>1 DEF TermPaid
  <2>3. \A i \in DOMAIN sent' : TermPaid(sent'[i], apple', receipts')
    BY <1>1, <1>3, <2>2, SignsExtends
  <2>4. \A q \in receipts' : TermPaid(q, apple', receipts')
    BY <1>2, <1>3, <2>1 DEF Signs
  <2> QED BY <2>3, <2>4 DEF SignedIsPaid
<1>4. CASE UNCHANGED <<apple, sent, receipts>>
  BY <1>4 DEF SignedIsPaid
<1>5. CASE ~AppleStep
  <2>1. UNCHANGED <<apple, sent, receipts>>
    BY <1>5 DEF Next, vars, appleVars, NotificationStep, HandlerStep, SubmissionStep,
      IgnoreNotification, ReadForNotification, WriteNotification, RevokeAccess,
      RefuseNotification, FailDelivery, ReadForSubmission, WriteSubmission,
      RefuseSubmission, FailSubmission
  <2> QED BY <1>4, <2>1
<1> QED BY <1>3, <1>4, <1>5, AppleSteps DEF AppleStep

(* What a write leaves in the row of the account it works for, and in that *)
(* of any other.                                                           *)
LEMMA Written ==
  ASSUME TypeOK, [Next]_vars, NEW v \in Users
  PROVE  \/ rows'[v] = rows[v] /\ heard'[v] = heard[v]
         \/ \E h \in Deliveries :
              /\ NotificationWrites(h) /\ delivery[h].user = v
              /\ rows'[v] = NoticeRow(delivery[h].notice)
              /\ heard'[v] =
                   IF /\ delivery[h].seen # Null /\ delivery[h].seen = rows[v]
                      /\ delivery[h].seen.at # Null
                      /\ sent[delivery[h].notice].signedDate # Null
                   THEN heard[v] \cup {delivery[h].notice} ELSE {delivery[h].notice}
         \/ \E p \in Submissions :
              /\ SubmissionWrites(p) /\ submission[p].user = v
              /\ rows'[v] = SubmittedRow(submission[p])
              /\ heard'[v] =
                   IF submission[p].seen # Null /\ submission[p].seen = rows[v]
                   THEN heard[v] ELSE {}
<1>1. CASE rows' = rows /\ heard' = heard
  BY <1>1
<1>2. ASSUME NEW h \in Deliveries, NotificationWrites(h), delivery[h].user # v
      PROVE  rows'[v] = rows[v] /\ heard'[v] = heard[v]
  BY <1>2 DEF NotificationWrites, Upsert, Hear, TypeOK
<1>3. ASSUME NEW h \in Deliveries, NotificationWrites(h), delivery[h].user = v
      PROVE  /\ rows'[v] = NoticeRow(delivery[h].notice)
             /\ heard'[v] =
                  IF /\ delivery[h].seen # Null /\ delivery[h].seen = rows[v]
                     /\ delivery[h].seen.at # Null
                     /\ sent[delivery[h].notice].signedDate # Null
                  THEN heard[v] \cup {delivery[h].notice} ELSE {delivery[h].notice}
  BY <1>3 DEF NotificationWrites, Upsert, Hear, TypeOK
<1>4. ASSUME NEW p \in Submissions, SubmissionWrites(p), submission[p].user # v
      PROVE  rows'[v] = rows[v] /\ heard'[v] = heard[v]
  BY <1>4 DEF SubmissionWrites, Upsert, CarryOver, TypeOK
<1>5. ASSUME NEW p \in Submissions, SubmissionWrites(p), submission[p].user = v
      PROVE  /\ rows'[v] = SubmittedRow(submission[p])
             /\ heard'[v] =
                   IF submission[p].seen # Null /\ submission[p].seen = rows[v]
                   THEN heard[v] ELSE {}
  BY <1>5 DEF SubmissionWrites, Upsert, CarryOver, TypeOK
<1> QED BY <1>1, <1>2, <1>3, <1>4, <1>5, RowWriters

(* Both writers write a term that Apple signed.                            *)
LEMMA RowIsPaidStep ==
  ASSUME TypeOK, SignedIsPaid, RowIsPaid, [Next]_vars
  PROVE  RowIsPaid'
<1> SUFFICES ASSUME NEW v \in Users, rows'[v] # Null
             PROVE  TermPaid(rows'[v], apple', receipts')
  BY DEF RowIsPaid
<1>1. CASE rows'[v] = rows[v]
  <2>1. rows[v] \in Row
    BY <1>1 DEF TypeOK
  <2>2. TermPaid(rows[v], apple, receipts)
    BY <1>1 DEF RowIsPaid
  <2> QED BY <1>1, <2>1, <2>2, TermGrows DEF Row
<1>2. ASSUME NEW h \in Deliveries, NotificationWrites(h),
             rows'[v] = NoticeRow(delivery[h].notice)
      PROVE  TermPaid(rows'[v], apple', receipts')
  <2> DEFINE i == delivery[h].notice
  <2>1. i \in DOMAIN sent /\ UNCHANGED <<apple, receipts>>
    BY <1>2, DeliveryTypes DEF NotificationWrites
  <2>2. TermPaid(sent[i], apple, receipts)
    BY <2>1 DEF SignedIsPaid
  <2> QED BY <1>2, <2>1, <2>2 DEF NoticeRow, TermPaid
<1>3. ASSUME NEW p \in Submissions, SubmissionWrites(p),
             rows'[v] = SubmittedRow(submission[p])
      PROVE  TermPaid(rows'[v], apple', receipts')
  <2> DEFINE r == submission[p].receipt
  <2>1. r \in receipts /\ UNCHANGED <<apple, receipts>>
    BY <1>3, SubmissionTypes DEF SubmissionWrites
  <2>2. TermPaid(r, apple, receipts)
    BY <2>1 DEF SignedIsPaid
  <2> QED BY <1>3, <2>1, <2>2 DEF SubmittedRow, TermPaid
<1> QED BY <1>1, <1>2, <1>3, Written

(* What RowSays says of one row.                                           *)
Says(row, v, notices, made) ==
  \/ /\ row.uuid # Null
     /\ ResolveOutcome(notices[row.uuid].type, notices[row.uuid].subtype).status = row.status
  \/ /\ row.status = "active"
     /\ \E c \in made :
          /\ c.user = v /\ ~c.receipt.revoked
          /\ c.receipt.sub = row.sub /\ c.receipt.expiresAt = row.expiresAt

(* A row that entitles was written by a notification that does, or by a    *)
(* submission.                                                             *)
LEMMA RowSaysStep ==
  ASSUME TypeOK, CursorIsOwn, SubmissionReads, RowSays, [Next]_vars
  PROVE  RowSays'
<1> SUFFICES ASSUME NEW v \in Users, rows'[v] # Null, IsEntitling(rows'[v].status)
             PROVE  Says(rows'[v], v, sent', claims')
  BY DEF RowSays, Submitted, Outcome, Says
<1>1. CASE rows'[v] = rows[v]
  <2>1. CASE rows[v].uuid # Null /\ Outcome(rows[v].uuid).status = rows[v].status
    <3>1. rows[v].uuid \in DOMAIN sent
      BY <1>1, <2>1 DEF CursorIsOwn
    <3>2. sent'[rows[v].uuid] = sent[rows[v].uuid]
      BY <3>1, Grows
    <3> QED BY <1>1, <2>1, <3>2 DEF Outcome, Says
  <2>2. CASE rows[v].status = "active" /\ Submitted(v)
    <3>1. claims \subseteq claims'
      BY Grows
    <3> QED BY <1>1, <2>2, <3>1 DEF Submitted, Says
  <2> QED BY <1>1, <2>1, <2>2 DEF RowSays
<1>2. ASSUME NEW h \in Deliveries, NotificationWrites(h),
             rows'[v] = NoticeRow(delivery[h].notice)
      PROVE  Says(rows'[v], v, sent', claims')
  <2>1. delivery[h].notice \in DOMAIN sent /\ delivery[h].notice \in Nat
    BY <1>2, DeliveryTypes DEF NotificationWrites
  <2>2. delivery[h].notice # Null
    BY <2>1, NullAssumption
  <2>3. sent' = sent
    BY <1>2 DEF NotificationWrites
  <2> QED BY <1>2, <2>2, <2>3 DEF NoticeRow, Outcome, Says
<1>3. ASSUME NEW p \in Submissions, SubmissionWrites(p), submission[p].user = v,
             rows'[v] = SubmittedRow(submission[p])
      PROVE  Says(rows'[v], v, sent', claims')
  <2> DEFINE c == [user |-> submission[p].user, receipt |-> submission[p].receipt]
  <2>1. /\ submission[p] # Idle /\ c \in claims'
        /\ submission[p].status \in {"active", "expired", "revoked"}
    BY <1>3, SubmissionTypes DEF SubmissionWrites
  <2>2. submission[p].status = "active"
    BY <1>3, <2>1 DEF SubmittedRow, IsEntitling
  <2>3. ~submission[p].receipt.revoked
    BY <2>1, <2>2 DEF SubmissionReads
  <2>4. /\ c.user = v /\ ~c.receipt.revoked
        /\ c.receipt.sub = rows'[v].sub /\ c.receipt.expiresAt = rows'[v].expiresAt
        /\ rows'[v].status = "active"
    BY <1>3, <2>2, <2>3 DEF SubmittedRow
  <2> HIDE DEF c
  <2> QED BY <2>1, <2>4 DEF Says
<1> QED BY <1>1, <1>2, <1>3, Written

(* What is written on a fresh read is no older than all the row has heard. *)
LEMMA HeardStep ==
  ASSUME TypeOK, CursorIsOwn, DeliveryReads, HeardInOrder, [Next]_vars
  PROVE  HeardInOrder'
<1> DEFINE Sup(i, row) ==
      \/ i = row.uuid
      \/ /\ i # row.uuid
         /\ sent[i].signedDate # Null /\ row.at # Null
         /\ sent[i].signedDate <= row.at
<1> SUFFICES ASSUME NEW v \in Users, NEW i \in heard'[v]
             PROVE  rows'[v].uuid # Null
                    /\ i \in DOMAIN sent /\ Sup(i, rows'[v])
  <2>1. \A i \in DOMAIN sent : sent'[i] = sent[i]
    BY Grows
  <2> QED BY <2>1 DEF HeardInOrder, Superseded
<1>1. ASSUME i \in heard[v]
      PROVE  /\ rows[v].uuid # Null
             /\ i \in DOMAIN sent /\ Sup(i, rows[v])
  BY <1>1 DEF HeardInOrder, Superseded, TypeOK
<1>2. CASE rows'[v] = rows[v] /\ heard'[v] = heard[v]
  BY <1>1, <1>2
<1>3. ASSUME NEW h \in Deliveries, NotificationWrites(h), delivery[h].user = v,
             rows'[v] = NoticeRow(delivery[h].notice),
             heard'[v] =
               IF /\ delivery[h].seen # Null /\ delivery[h].seen = rows[v]
                  /\ delivery[h].seen.at # Null
                  /\ sent[delivery[h].notice].signedDate # Null
               THEN heard[v] \cup {delivery[h].notice} ELSE {delivery[h].notice}
      PROVE  rows'[v].uuid # Null
             /\ i \in DOMAIN sent /\ Sup(i, rows'[v])
  <2> DEFINE k == delivery[h].notice
  <2>1. k \in DOMAIN sent /\ k \in Nat /\ k # Null /\ delivery[h] # Idle
    BY <1>3, DeliveryTypes, NullAssumption DEF NotificationWrites
  <2>2. rows'[v].uuid = k /\ rows'[v].at = sent[k].signedDate
    BY <1>3 DEF NoticeRow
  <2>3. CASE i = k
    BY <2>1, <2>2, <2>3
  <2>4. CASE i # k
    <3>1. /\ i \in heard[v] /\ delivery[h].seen = rows[v] /\ rows[v] # Null
          /\ rows[v].at # Null /\ sent[k].signedDate # Null
      BY <1>3, <2>4
    <3>2. /\ rows[v].uuid # Null /\ rows[v] \in Row
          /\ i \in DOMAIN sent /\ Sup(i, rows[v])
      BY <1>1, <3>1 DEF TypeOK
    <3>3. sent[i].signedDate # Null /\ sent[i].signedDate <= rows[v].at
      BY <3>1, <3>2 DEF CursorIsOwn, Row
    <3>4. Applies(k, rows[v])
      BY <2>1, <3>1 DEF DeliveryReads
    <3>5. sent[k].signedDate >= rows[v].at
      BY <3>1, <3>2, <3>4 DEF Applies, ShouldApply
    <3>6. sent[i] \in Notice /\ sent[k] \in Notice
      BY <2>1, <3>2 DEF TypeOK
    <3>7. sent[i].signedDate \in Nat /\ sent[k].signedDate \in Nat /\ rows[v].at \in Nat
      BY <3>1, <3>2, <3>3, <3>6 DEF Notice, Row
    <3>8. sent[i].signedDate <= sent[k].signedDate
      BY <3>3, <3>5, <3>7
    <3> QED BY <2>1, <2>2, <2>4, <3>1, <3>2, <3>3, <3>8
  <2> QED BY <2>3, <2>4
<1>4. ASSUME NEW p \in Submissions, SubmissionWrites(p), submission[p].user = v,
             rows'[v] = SubmittedRow(submission[p]),
             heard'[v] =
                   IF submission[p].seen # Null /\ submission[p].seen = rows[v]
                   THEN heard[v] ELSE {}
      PROVE  rows'[v].uuid # Null
             /\ i \in DOMAIN sent /\ Sup(i, rows'[v])
  <2>1. i \in heard[v] /\ submission[p].seen = rows[v] /\ submission[p].seen # Null
    BY <1>4
  <2>2. rows'[v].uuid = rows[v].uuid /\ rows'[v].at = rows[v].at
    BY <1>4, <2>1 DEF SubmittedRow
  <2> QED BY <1>1, <2>1, <2>2
<1> QED BY <1>2, <1>3, <1>4, Written

(* The strengthened invariant holds at the start.                          *)
THEOREM InitIInv == Init => IInv
<1> SUFFICES ASSUME Init PROVE IInv
  OBVIOUS
<1>1. TypeOK
  BY InitTypeOK
<1> QED
  BY <1>1 DEF Init, AppleInit, IInv, OneSubscriptionOneAccount, OwnersClaimed, CursorIsOwn,
          SubmissionReads, DeliveryReads, SignedIsPaid, RowIsPaid, RowSays, HeardInOrder

(* Every step preserves it.                                                *)
THEOREM NextIInv == IInv /\ [Next]_vars => IInv'
  BY NextTypeOK, UniqueStep, ClaimedStep, CursorStep, SubmissionReadsStep,
     DeliveryReadsStep, SignedStep, RowIsPaidStep, RowSaysStep, HeardStep DEF IInv

(* The strengthened invariant, from which the theorems below follow.       *)
THEOREM Inductive == Spec => []IInv
  BY InitIInv, NextIInv, PTL DEF Spec

-----------------------------------------------------------------------------
(* The theorems                                                            *)

(* One App Store subscription entitles at most one account.                *)
THEOREM Unique == Spec => []OneSubscriptionOneAccount
<1>1. IInv => OneSubscriptionOneAccount
  BY DEF IInv
<1> QED BY <1>1, Inductive, PTL

(* No notification invents an owner.                                       *)
THEOREM Claimed == Spec => []OwnersClaimed
<1>1. IInv => OwnersClaimed
  BY DEF IInv
<1> QED BY <1>1, Inductive, PTL

(* A row's replay and ordering guards belong to its own subscription.      *)
THEOREM Cursor == Spec => []CursorIsOwn
<1>1. IInv => CursorIsOwn
  BY DEF IInv
<1> QED BY <1>1, Inductive, PTL

(* Nobody is served but for a term that was paid, for a purchase without   *)
(* an expiry or in an announced grace period, and no notification that     *)
(* ends a subscription is undone by an older one or by a replay.           *)
THEOREM NoFreeService == Spec => []NoServiceBeyondPaidTerm
<1>1. IInv => NoServiceBeyondPaidTerm
  <2> SUFFICES ASSUME IInv, NEW u \in Users, Entitled(u)
               PROVE  /\ \/ now < apple[rows[u].sub].paidUntil
                         \/ BoughtForGood(u)
                         \/ InAnnouncedGrace(u)
                      /\ \A i \in heard[u] : Outcome(i).ends =>
                           Superseded(i, u) \/ (i = rows[u].uuid /\ Submitted(u))
    BY DEF NoServiceBeyondPaidTerm
  <2>1. /\ rows[u] # Null /\ rows[u] \in Row /\ now \in Nat
        /\ IsEntitling(rows[u].status)
    BY DEF IInv, TypeOK, Entitled, IsCurrentlyEntitled
  <2>2. /\ TermPaid(rows[u], apple, receipts)
        /\ \/ rows[u].uuid # Null /\ Outcome(rows[u].uuid).status = rows[u].status
           \/ rows[u].status = "active" /\ Submitted(u)
    BY <2>1 DEF IInv, RowIsPaid, RowSays
  <2>3. now < apple[rows[u].sub].paidUntil \/ BoughtForGood(u) \/ InAnnouncedGrace(u)
    <3>1. CASE rows[u].status = "grace_period"
      BY <2>2, <3>1 DEF InAnnouncedGrace
    <3>2. CASE rows[u].expiresAt = Null
      BY <2>2, <3>2 DEF TermPaid, BoughtForGood
    <3>3. CASE rows[u].status # "grace_period" /\ rows[u].expiresAt # Null
      <4>1. rows[u].expiresAt > now /\ rows[u].expiresAt <= apple[rows[u].sub].paidUntil
        BY <2>2, <3>3 DEF Entitled, IsCurrentlyEntitled, TermPaid
      <4>2. rows[u].expiresAt \in Nat /\ apple[rows[u].sub].paidUntil \in Nat
        BY <2>1, <3>3 DEF IInv, TypeOK, Row
      <4> QED BY <2>1, <4>1, <4>2
    <3> QED BY <3>1, <3>2, <3>3
  <2>4. ASSUME NEW i \in heard[u], Outcome(i).ends, ~Superseded(i, u)
        PROVE  i = rows[u].uuid /\ Submitted(u)
    <3>1. i = rows[u].uuid
      BY <2>4 DEF IInv, HeardInOrder
    <3>2. ~IsEntitling(Outcome(i).status)
      BY <2>4 DEF Outcome, ResolveOutcome, IsEntitling
    <3> QED BY <2>1, <2>2, <3>1, <3>2
  <2> QED BY <2>3, <2>4
<1> QED BY <1>1, Inductive, PTL

(* A row's notification date goes back only in a write whose read was      *)
(* stale, or with a notification that bears no date: shouldApply is enough *)
(* when nothing comes between.                                             *)
THEOREM Ordered == Spec => RegressOnlyOnStaleRead
<1>1. ASSUME IInv, [Next]_vars, NEW u \in Users, Regresses(u), ~WritesUndated(u)
      PROVE  WritesOnStaleRead(u)
  <2>1. TypeOK /\ rows[u] \in Row /\ rows[u].at \in Nat
    BY <1>1 DEF Regresses, IInv, TypeOK, Row
  <2>2. rows' # rows
    BY <1>1, <2>1 DEF Regresses
  <2>3. ASSUME NEW h \in Deliveries, NotificationWrites(h), delivery[h].seen = rows[u]
        PROVE  FALSE
    <3> DEFINE i == delivery[h].notice
    <3>0. u = delivery[h].user
      BY <1>1, <2>1, <2>3 DEF Regresses, NotificationWrites, Upsert, TypeOK
    <3>1. i \in DOMAIN sent /\ sent[i] \in Notice /\ sent[i].signedDate \in Nat
      <4>1. i \in DOMAIN sent /\ sent[i] \in Notice
        BY <2>1, <2>3, DeliveryTypes DEF NotificationWrites
      <4>2. sent[i].signedDate # Null
        BY <1>1, <2>3, <3>0 DEF WritesUndated, NotificationWrites
      <4> QED BY <4>1, <4>2 DEF Notice
    <3>2. Applies(i, rows[u])
      BY <1>1, <2>3 DEF IInv, DeliveryReads, NotificationWrites
    <3>3. sent[i].signedDate >= rows[u].at
      BY <1>1, <2>1, <3>1, <3>2, NullAssumption DEF Regresses, Applies, ShouldApply
    <3>4. u = delivery[h].user /\ rows'[u].at = sent[i].signedDate
      BY <1>1, <2>1, <2>3 DEF Regresses, NotificationWrites, Upsert, NoticeRow, TypeOK
    <3> QED BY <1>1, <2>1, <3>1, <3>3, <3>4, NullAssumption DEF Regresses
  <2>4. ASSUME NEW p \in Submissions, SubmissionWrites(p), submission[p].seen = rows[u]
        PROVE  FALSE
    <3>1. u = submission[p].user /\ rows'[u].at = rows[u].at
      BY <1>1, <2>1, <2>4 DEF Regresses, SubmissionWrites, Upsert, SubmittedRow, TypeOK
    <3> QED BY <1>1, <2>1, <3>1 DEF Regresses
  <2> QED
    BY <2>1, <2>2, <2>3, <2>4, <1>1, RowWriters
       DEF WritesOnStaleRead, NotificationWrites, SubmissionWrites
<1>2. IInv /\ [Next]_vars => 
        [\A u \in Users : Regresses(u) => WritesOnStaleRead(u) \/ WritesUndated(u)]_vars
  BY <1>1
<1> QED
  BY <1>2, Inductive, PTL DEF Spec, RegressOnlyOnStaleRead

-----------------------------------------------------------------------------
(* Replays                                                                 *)

(* No two notifications of one subscription bear one date.                 *)
DatesDiffer ==
  \A i, j \in DOMAIN sent :
    (/\ sent[i].sub = sent[j].sub
     /\ sent[i].signedDate = sent[j].signedDate /\ sent[i].signedDate # Null)
      => i = j

(* What Apple signs bears a date no other one of that subscription bears.  *)
LEMMA DatesStep ==
  ASSUME TypeOK, DatesDiffer, ~Ties, [Next]_vars
  PROVE  DatesDiffer'
<1>1. ASSUME NEW s, NEW type, NEW subtype, NEW phase, NEW paid, Sign(s, type, subtype, phase, paid)
      PROVE  DatesDiffer'
  <2>1. PICK n : /\ sent' = Append(sent, n) /\ n.sub = s
                 /\ n.signedDate = Null \/ \A i \in DOMAIN sent :
                      sent[i].sub = s => sent[i].signedDate # n.signedDate
    <3>1. PICK date \in OrMissing("date", now), expiry \in OrMissing("expiry", paid),
               carries \in IF "transaction" \in Gaps THEN BOOLEAN ELSE {TRUE} :
            /\ date = Null \/ \A i \in DOMAIN sent : sent[i].sub = s => sent[i].signedDate # date
            /\ sent' = Append(sent, [sub |-> s, type |-> type, subtype |-> subtype,
                 signedDate |-> date, expiresAt |-> expiry, carries |-> carries])
      BY <1>1 DEF Sign
    <3> DEFINE n == [sub |-> s, type |-> type, subtype |-> subtype,
                     signedDate |-> date, expiresAt |-> expiry, carries |-> carries]
    <3>2. n.sub = s /\ n.signedDate = date
      OBVIOUS
    <3>3. sent' = Append(sent, n)
      BY <3>1
    <3> HIDE DEF n
    <3> QED BY <3>1, <3>2, <3>3
  <2>2. /\ DOMAIN sent' = DOMAIN sent \cup {Len(sent) + 1}
        /\ \A i \in DOMAIN sent : sent'[i] = sent[i]
        /\ sent'[Len(sent) + 1] = n
    BY <2>1 DEF TypeOK
  <2> QED BY <2>1, <2>2 DEF DatesDiffer
<1>2. CASE sent' = sent
  BY <1>2 DEF DatesDiffer
<1>3. CASE AppleStep
  <2>1. ASSUME NEW s \in Subs,
               \/ Purchase(s) \/ Renew(s) \/ ChangeAutoRenew(s)
               \/ EnterGrace(s) \/ LeaveGrace(s)
               \/ Lapse(s) \/ Refund(s) \/ Announce(s)
        PROVE  DatesDiffer'
    BY <1>1, <2>1 DEF Purchase, Renew, ChangeAutoRenew, EnterGrace, LeaveGrace, Lapse,
      Refund, Announce
  <2>2. CASE Tick
    BY <1>2, <2>2 DEF Tick
  <2> QED BY <1>3, <2>1, <2>2 DEF AppleStep, AppleNext
<1>4. CASE ~AppleStep
  <2>1. sent' = sent
    BY <1>4 DEF Next, vars, appleVars, NotificationStep, HandlerStep, SubmissionStep,
      IgnoreNotification, ReadForNotification, WriteNotification, RevokeAccess,
      RefuseNotification, FailDelivery, ReadForSubmission, WriteSubmission,
      RefuseSubmission, FailSubmission
  <2> QED BY <1>2, <2>1
<1> QED BY <1>3, <1>4

(* A handler that writes on a fresh read writes what the row has not heard *)
(* before.                                                                 *)
LEMMA FreshIsNew ==
  ASSUME IInv, DatesDiffer, NEW h \in Deliveries, NotificationWrites(h),
         delivery[h].seen = rows[delivery[h].user]
  PROVE  delivery[h].notice \notin heard[delivery[h].user]
<1> DEFINE i == delivery[h].notice
           u == delivery[h].user
<1> SUFFICES ASSUME i \in heard[u] PROVE FALSE
  OBVIOUS
<1>1. TypeOK /\ delivery[h] # Idle
  BY DEF IInv, NotificationWrites
<1>2. /\ u \in Users /\ i \in DOMAIN sent /\ rows[u] \in Row /\ sent[i] \in Notice
  BY <1>1, DeliveryTypes
<1>3. Applies(i, rows[u]) /\ rows[u].sub = sent[i].sub /\ rows[u] # Null
  BY <1>1 DEF IInv, DeliveryReads
<1>4. rows[u].uuid # Null /\ (i = rows[u].uuid \/ Superseded(i, u))
  BY <1>2 DEF IInv, HeardInOrder
<1>5. i # rows[u].uuid
  BY <1>3 DEF Applies, ShouldApply
<1>6. /\ sent[i].signedDate # Null /\ rows[u].at # Null
      /\ sent[i].signedDate <= rows[u].at
  BY <1>4, <1>5 DEF Superseded
<1>7. sent[i].signedDate >= rows[u].at
  BY <1>3, <1>6 DEF Applies, ShouldApply
<1>8. sent[i].signedDate = rows[u].at
  BY <1>2, <1>6, <1>7 DEF Notice, Row
<1>9. /\ rows[u].uuid \in DOMAIN sent
      /\ sent[rows[u].uuid].sub = rows[u].sub
      /\ sent[rows[u].uuid].signedDate = rows[u].at
  BY <1>2, <1>3, <1>4 DEF IInv, CursorIsOwn
<1> QED BY <1>2, <1>3, <1>5, <1>6, <1>8, <1>9 DEF DatesDiffer

(* The same notificationUUID arriving twice changes nothing, however late  *)
(* and whatever arrived in between, as long as Apple dates notifications   *)
(* apart, the handler's read has not gone stale and the row has not        *)
(* started afresh (entitlement.ts:106-109).                                *)
THEOREM Replays ==
  ASSUME ~Ties
  PROVE  Spec => AppliedOnce
<1> DEFINE Inv == IInv /\ DatesDiffer
<1>1. Init => Inv
  BY InitIInv DEF Init, AppleInit, DatesDiffer
<1>2. Inv /\ [Next]_vars => Inv'
  BY NextIInv, DatesStep DEF IInv
<1>3. ASSUME Inv, NEW h \in Deliveries, WriteNotification(h),
             delivery[h].seen = rows[delivery[h].user]
      PROVE  delivery[h].notice \notin heard[delivery[h].user]
  BY <1>3, WriteIsNotificationWrites, FreshIsNew DEF IInv
<1>4. Inv =>
        [\A h \in Deliveries :
           (WriteNotification(h) /\ delivery[h].seen = rows[delivery[h].user])
             => delivery[h].notice \notin heard[delivery[h].user]]_vars
  BY <1>3
<1> HIDE DEF Inv
<1> QED
  BY <1>1, <1>2, <1>4, PTL DEF Spec, AppliedOnce

=============================================================================
