----------------------------- MODULE MCBilling -----------------------------
(***************************************************************************)
(* Instances of Billing for TLC.                                           *)
(***************************************************************************)
EXTENDS Billing, FiniteSets, TLC

(* Users, deliveries and submissions are only compared for equality.       *)
Symmetry == Permutations(Users) \cup Permutations(Deliveries) \cup Permutations(Subs)

(* No guard reads the histories or acked (only fairness does): the runs    *)
(* that check safety alone identify states that differ in them.            *)
ServerView == <<now, apple, sent, receipts, rows, delivery, submission, claims, heard>>

(* States to start from when a run is about what follows a purchase: some  *)
(* subscriptions were bought at time 1, one account has submitted the      *)
(* transaction of one of them, and Apple has yet to deliver the SUBSCRIBED *)
(* of each.                                                                *)
Bought(s) == [sub |-> s, expiresAt |-> 1 + Term, revoked |-> FALSE]
Claimed == CHOOSE s \in Subs : TRUE
Owner == CHOOSE u \in Users : TRUE

InitClaimed ==
  \E bought \in SUBSET Subs : \E order \in [1..Cardinality(bought) -> bought] :
    /\ Claimed \in bought
    /\ \A s \in bought : \E i \in DOMAIN order : order[i] = s
    /\ now = 1
    /\ apple = [s \in Subs |->
         IF s \in bought THEN [phase |-> "active", paidUntil |-> 1 + Term]
                         ELSE [phase |-> "none", paidUntil |-> 0]]
    /\ sent = [i \in DOMAIN order |->
         [sub |-> order[i], type |-> "SUBSCRIBED", subtype |-> "INITIAL_BUY",
          signedDate |-> 1, expiresAt |-> 1 + Term, carries |-> TRUE]]
    /\ receipts = {Bought(s) : s \in bought}
    /\ rows = [u \in Users |->
         IF u = Owner
         THEN [sub |-> Claimed, status |-> "active", expiresAt |-> 1 + Term,
               uuid |-> Null, at |-> Null]
         ELSE Null]
    /\ delivery = [h \in Deliveries |-> Idle]
    /\ submission = [p \in Submissions |-> Idle]
    /\ acked = {} /\ applied = {} /\ revoked = {}
    /\ claims = {[user |-> Owner, receipt |-> Bought(Claimed)]}
    /\ heard = [u \in Users |-> {}]

ClaimedSpec == InitClaimed /\ [][Next]_vars
ClaimedFairSpec == ClaimedSpec /\ DeliveryFairness /\ SubmissionFairness

(* Bound: in a long story of one subscription nobody submits again; where  *)
(* more were bought, accounts do, and Apple signs nothing more.            *)
OneBought == \A s \in Subs : apple[s].phase # "none" => s = Claimed

Stories ==
  IF OneBought THEN submission' = submission ELSE UNCHANGED <<now, sent>>

(* Bound: Apple leaves out at most one field, and then in a story one      *)
(* notification shorter.                                                   *)
FieldsMissing(notice) ==
  {field \in {"signedDate", "expiresAt"} : notice[field] = Null}
  \cup {field \in {"carries"} : ~notice[field]}

OneGap ==
  \/ sent' = sent
  \/ \A i \in DOMAIN sent' : FieldsMissing(sent'[i]) = {}
  \/ /\ Len(sent') < MaxNotices
     /\ Cardinality(UNION {{i} \X FieldsMissing(sent'[i]) : i \in DOMAIN sent'}) = 1
=============================================================================
