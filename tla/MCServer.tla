------------------------------ MODULE MCServer ------------------------------
(***************************************************************************)
(* Instances of Server for TLC.                                            *)
(***************************************************************************)
EXTENDS Server, TLC

OwnBank == [a \in Accts |-> <<"bank", a>>]

Claimed == CHOOSE s \in Subs : TRUE
Bought(s) == [sub |-> s, expiresAt |-> 1 + Term, revoked |-> FALSE]

(* A state to start from: every subscription was bought at time 1, one of  *)
(* them by the user, who has submitted the transaction and not connected a *)
(* bank yet.  Nobody has submitted the others.  It is a state Init reaches *)
(* but for sent, which leaves out the SUBSCRIBED notifications of these    *)
(* purchases: the instance has none of their deliveries.                   *)
InitPaying ==
  /\ now = 1
  /\ apple = [s \in Subs |-> [phase |-> "active", paidUntil |-> 1 + Term]]
  /\ sent = <<>>
  /\ receipts = {Bought(s) : s \in Subs}
  /\ rows = [u \in Users |->
       [sub |-> Claimed, status |-> "active", expiresAt |-> 1 + Term,
        uuid |-> Null, at |-> Null]]
  /\ delivery = [h \in Deliveries |-> Idle]
  /\ submission = [p \in Submissions |-> Idle]
  /\ acked = {} /\ applied = {} /\ revoked = {}
  /\ claims = {[user |-> u, receipt |-> Bought(Claimed)] : u \in Users}
  /\ heard = [u \in Users |-> {}]
  /\ B!Init

PayingSpec == InitPaying /\ [][ServerNext]_allVars
PayingFairSpec == PayingSpec /\ RevocationFairness

(* Bound: the app submits again only what the account had bought, when it  *)
(* finds itself without entitlement.                                       *)
PaysAgain ==
  \A p \in Submissions :
    submission[p] = Idle /\ submission'[p] # Idle =>
      /\ submission'[p].user \notin Paying
      /\ submission'[p].receipt = Bought(Claimed)
=============================================================================
