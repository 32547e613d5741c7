------------------------------- MODULE Server -------------------------------
(***************************************************************************)
(* The server as one system: billing (module Billing) and bank connections *)
(* (module BankConnections) over one database, as app.ts wires them.  Two  *)
(* things tie them together.  The gate requireSubscription in front of     *)
(* every bank route reads billing's row and the clock; and the handler of  *)
(* a notification that ends entitlement awaits AkahuBankAccessRevoker,     *)
(* whose steps are the last steps of that delivery.                        *)
(*                                                                         *)
(* BankConnections leaves its environment loose: entitlement comes and     *)
(* goes, and the revoker may be called for anybody whose entitlement ever  *)
(* ended.  Here both are what billing does, and BankSpec says that billing *)
(* stays within what BankConnections assumes, so that what is checked and  *)
(* proved of that module holds of the whole.                               *)
(***************************************************************************)
EXTENDS Billing, FiniteSets

CONSTANTS
  Accts, Bank, AuthStates, Tokens, MaxConnections,  \* as in BankConnections
  Requests,      \* users' requests to the bank routes in flight at a time
  BankFailures   \* the steps at which a request or a revocation may be rejected

ASSUME SlotsAssumption == Requests \cap Deliveries = {}
ASSUME TokensAssumption == Null \notin Tokens

VARIABLES ended, states, token, conn, acct, req, live, minted, excused

Paying == {u \in Users : Entitled(u)}

B == INSTANCE BankConnections WITH
  entitled <- Paying, Requests <- Requests \cup Deliveries, Failures <- BankFailures

bankVars == <<ended, states, token, conn, acct, req, live, minted, excused>>
allVars == <<vars, bankVars>>

ServerInit == Init /\ B!Init

-----------------------------------------------------------------------------
(* Billing moves, and the bank tables with it only in what they record of  *)
(* entitlement: who has lost it, by the clock or by a notification.        *)

EndedBy ==
  {u \in Users : Entitled(u) /\ ~Entitled(u)'}
  \cup {delivery[h].user : h \in
          {g \in Deliveries : delivery[g].pc = "write" /\ delivery'[g].pc = "revoke"}}

BillingMoves ==
  /\ \/ AppleStep
     \/ \E i \in DOMAIN sent : IgnoreNotification(i)
     \/ \E h \in Deliveries : HandlerStep(h)
     \/ \E h \in Deliveries : delivery[h].pc = "write" /\ FailDelivery(h)
     \/ \E p \in Submissions : SubmissionStep(p)
  /\ ended' = ended \cup EndedBy
  /\ excused' = [u \in Users |->
       IF u \in EndedBy THEN Accts \cup B!Banks ELSE excused[u]]
  /\ UNCHANGED <<states, token, conn, acct, req, live, minted>>

(* A user's request to a bank route, the gate included.                    *)
UserMoves(q) ==
  /\ UNCHANGED vars
  /\ \/ \E u \in Users :
          \/ B!Authorise(q, u) \/ B!Sync(q, u)
          \/ \E st \in AuthStates : B!Callback(q, u, st)
          \/ \E b \in B!Banks : B!Delete(q, u, b)
     \/ B!Advance(q) \/ B!Fail(q)

StateExpires == UNCHANGED vars /\ \E st \in AuthStates : B!ExpireState(st)

(* The revocation that the delivery awaits: started for the user of its    *)
(* row, run call by call, and returned from; or an await of it throws, and *)
(* the delivery with it.                                                   *)
CallRevoker(h) ==
  /\ delivery[h].pc = "revoke"
  /\ UNCHANGED vars
  /\ B!Revoke(h, delivery[h].user)

RevokerMoves(h) ==
  /\ UNCHANGED vars
  /\ B!ReadSecret(h) \/ B!AkahuRevoke(h) \/ B!ForgetToken(h) \/ B!MarkConnections(h)

(* mutation: the handler answers without waiting for the revocation        *)
RevokerReturns_Unawaited(h) == RevokeAccess(h) /\ UNCHANGED bankVars

RevokerReturns(h) == RevokeAccess(h) /\ B!MarkAccounts(h)

RevokerThrows(h) == delivery[h].pc = "revoke" /\ FailDelivery(h) /\ B!Fail(h)

Revocation(h) ==
  CallRevoker(h) \/ RevokerMoves(h) \/ RevokerReturns(h) \/ RevokerThrows(h)

ServerNext ==
  \/ BillingMoves
  \/ StateExpires
  \/ \E q \in Requests : UserMoves(q)
  \/ \E h \in Deliveries : Revocation(h)

ServerSpec == ServerInit /\ [][ServerNext]_allVars

(* A revocation under way runs to its end, one way or the other.           *)
RevocationFairness == \A h \in Deliveries : WF_allVars(Revocation(h))

-----------------------------------------------------------------------------
(* Properties                                                              *)

(* Billing and the bank routes together are a behaviour of BankConnections *)
(* with its loose environment: a user passes the gate only while the row   *)
(* entitles them, and the revoker runs only for users whose entitlement    *)
(* has ended (app.ts, notifications.service.ts:143-146).                   *)
BankSpec == B!Spec

Disconnected(u) ==
  /\ \A b \in B!Banks : conn[u][b] # "live"
  /\ \A a \in Accts : acct[u][a] # "live"

Revoking(u) == \E h \in Deliveries : delivery[h].pc = "revoke" /\ delivery[h].user = u

(* A request of u that had passed the gate is still running next to it.    *)
Overlap(u) == Revoking(u) /\ \E q \in Requests : req[q] # Idle /\ req[q].user = u

(* An await of it threw, and the replay that Apple sends is not applied.   *)
Abandoned(u) ==
  \E i \in applied \ revoked :
    /\ Outcome(i).ends
    /\ \A h \in Deliveries : delivery[h].pc = "revoke" => delivery[h].notice # i

(* Once a notification that ends the subscription is written, the user's   *)
(* banks get disconnected, whatever Akahu answers, unless the user pays    *)
(* again in the meantime: provided no request that had passed the gate     *)
(* before is still writing, and no await of the revocation throws          *)
(* (notifications.service.ts:143-146, akahu-revoker.ts:34-93).             *)
EndDisconnects ==
  \A u \in Users :
    []~Overlap(u) => (Revoking(u) ~> (Disconnected(u) \/ Entitled(u) \/ Abandoned(u)))

(* A step that takes bank access from u, other than u's own removal of a   *)
(* bank: the stored token goes, or a live connection is disconnected.      *)
AccessTaken(u) ==
  \/ token[u] # Null /\ token'[u] = Null
  \/ /\ \E b \in B!Banks : conn[u][b] = "live" /\ conn'[u][b] = "gone"
     /\ ~\E q \in Requests : B!At(q, "closeBank") /\ req'[q] # req[q]

(* Nobody loses bank access but by a notification Apple signed that ends a *)
(* subscription this user submitted: not by the clock, not by a            *)
(* notification about somebody else's or an unclaimed subscription, and    *)
(* not by one that leaves the subscription running, however requests,      *)
(* deliveries and resubmissions interleave (notifications.service.ts:86).  *)
OnlyAppleEndsAccess ==
  [][\A u \in Users : AccessTaken(u) =>
       \E i \in applied :
         /\ Outcome(i).ends
         /\ \E c \in claims : c.user = u /\ c.receipt.sub = sent[i].sub]_allVars
=============================================================================
