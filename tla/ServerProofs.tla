---------------------------- MODULE ServerProofs ----------------------------
(***************************************************************************)
(* What the composition guarantees for any number of accounts, banks,      *)
(* concurrent requests and notifications: it is a behaviour of Billing and *)
(* of BankConnections, so that what is proved of either holds of the       *)
(* whole; and bank access ends only by a notification of Apple's.          *)
(***************************************************************************)
EXTENDS Server, BillingProofs

Slots == Requests \cup Deliveries

IsTable(f, D) == f = [x \in D |-> f[x]]

(* Nothing is ever inserted under a key that is not there already, and a   *)
(* request in flight knows its user.                                       *)
Tables ==
  /\ IsTable(req, Slots)
  /\ \A q \in Slots : req[q] # Idle => {"pc", "user"} \subseteq DOMAIN req[q]
  /\ IsTable(token, Users)
  /\ IsTable(conn, Users)
  /\ \A u \in Users : IsTable(conn[u], B!Banks)
  /\ IsTable(excused, Users)

RevokeSteps == {"secret", "akahu", "forget", "closeAll", "closeAllAccounts"}

(* A user's request never revokes, what it stores is a token, and a        *)
(* revocation belongs to the delivery that awaits it, and to its user.     *)
RevokerIsAwaited ==
  /\ \A q \in Slots : req[q].pc = "store" => req[q].token # Null
  /\ \A q \in Requests : req[q].pc \notin RevokeSteps
  /\ \A h \in Deliveries : req[h] # Idle =>
       /\ req[h].pc \in RevokeSteps
       /\ delivery[h].pc = "revoke"
       /\ req[h].user = delivery[h].user

(* A delivery that revokes has written a notification that ends.           *)
RevokesAnEnd ==
  \A h \in Deliveries : delivery[h].pc = "revoke" =>
    /\ delivery[h].notice \in applied
    /\ Outcome(delivery[h].notice).ends

ServerInv == IInv /\ Tables /\ RevokerIsAwaited /\ RevokesAnEnd

-----------------------------------------------------------------------------
(* Billing                                                                 *)

(* Every step of the server is a step of billing, or leaves it alone.      *)
LEMMA BillingStep == [ServerNext]_allVars => [Next]_vars
<1> SUFFICES ASSUME [ServerNext]_allVars PROVE [Next]_vars
  OBVIOUS
<1>1. CASE UNCHANGED allVars
  BY <1>1 DEF allVars
<1>2. CASE BillingMoves
  BY <1>2 DEF BillingMoves, Next, NotificationStep
<1>3. CASE StateExpires
  BY <1>3 DEF StateExpires
<1>4. ASSUME NEW q \in Requests, UserMoves(q) PROVE [Next]_vars
  BY <1>4 DEF UserMoves
<1>5. ASSUME NEW h \in Deliveries, Revocation(h) PROVE [Next]_vars
  BY <1>5 DEF Revocation, CallRevoker, RevokerMoves, RevokerReturns, RevokerThrows,
              Next, NotificationStep
<1> QED BY <1>1, <1>2, <1>3, <1>4, <1>5 DEF ServerNext

(* The whole server is a behaviour of Billing: what is proved of Billing   *)
(* holds of it, the revoker and the bank routes running or not.            *)
THEOREM BillingInside == ServerSpec => Spec
<1>1. ServerInit => Init
  BY DEF ServerInit
<1> QED BY <1>1, BillingStep, PTL DEF ServerSpec, Spec

-----------------------------------------------------------------------------
(* The bank tables                                                         *)

(* What one request of the bank routes, or one revocation, may change: its *)
(* own slot, and at most one row of each table.                            *)
LEMMA Footprint ==
  ASSUME NEW q, B!Arrive(q) \/ B!Advance(q) \/ B!Fail(q)
  PROVE  /\ \E r : req' = [req EXCEPT ![q] = r]
         /\ \/ token' = token
            \/ \E t : token' = [token EXCEPT ![req[q].user] = t]
         /\ \/ conn' = conn
            \/ \E b : conn' = [conn EXCEPT ![req[q].user][b] = "live"]
            \/ \E bs : conn' = [conn EXCEPT ![req[q].user] = B!Disconnected(@, bs)]
         /\ \/ excused' = excused
            \/ \E u, why : excused' = [excused EXCEPT ![u] = why]
<1> USE DEF B!Goto, B!tables, B!User
<1>1. CASE B!Arrive(q)
  BY <1>1 DEF B!Arrive, B!Enter, B!Authorise, B!Sync, B!Revoke, B!Callback, B!Delete
<1>2. CASE B!Fail(q)
  BY <1>2 DEF B!Fail
<1>3. CASE B!CountConnections(q) \/ B!IssueState(q) \/ B!ConsumeState(q) \/ B!ExchangeCode(q)
  BY <1>3 DEF B!CountConnections, B!IssueState, B!ConsumeState, B!ExchangeCode
<1>4. CASE B!StoreToken(q) \/ B!GetToken(q) \/ B!ForgetToken(q)
  BY <1>4 DEF B!StoreToken, B!GetToken, B!ForgetToken
<1>5. CASE B!ListAccounts(q)
  BY <1>5 DEF B!ListAccounts
<1>6. CASE B!UpsertConnection(q)
  BY <1>6 DEF B!UpsertConnection
<1>7. CASE B!UpsertAccount(q) \/ B!MarkAccountsMissing(q) \/ B!DisconnectItsAccounts(q)
             \/ B!MarkAccounts(q)
  BY <1>7 DEF B!UpsertAccount, B!MarkAccountsMissing, B!DisconnectItsAccounts, B!MarkAccounts
<1>8. CASE B!DisconnectConnection(q) \/ B!MarkConnections(q)
  BY <1>8 DEF B!DisconnectConnection, B!MarkConnections
<1>9. CASE B!ReadSecret(q) \/ B!AkahuRevoke(q)
  BY <1>9 DEF B!ReadSecret, B!AkahuRevoke
<1> QED BY <1>1, <1>2, <1>3, <1>4, <1>5, <1>6, <1>7, <1>8, <1>9 DEF B!Advance

(* Replacing one field of a request keeps the others.                      *)
LEMMA Replaced ==
  ASSUME NEW r, {"pc", "user"} \subseteq DOMAIN r, NEW v
  PROVE  /\ DOMAIN [r EXCEPT !.left = v] = DOMAIN r
         /\ [r EXCEPT !.left = v].pc = r.pc
         /\ DOMAIN [r EXCEPT !.pc = v] = DOMAIN r
         /\ [r EXCEPT !.pc = v].pc = v
         /\ [r EXCEPT !.pc = v].user = r.user
  OBVIOUS

(* What a user's request holds is never a step of a revocation.            *)
LEMMA RequestSlot ==
  ASSUME Tables, NEW q \in Requests, req[q].pc \notin RevokeSteps,
         \/ \E u \in Users :
              \/ B!Authorise(q, u) \/ B!Sync(q, u)
              \/ \E st \in AuthStates : B!Callback(q, u, st)
              \/ \E b \in B!Banks : B!Delete(q, u, b)
         \/ B!Advance(q) \/ B!Fail(q)
  PROVE  /\ req'[q].pc \notin RevokeSteps
         /\ req'[q].pc = "store" => req'[q].token # Null
         /\ req'[q] # Idle => {"pc", "user"} \subseteq DOMAIN req'[q]
<1>0. /\ req[q].pc # "idle" => {"pc", "user"} \subseteq DOMAIN req[q]
      /\ q \in DOMAIN req
  <2>1. q \in Slots
    BY DEF Slots
  <2>2. q \in DOMAIN req
    BY <2>1 DEF Tables, IsTable
  <2>3. req[q].pc # "idle" => req[q] # Idle
    BY DEF Idle
  <2> QED BY <2>1, <2>2, <2>3 DEF Tables
<1> USE <1>0 DEF B!Goto, B!User, B!At, B!Idle, Idle, RevokeSteps
<1>1. CASE \E u \in Users :
              \/ B!Authorise(q, u) \/ B!Sync(q, u)
              \/ \E st \in AuthStates : B!Callback(q, u, st)
              \/ \E b \in B!Banks : B!Delete(q, u, b)
  BY <1>1 DEF B!Enter, B!Authorise, B!Sync, B!Callback, B!Delete
<1>2. CASE B!Fail(q)
  BY <1>2 DEF B!Fail
<1>3. CASE B!CountConnections(q) \/ B!IssueState(q) \/ B!ConsumeState(q)
  BY <1>3 DEF B!CountConnections, B!IssueState, B!ConsumeState
<1>4. CASE B!ExchangeCode(q)
  BY <1>4, TokensAssumption DEF B!ExchangeCode
<1>5. CASE B!StoreToken(q) \/ B!GetToken(q) \/ B!ListAccounts(q)
  BY <1>5 DEF B!StoreToken, B!GetToken, B!ListAccounts
<1>6. CASE B!UpsertConnection(q) \/ B!UpsertAccount(q)
  <2>1. /\ req[q].pc \in {"banks", "accounts"}
        /\ \/ req'[q].pc \in {"accounts", "missing"} /\ {"pc", "user"} \subseteq DOMAIN req'[q]
           \/ \E v : req'[q] = [req[q] EXCEPT !.left = v]
    <3>1. ASSUME NEW next, B!Goto(q, next) PROVE req'[q] = next
      BY <3>1
    <3> HIDE DEF B!Goto
    <3>2. CASE B!UpsertConnection(q)
      <4>1. PICK b : B!Goto(q, IF req[q].left = {b}
                               THEN [pc |-> "accounts", user |-> B!User(q),
                                     report |-> req[q].report, left |-> req[q].report]
                               ELSE [req[q] EXCEPT !.left = @ \ {b}])
        BY <3>2, Zenon DEF B!UpsertConnection
      <4>2. req'[q] = IF req[q].left = {b}
                      THEN [pc |-> "accounts", user |-> B!User(q),
                            report |-> req[q].report, left |-> req[q].report]
                      ELSE [req[q] EXCEPT !.left = @ \ {b}]
        BY <3>1, <4>1, Zenon
      <4>3. req[q].pc = "banks"
        BY <3>2 DEF B!UpsertConnection
      <4>4. CASE req[q].left = {b}
        BY <4>2, <4>3, <4>4
      <4>5. CASE req[q].left # {b}
        BY <4>2, <4>3, <4>5
      <4> QED BY <4>4, <4>5
    <3>3. CASE B!UpsertAccount(q)
      <4>1. PICK a : B!Goto(q, IF req[q].left = {a}
                               THEN [pc |-> "missing", user |-> B!User(q),
                                     report |-> req[q].report]
                               ELSE [req[q] EXCEPT !.left = @ \ {a}])
        BY <3>3, Zenon DEF B!UpsertAccount
      <4>2. req'[q] = IF req[q].left = {a}
                      THEN [pc |-> "missing", user |-> B!User(q), report |-> req[q].report]
                      ELSE [req[q] EXCEPT !.left = @ \ {a}]
        BY <3>1, <4>1, Zenon
      <4>3. req[q].pc = "accounts"
        BY <3>3 DEF B!UpsertAccount
      <4>4. CASE req[q].left = {a}
        BY <4>2, <4>3, <4>4
      <4>5. CASE req[q].left # {a}
        BY <4>2, <4>3, <4>5
      <4> QED BY <4>4, <4>5
    <3> QED BY <1>6, <3>2, <3>3
  <2>2. {"pc", "user"} \subseteq DOMAIN req[q]
    BY <2>1
  <2>3. CASE \E v : req'[q] = [req[q] EXCEPT !.left = v]
    BY <2>1, <2>2, <2>3, Replaced
  <2> QED BY <2>1, <2>3
<1>7. CASE B!MarkAccountsMissing(q) \/ B!DisconnectItsAccounts(q)
  BY <1>7 DEF B!MarkAccountsMissing, B!DisconnectItsAccounts
<1>8. CASE B!DisconnectConnection(q)
  <2>1. req[q].pc = "closeBank" /\ req'[q] = [req[q] EXCEPT !.pc = "closeBankAccounts"]
    BY <1>8 DEF B!DisconnectConnection
  <2>2. {"pc", "user"} \subseteq DOMAIN req[q]
    BY <2>1
  <2> QED BY <2>1, <2>2, Replaced
<1>9. CASE B!ReadSecret(q) \/ B!AkahuRevoke(q) \/ B!ForgetToken(q)
           \/ B!MarkConnections(q) \/ B!MarkAccounts(q)
  BY <1>9 DEF B!ReadSecret, B!AkahuRevoke, B!ForgetToken, B!MarkConnections, B!MarkAccounts
<1> QED BY <1>1, <1>2, <1>3, <1>4, <1>5, <1>6, <1>7, <1>8, <1>9 DEF B!Advance

(* A step of a revocation is followed by another, for the same user, or    *)
(* by the end of it.                                                       *)
LEMMA RevokerSlot ==
  ASSUME Tables, NEW h \in Deliveries,
         \/ \E u : B!Revoke(h, u) /\ u = delivery[h].user
         \/ req[h].user = delivery[h].user /\ RevokerMoves(h)
         \/ B!MarkAccounts(h)
         \/ B!Fail(h)
  PROVE  /\ req'[h] # Idle =>
              /\ req'[h].pc \in RevokeSteps
              /\ req'[h].user = delivery[h].user
              /\ {"pc", "user"} \subseteq DOMAIN req'[h]
         /\ req'[h].pc # "store"
         /\ (B!MarkAccounts(h) \/ B!Fail(h)) => req'[h] = Idle
<1>0. /\ req[h].pc # "idle" => {"pc", "user"} \subseteq DOMAIN req[h]
      /\ h \in DOMAIN req
  <2>1. h \in Slots
    BY DEF Slots
  <2>2. h \in DOMAIN req
    BY <2>1 DEF Tables, IsTable
  <2>3. req[h].pc # "idle" => req[h] # Idle
    BY DEF Idle
  <2> QED BY <2>1, <2>2, <2>3 DEF Tables
<1> USE <1>0 DEF B!Goto, B!User, B!At, B!Idle, Idle, RevokeSteps
<1>1. ASSUME NEW u, B!Revoke(h, u), u = delivery[h].user
      PROVE  req'[h] = [pc |-> "secret", user |-> delivery[h].user]
  BY <1>1 DEF B!Revoke
<1>2. ASSUME RevokerMoves(h), req[h].user = delivery[h].user
      PROVE  /\ req'[h].pc \in RevokeSteps
             /\ req'[h].user = delivery[h].user
             /\ {"pc", "user"} \subseteq DOMAIN req'[h]
  <2>1. CASE B!MarkConnections(h)
    <3>1. req[h].pc = "closeAll" /\ req'[h] = [req[h] EXCEPT !.pc = "closeAllAccounts"]
      BY <2>1 DEF B!MarkConnections
    <3>2. {"pc", "user"} \subseteq DOMAIN req[h]
      BY <3>1
    <3> QED BY <1>2, <3>1, <3>2, Replaced
  <2>2. CASE B!ReadSecret(h) \/ B!AkahuRevoke(h) \/ B!ForgetToken(h)
    BY <1>2, <2>2 DEF B!ReadSecret, B!AkahuRevoke, B!ForgetToken
  <2> QED BY <1>2, <2>1, <2>2 DEF RevokerMoves
<1>3. ASSUME B!MarkAccounts(h) \/ B!Fail(h) PROVE req'[h] = Idle
  BY <1>3 DEF B!MarkAccounts, B!Fail
<1> QED BY <1>1, <1>2, <1>3

(* Every step of the server leaves the bank requests and tables alone, or  *)
(* is one step of one request or revocation.                               *)
LEMMA BankMoves ==
  ASSUME TypeOK, [ServerNext]_allVars
  PROVE  \/ /\ UNCHANGED <<req, token, conn>>
            /\ \/ UNCHANGED excused
               \/ excused' = [u \in Users |->
                    IF u \in EndedBy THEN Accts \cup B!Banks ELSE excused[u]]
         \/ \E q \in Requests : UserMoves(q) /\ (B!Arrive(q) \/ B!Advance(q) \/ B!Fail(q))
         \/ \E h \in Deliveries :
              Revocation(h) /\ (B!Arrive(h) \/ B!Advance(h) \/ B!Fail(h))
<1>1. CASE UNCHANGED allVars
  BY <1>1 DEF allVars, bankVars
<1>2. CASE BillingMoves
  BY <1>2 DEF BillingMoves
<1>3. CASE StateExpires
  BY <1>3 DEF StateExpires, B!ExpireState, B!tables
<1>4. ASSUME NEW q \in Requests, UserMoves(q)
      PROVE  B!Arrive(q) \/ B!Advance(q) \/ B!Fail(q)
  BY <1>4 DEF UserMoves, B!Arrive
<1>5. ASSUME NEW h \in Deliveries, Revocation(h)
      PROVE  B!Arrive(h) \/ B!Advance(h) \/ B!Fail(h)
  <2>1. CASE CallRevoker(h)
    <3>1. delivery[h].user \in Users
      BY <2>1, DeliveryTypes DEF CallRevoker, Idle
    <3> QED BY <2>1, <3>1 DEF CallRevoker, B!Arrive
  <2> QED BY <1>5, <2>1 DEF Revocation, RevokerMoves, RevokerReturns, RevokerThrows, B!Advance
<1> QED BY <1>1, <1>2, <1>3, <1>4, <1>5 DEF ServerNext

(* The tables keep their keys.                                             *)
LEMMA TablesStep ==
  ASSUME TypeOK, Tables, RevokerIsAwaited, [ServerNext]_allVars
  PROVE  Tables'
<1>1. ASSUME UNCHANGED <<req, token, conn>>,
             \/ UNCHANGED excused
             \/ excused' = [u \in Users |->
                  IF u \in EndedBy THEN Accts \cup B!Banks ELSE excused[u]]
      PROVE  Tables'
  BY <1>1 DEF Tables, IsTable, Slots
<1>2. ASSUME NEW q \in Slots, B!Arrive(q) \/ B!Advance(q) \/ B!Fail(q),
             req'[q] # Idle => {"pc", "user"} \subseteq DOMAIN req'[q]
      PROVE  Tables'
  <2> USE Footprint, <1>2 DEF Tables, IsTable
  <2>1. IsTable(req', Slots) /\ \A p \in Slots \ {q} : req'[p] = req[p]
    OBVIOUS
  <2>2. IsTable(token', Users)
    OBVIOUS
  <2>3. IsTable(excused', Users)
    OBVIOUS
  <2>4. IsTable(conn', Users) /\ \A u \in Users : IsTable(conn'[u], B!Banks)
    <3> DEFINE u == req[q].user
    <3>1. CASE conn' = conn
      BY <3>1
    <3>2. ASSUME NEW b, conn' = [conn EXCEPT ![u][b] = "live"]
          PROVE  IsTable(conn', Users) /\ \A v \in Users : IsTable(conn'[v], B!Banks)
      <4>1. IsTable(conn', Users) /\ \A v \in Users \ {u} : conn'[v] = conn[v]
        BY <3>2
      <4>2. u \in Users => conn'[u] = [conn[u] EXCEPT ![b] = "live"]
        BY <3>2
      <4> QED BY <4>1, <4>2
    <3>3. ASSUME NEW bs, conn' = [conn EXCEPT ![u] = B!Disconnected(@, bs)]
          PROVE  IsTable(conn', Users) /\ \A v \in Users : IsTable(conn'[v], B!Banks)
      <4>1. IsTable(conn', Users) /\ \A v \in Users \ {u} : conn'[v] = conn[v]
        BY <3>3
      <4>2. ASSUME NEW table, IsTable(table, B!Banks)
            PROVE  IsTable(B!Disconnected(table, bs), B!Banks)
        BY <4>2 DEF B!Disconnected
      <4>3. u \in Users => conn'[u] = B!Disconnected(conn[u], bs)
        BY <3>3
      <4>4. u \in Users => IsTable(conn'[u], B!Banks)
        <5> HIDE DEF IsTable
        <5> QED BY <4>2, <4>3 DEF Tables
      <4> QED BY <4>1, <4>4
    <3> QED BY <3>1, <3>2, <3>3
  <2> QED BY <2>1, <2>2, <2>3, <2>4
<1>3. ASSUME NEW q \in Requests, UserMoves(q), B!Arrive(q) \/ B!Advance(q) \/ B!Fail(q)
      PROVE  Tables'
  BY <1>2, <1>3, RequestSlot DEF UserMoves, Slots, RevokerIsAwaited
<1>4. ASSUME NEW h \in Deliveries, Revocation(h), B!Arrive(h) \/ B!Advance(h) \/ B!Fail(h)
      PROVE  Tables'
  <2>1. RevokerMoves(h) => req[h].user = delivery[h].user
    BY DEF RevokerMoves, RevokerIsAwaited, B!ReadSecret, B!AkahuRevoke, B!ForgetToken,
           B!MarkConnections, B!At, Idle
  <2>2. req'[h] # Idle => {"pc", "user"} \subseteq DOMAIN req'[h]
    BY <1>4, <2>1, RevokerSlot
       DEF Revocation, CallRevoker, RevokerReturns, RevokerThrows
  <2> QED BY <1>2, <1>4, <2>2 DEF Slots
<1> QED BY <1>1, <1>3, <1>4, BankMoves

-----------------------------------------------------------------------------
(* The awaited revocation                                                  *)

(* A delivery that revokes goes on revoking until its revocation returns   *)
(* or throws, whatever else the server does.                               *)
LEMMA RevokingStays ==
  ASSUME TypeOK, [ServerNext]_allVars, NEW h \in Deliveries,
         delivery[h].pc = "revoke", ~RevokerReturns(h), ~RevokerThrows(h)
  PROVE  delivery'[h] = delivery[h]
<1>1. delivery[h].pc # "write" /\ delivery[h] # Idle /\ delivery \in [Deliveries -> DeliveryState]
  BY DEF Idle, TypeOK
<1>2. CASE BillingMoves
  <2>1. CASE \E g \in Deliveries : HandlerStep(g) \/ (delivery[g].pc = "write" /\ FailDelivery(g))
    BY <1>1, <2>1 DEF HandlerStep, ReadForNotification, WriteNotification, RefuseNotification,
                      FailDelivery
  <2>2. CASE AppleStep \/ (\E i \in DOMAIN sent : IgnoreNotification(i))
    BY <2>2 DEF AppleStep, serverVars, IgnoreNotification
  <2>3. CASE \E p \in Submissions : SubmissionStep(p)
    BY <2>3 DEF SubmissionStep, ReadForSubmission, WriteSubmission, RefuseSubmission,
                FailSubmission
  <2> QED BY <1>2, <2>1, <2>2, <2>3 DEF BillingMoves
<1>3. ASSUME NEW g \in Deliveries, Revocation(g) PROVE delivery'[h] = delivery[h]
  BY <1>1, <1>3 DEF Revocation, CallRevoker, RevokerMoves, RevokerReturns, RevokerThrows,
                    RevokeAccess, FailDelivery, vars
<1>4. CASE UNCHANGED vars
  BY <1>4 DEF vars
<1> QED BY <1>2, <1>3, <1>4 DEF ServerNext, allVars, StateExpires, UserMoves

(* Every revocation in flight is awaited by a delivery for its user.       *)
LEMMA AwaitedStep ==
  ASSUME TypeOK, Tables, RevokerIsAwaited, [ServerNext]_allVars
  PROVE  RevokerIsAwaited'
<1>1. \A q \in Requests : q \notin Deliveries /\ q \in Slots
  BY SlotsAssumption DEF Slots
<1>2. \A h \in Deliveries : h \in Slots
  BY DEF Slots
<1>3. ASSUME NEW q \in Slots, \E r : req' = [req EXCEPT ![q] = r]
      PROVE  \A p \in Slots \ {q} : req'[p] = req[p]
  BY <1>3 DEF Tables, IsTable
<1>4. ASSUME NEW h \in Deliveries, req'[h] = req[h], req[h] # Idle,
             ~RevokerReturns(h), ~RevokerThrows(h)
      PROVE  delivery'[h] = delivery[h]
  BY <1>4, RevokingStays DEF RevokerIsAwaited
<1>5. CASE UNCHANGED <<req, token, conn>>
  <2>1. ASSUME NEW h \in Deliveries, req[h] # Idle
        PROVE  ~RevokerReturns(h) /\ ~RevokerThrows(h)
    <3>1. B!MarkAccounts(h) \/ B!Fail(h) => req'[h] = Idle
      BY RevokerSlot
    <3> QED BY <1>5, <2>1, <3>1 DEF RevokerReturns, RevokerThrows
  <2> QED BY <1>4, <1>5, <2>1 DEF RevokerIsAwaited
<1>6. ASSUME NEW q \in Requests, UserMoves(q), B!Arrive(q) \/ B!Advance(q) \/ B!Fail(q)
      PROVE  RevokerIsAwaited'
  <2>1. \A p \in Slots \ {q} : req'[p] = req[p]
    BY <1>1, <1>3, <1>6, Footprint
  <2>2. /\ req'[q].pc \notin RevokeSteps
        /\ req'[q].pc = "store" => req'[q].token # Null
    BY <1>6, RequestSlot DEF UserMoves, RevokerIsAwaited
  <2>3. UNCHANGED delivery
    BY <1>6 DEF UserMoves, vars
  <2> QED BY <1>1, <1>2, <2>1, <2>2, <2>3 DEF RevokerIsAwaited
<1>7. ASSUME NEW h \in Deliveries, Revocation(h), B!Arrive(h) \/ B!Advance(h) \/ B!Fail(h)
      PROVE  RevokerIsAwaited'
  <2>1. \A p \in Slots \ {h} : req'[p] = req[p]
    BY <1>2, <1>3, <1>7, Footprint
  <2>2. RevokerMoves(h) => req[h].user = delivery[h].user /\ delivery[h].pc = "revoke"
    BY DEF RevokerMoves, RevokerIsAwaited, B!ReadSecret, B!AkahuRevoke, B!ForgetToken,
           B!MarkConnections, B!At, Idle
  <2>3. /\ req'[h] # Idle => req'[h].pc \in RevokeSteps /\ req'[h].user = delivery[h].user
        /\ req'[h].pc # "store"
        /\ (B!MarkAccounts(h) \/ B!Fail(h)) => req'[h] = Idle
    BY <1>7, <2>2, RevokerSlot
       DEF Revocation, CallRevoker, RevokerReturns, RevokerThrows
  <2>4. req'[h] # Idle => delivery[h].pc = "revoke" /\ UNCHANGED delivery
    BY <1>7, <2>2, <2>3
       DEF Revocation, CallRevoker, RevokerMoves, RevokerReturns, RevokerThrows, vars
  <2>5. ASSUME NEW g \in Deliveries, g # h, req[g] # Idle
        PROVE  delivery'[g] = delivery[g]
    <3>1. req'[g] = req[g]
      BY <1>2, <2>1, <2>5
    <3>2. B!MarkAccounts(g) \/ B!Fail(g) => req'[g] = Idle
      BY RevokerSlot
    <3> QED BY <1>4, <2>5, <3>1, <3>2 DEF RevokerReturns, RevokerThrows
  <2>6. \A g \in Deliveries : req'[g] # Idle =>
          /\ req'[g].pc \in RevokeSteps
          /\ delivery'[g].pc = "revoke"
          /\ req'[g].user = delivery'[g].user
    BY <1>2, <2>1, <2>3, <2>4, <2>5 DEF RevokerIsAwaited
  <2> QED BY <1>1, <1>2, <2>1, <2>3, <2>6 DEF RevokerIsAwaited
<1> QED BY <1>5, <1>6, <1>7, BankMoves

(* A delivery starts to revoke only by writing a notification that ends.   *)
LEMMA NewRevoking ==
  ASSUME TypeOK, [Next]_vars, NEW h \in Deliveries, delivery'[h].pc = "revoke"
  PROVE  \/ delivery'[h] = delivery[h]
         \/ /\ WriteNotification(h)
            /\ delivery'[h].notice = delivery[h].notice
            /\ Outcome(delivery[h].notice).ends
            /\ delivery[h].notice \in DOMAIN sent
<1>1. delivery'[h] # Idle /\ delivery \in [Deliveries -> DeliveryState]
  BY DEF Idle, TypeOK
<1>2. CASE WriteNotification(h)
  <2>1. delivery[h] # Idle
    BY <1>2 DEF WriteNotification, Idle
  <2>2. delivery'[h] # Idle /\ delivery'[h] = [delivery[h] EXCEPT !.pc = "revoke"]
        /\ Outcome(delivery[h].notice).ends
    BY <1>1, <1>2 DEF WriteNotification
  <2> QED BY <1>2, <2>1, <2>2, DeliveryTypes
<1>3. ASSUME ~WriteNotification(h) PROVE delivery'[h] = delivery[h]
  <2>1. CASE UNCHANGED delivery
    BY <2>1
  <2>2. ASSUME NEW g \in Deliveries, NotificationStep(g)
        PROVE  delivery'[h] = delivery[h]
    <3>1. CASE g # h
      BY <1>1, <2>2, <3>1 DEF NotificationStep, HandlerStep, ReadForNotification,
        WriteNotification, RevokeAccess, RefuseNotification, FailDelivery
    <3>2. CASE g = h
      BY <1>1, <1>3, <2>2, <3>2 DEF NotificationStep, HandlerStep,
        ReadForNotification, RevokeAccess, RefuseNotification, FailDelivery
    <3> QED BY <3>1, <3>2
  <2> QED
    BY <2>1, <2>2 DEF Next, vars, AppleStep, serverVars, IgnoreNotification,
      SubmissionStep, ReadForSubmission, WriteSubmission, RefuseSubmission, FailSubmission
<1> QED BY <1>2, <1>3

(* The notification ends the subscription it is about.                     *)
Ending(i, notices) == ResolveOutcome(notices[i].type, notices[i].subtype).ends

(* What revokes has been applied, and ends the subscription.               *)
LEMMA EndStep ==
  ASSUME TypeOK, RevokesAnEnd, [ServerNext]_allVars
  PROVE  RevokesAnEnd'
<1>1. [Next]_vars
  BY BillingStep
<1>2. applied \subseteq applied' /\ \A i \in DOMAIN sent : sent'[i] = sent[i]
  BY <1>1, Grows DEF Next, vars, AppleStep, serverVars, IgnoreNotification, NotificationStep,
     HandlerStep, ReadForNotification, WriteNotification, RevokeAccess, RefuseNotification,
     FailDelivery, SubmissionStep, ReadForSubmission, WriteSubmission, RefuseSubmission,
     FailSubmission
<1>3. ASSUME NEW h \in Deliveries, delivery'[h].pc = "revoke"
      PROVE  \/ delivery'[h] = delivery[h]
             \/ /\ WriteNotification(h)
                /\ delivery'[h].notice = delivery[h].notice
                /\ Outcome(delivery[h].notice).ends
                /\ delivery[h].notice \in DOMAIN sent
  BY <1>1, <1>3, NewRevoking
<1>4. ASSUME NEW h \in Deliveries, delivery'[h].pc = "revoke"
      PROVE  /\ delivery'[h].notice \in applied'
             /\ Ending(delivery'[h].notice, sent')
  <2>1. CASE delivery'[h] = delivery[h]
    <3>1. delivery[h].notice \in applied /\ Outcome(delivery[h].notice).ends
      BY <1>4, <2>1 DEF RevokesAnEnd
    <3>2. delivery[h].notice \in DOMAIN sent
      BY <3>1 DEF TypeOK
    <3> QED BY <1>2, <2>1, <3>1, <3>2 DEF Outcome, Ending
  <2>2. CASE /\ WriteNotification(h)
             /\ delivery'[h].notice = delivery[h].notice
             /\ Outcome(delivery[h].notice).ends
             /\ delivery[h].notice \in DOMAIN sent
    BY <1>2, <2>2 DEF WriteNotification, Outcome, Ending
  <2> QED BY <1>3, <1>4, <2>1, <2>2
<1> QED BY <1>4 DEF RevokesAnEnd, Outcome, Ending

-----------------------------------------------------------------------------
(* Bank connections                                                        *)

(* The clock never goes back.                                              *)
LEMMA ClockStep ==
  ASSUME TypeOK, [Next]_vars
  PROVE  now' \in Nat /\ now' >= now
<1>1. now' \in Nat
  BY NextTypeOK DEF TypeOK
<1>2. CASE AppleStep
  BY <1>1, <1>2, AppleSteps DEF AppleStep, Signs, TypeOK
<1>3. CASE ~AppleStep
  <2>1. UNCHANGED now
    BY <1>3 DEF Next, vars, appleVars, NotificationStep, HandlerStep, SubmissionStep,
      IgnoreNotification, ReadForNotification, WriteNotification, RevokeAccess,
      RefuseNotification, FailDelivery, ReadForSubmission, WriteSubmission,
      RefuseSubmission, FailSubmission
  <2> QED BY <1>1, <2>1 DEF TypeOK
<1> QED BY <1>2, <1>3

(* Time alone entitles nobody.                                             *)
LEMMA OnlyRowsEntitle ==
  ASSUME TypeOK, [Next]_vars, NEW u \in Users, rows'[u] = rows[u], Entitled(u)'
  PROVE  Entitled(u)
<1>1. rows[u] # Null /\ rows[u] \in Row
  BY DEF Entitled, TypeOK
<1>2. /\ rows[u].expiresAt \in Nat \cup {Null}
      /\ now \in Nat /\ now' \in Nat /\ now' >= now
  BY <1>1, ClockStep DEF Row, TypeOK
<1>3. CASE rows[u].expiresAt = Null
  BY <1>1, <1>3 DEF Entitled, IsCurrentlyEntitled
<1>4. CASE rows[u].expiresAt # Null
  <2>1. rows[u].expiresAt > now' => rows[u].expiresAt > now
    BY <1>2, <1>4
  <2> QED BY <1>1, <1>4, <2>1 DEF Entitled, IsCurrentlyEntitled
<1> QED BY <1>3, <1>4

(* Who is listed as having lost entitlement is not entitled.               *)
LEMMA EndedRefused ==
  ASSUME TypeOK, [Next]_vars, NEW u \in EndedBy
  PROVE  u \in Users /\ ~Entitled(u)'
<1>1. CASE u \in Users /\ Entitled(u) /\ ~Entitled(u)'
  BY <1>1
<1>2. ASSUME NEW h \in Deliveries, delivery[h].pc = "write", delivery'[h].pc = "revoke",
             u = delivery[h].user
      PROVE  u \in Users /\ ~Entitled(u)'
  <2> DEFINE i == delivery[h].notice
  <2>1. WriteNotification(h) /\ Outcome(i).ends
    BY <1>2, NewRevoking
  <2>2. u \in Users
    BY <1>2, DeliveryTypes DEF Idle
  <2>3. rows'[u] = NoticeRow(i)
    BY <1>2, <2>1, <2>2 DEF WriteNotification, Upsert, NoticeRow, TypeOK
  <2>4. Outcome(i).status \in {"expired", "revoked"}
    BY <2>1 DEF Outcome, ResolveOutcome
  <2> QED BY <2>2, <2>3, <2>4 DEF NoticeRow, Entitled, IsCurrentlyEntitled, IsEntitling
<1> QED BY <1>1, <1>2 DEF EndedBy

(* A step entitles at most one account, and then nobody loses anything.    *)
LEMMA OneGains ==
  ASSUME TypeOK, [Next]_vars, NEW u \in Users, Entitled(u)', ~Entitled(u)
  PROVE  EndedBy = {} /\ Paying' = Paying \cup {u}
<1>1. PICK row : rows' = [rows EXCEPT ![u] = row] /\ now' = now
  <2>1. ASSUME NEW v \in Users, NEW row, rows' = [rows EXCEPT ![v] = row] PROVE v = u
    BY <2>1, OnlyRowsEntitle DEF TypeOK
  <2>2. CASE rows' = rows
    BY <2>2, OnlyRowsEntitle
  <2>3. ASSUME NEW h \in Deliveries, NotificationWrites(h)
        PROVE  \E row : rows' = [rows EXCEPT ![u] = row] /\ now' = now
    <3>1. delivery[h].user \in Users
      BY <2>3, DeliveryTypes DEF NotificationWrites
    <3> QED BY <2>1, <2>3, <3>1 DEF NotificationWrites, Upsert
  <2>4. ASSUME NEW p \in Submissions, SubmissionWrites(p)
        PROVE  \E row : rows' = [rows EXCEPT ![u] = row] /\ now' = now
    <3>1. submission[p].user \in Users
      BY <2>4, SubmissionTypes DEF SubmissionWrites
    <3> QED BY <2>1, <2>4, <3>1 DEF SubmissionWrites, Upsert
  <2> QED BY <2>2, <2>3, <2>4, RowWriters
<1>2. \A v \in Users \ {u} : Entitled(v)' <=> Entitled(v)
  BY <1>1 DEF Entitled, TypeOK
<1>3. EndedBy = {}
  <2>1. ASSUME NEW v \in EndedBy PROVE FALSE
    <3>1. v \in Users \ {u} /\ ~Entitled(v)' /\ ~Entitled(v)
      BY <1>2, EndedRefused
    <3>2. PICK h \in Deliveries : /\ delivery[h].pc = "write" /\ delivery'[h].pc = "revoke"
                                  /\ delivery[h].user = v
      BY <3>1 DEF EndedBy
    <3>3. WriteNotification(h)
      BY <3>2, NewRevoking
    <3>4. rows'[u] = rows[u]
      BY <3>1, <3>2, <3>3 DEF WriteNotification, Upsert, TypeOK
    <3> QED BY <3>4, OnlyRowsEntitle
  <2> QED BY <2>1
<1>4. Paying' = Paying \cup {u}
  BY <1>2 DEF Paying
<1> QED BY <1>3, <1>4

(* Every step of the server is a step of BankConnections or leaves its     *)
(* state alone: what billing does to a user's entitlement, and when it     *)
(* calls the revoker, is what BankConnections provides for.                *)
LEMMA BankStep ==
  ASSUME TypeOK, Tables, RevokerIsAwaited, [ServerNext]_allVars
  PROVE  [B!Next]_(B!vars)
<1>1. [Next]_vars
  BY BillingStep
<1>2. UNCHANGED vars => Paying' = Paying
  BY DEF vars, Paying, Entitled
<1>3. CASE BillingMoves
  <2>1. CASE \A u \in Users : Entitled(u)' => Entitled(u)
    <3>1. EndedBy \subseteq Users
      BY <1>1, EndedRefused
    <3>2. Paying' = Paying \ EndedBy
      BY <1>1, <2>1, EndedRefused DEF Paying, EndedBy
    <3>3. B!LoseEntitlement(EndedBy)
      BY <1>3, <3>2 DEF BillingMoves, B!LoseEntitlement, B!tables
    <3> QED BY <3>1, <3>3 DEF B!Next
  <2>2. ASSUME NEW u \in Users, Entitled(u)', ~Entitled(u)
        PROVE  B!GainEntitlement(u)
    <3>1. EndedBy = {} /\ Paying' = Paying \cup {u} /\ u \notin Paying
      BY <1>1, <2>2, OneGains DEF Paying
    <3>2. UNCHANGED <<ended, excused>>
      BY <1>3, <3>1 DEF BillingMoves, Tables, IsTable
    <3> QED BY <1>3, <3>1, <3>2 DEF BillingMoves, B!GainEntitlement, B!tables
  <2> QED BY <2>1, <2>2 DEF B!Next
<1>4. CASE StateExpires
  BY <1>4 DEF StateExpires, B!Next
<1>5. CASE UNCHANGED allVars
  BY <1>2, <1>5 DEF allVars, bankVars, B!vars
<1>6. ASSUME NEW q \in Slots, B!Arrive(q) \/ B!Advance(q) \/ B!Fail(q)
      PROVE  B!Next
  BY <1>6 DEF B!Next, Slots
<1>7. ASSUME NEW q \in Requests, UserMoves(q) PROVE B!Next
  BY <1>6, <1>7 DEF UserMoves, B!Arrive, Slots
<1>8. ASSUME NEW h \in Deliveries, Revocation(h) PROVE B!Next
  <2>1. CallRevoker(h) => delivery[h].user \in Users
    BY DeliveryTypes DEF CallRevoker, Idle
  <2> QED
    BY <1>6, <1>8, <2>1 DEF Revocation, CallRevoker, RevokerMoves, RevokerReturns,
       RevokerThrows, B!Arrive, B!Advance, Slots
<1> QED BY <1>3, <1>4, <1>5, <1>7, <1>8 DEF ServerNext

-----------------------------------------------------------------------------
(* The invariant, and the theorems                                         *)

(* The tables have their keys at the start, and nothing is under way.      *)
LEMMA ServerStart == ServerInit => ServerInv
<1> SUFFICES ASSUME ServerInit PROVE ServerInv
  OBVIOUS
<1>1. IInv
  BY InitIInv DEF ServerInit
<1>2. Tables
  BY DEF ServerInit, B!Init, B!Idle, Idle, Tables, IsTable, Slots
<1>3. RevokerIsAwaited
  BY DEF ServerInit, B!Init, B!Idle, Idle, RevokerIsAwaited, Slots, RevokeSteps
<1>4. RevokesAnEnd
  BY DEF ServerInit, Init, Idle, RevokesAnEnd
<1> QED BY <1>1, <1>2, <1>3, <1>4 DEF ServerInv

(* Every step of the server keeps the invariant.                           *)
LEMMA ServerStep == ServerInv /\ [ServerNext]_allVars => ServerInv'
<1> SUFFICES ASSUME ServerInv, [ServerNext]_allVars PROVE ServerInv'
  OBVIOUS
<1>1. IInv'
  BY BillingStep, NextIInv DEF ServerInv
<1>2. TypeOK
  BY DEF ServerInv, IInv
<1> QED BY <1>1, <1>2, TablesStep, AwaitedStep, EndStep DEF ServerInv

(* Billing's invariant and the links between the two halves hold of the    *)
(* whole server.                                                           *)
THEOREM ServerInvariant == ServerSpec => []ServerInv
  BY ServerStart, ServerStep, PTL DEF ServerSpec

(* Billing and the bank routes together are a behaviour of BankConnections,*)
(* so that single use, custody and the reasons for a disconnection, proved *)
(* there with a loose environment, hold of the server.                     *)
THEOREM BanksInside == ServerSpec => BankSpec
<1>1. ServerInit => B!Init
  BY DEF ServerInit
<1>2. ServerInv /\ [ServerNext]_allVars => [B!Next]_(B!vars)
  BY BankStep DEF ServerInv, IInv
<1> QED BY <1>1, <1>2, ServerInvariant, PTL DEF ServerSpec, BankSpec, B!Spec

(* The steps that take bank access from a user are two of the revocation's *)
(* and the removal of one bank.                                            *)
LEMMA Takers ==
  ASSUME Tables, NEW q \in Slots, req[q].pc = "store" => req[q].token # Null,
         B!Arrive(q) \/ B!Advance(q) \/ B!Fail(q),
         NEW u \in Users, AccessTaken(u)
  PROVE  \/ req[q].pc \in {"forget", "closeAll"} /\ req[q].user = u
         \/ /\ req[q].pc = "closeBank" /\ req'[q] # req[q]
            /\ token' = token
<1> USE DEF B!At, B!User, B!tables
<1>1. UNCHANGED <<token, conn>> => FALSE
  BY DEF AccessTaken
<1>2. CASE \/ B!Arrive(q) \/ B!Fail(q)
           \/ B!CountConnections(q) \/ B!IssueState(q) \/ B!ConsumeState(q) \/ B!ExchangeCode(q)
  BY <1>1, <1>2 DEF B!Arrive, B!Enter, B!Authorise, B!Sync, B!Revoke, B!Callback, B!Delete,
     B!Fail, B!CountConnections, B!IssueState, B!ConsumeState, B!ExchangeCode
<1>3. CASE \/ B!GetToken(q) \/ B!ListAccounts(q) \/ B!UpsertAccount(q)
           \/ B!MarkAccountsMissing(q) \/ B!DisconnectItsAccounts(q)
           \/ B!ReadSecret(q) \/ B!AkahuRevoke(q) \/ B!MarkAccounts(q)
  BY <1>1, <1>3 DEF B!GetToken, B!ListAccounts, B!UpsertAccount, B!MarkAccountsMissing,
     B!DisconnectItsAccounts, B!ReadSecret, B!AkahuRevoke, B!MarkAccounts
<1>4. CASE B!StoreToken(q)
  BY <1>4 DEF B!StoreToken, AccessTaken, Tables, IsTable
<1>5. CASE B!ForgetToken(q)
  BY <1>5 DEF B!ForgetToken, AccessTaken, Tables, IsTable
<1>6. CASE B!UpsertConnection(q)
  <2>1. PICK c : conn' = [conn EXCEPT ![req[q].user][c] = "live"] /\ token' = token
    BY <1>6 DEF B!UpsertConnection
  <2>2. PICK b \in B!Banks : conn[u][b] = "live" /\ conn'[u][b] = "gone"
    BY <2>1 DEF AccessTaken
  <2>3. conn'[u] = conn[u] \/ conn'[u] = [conn[u] EXCEPT ![c] = "live"]
    BY <2>1 DEF Tables, IsTable
  <2> QED BY <2>2, <2>3 DEF Tables, IsTable
<1>7. CASE B!DisconnectConnection(q)
  <2>1. req[q].pc = "closeBank" /\ token' = token
    BY <1>7 DEF B!DisconnectConnection
  <2>2. req'[q] = [req[q] EXCEPT !.pc = "closeBankAccounts"]
    BY <1>7 DEF B!DisconnectConnection, B!Goto, Tables, IsTable
  <2>3. {"pc", "user"} \subseteq DOMAIN req[q]
    BY <2>1 DEF Tables, Idle
  <2>4. req'[q].pc = "closeBankAccounts"
    BY <2>2, <2>3, Replaced
  <2> QED BY <2>1, <2>4
<1>8. CASE B!MarkConnections(q)
  BY <1>8 DEF B!MarkConnections, AccessTaken, Tables, IsTable
<1> QED BY <1>2, <1>3, <1>4, <1>5, <1>6, <1>7, <1>8 DEF B!Advance

(* A step that takes a user's access is a step of a revocation that a      *)
(* delivery awaits.                                                        *)
LEMMA TakenByRevocation ==
  ASSUME TypeOK, Tables, RevokerIsAwaited, [ServerNext]_allVars,
         NEW u \in Users, AccessTaken(u)
  PROVE  \E h \in Deliveries : delivery[h].pc = "revoke" /\ delivery[h].user = u
<1>1. PICK q \in Slots : B!Arrive(q) \/ B!Advance(q) \/ B!Fail(q)
  BY BankMoves DEF AccessTaken, Slots
<1>2. CASE req[q].pc \in {"forget", "closeAll"} /\ req[q].user = u
  BY <1>2 DEF RevokerIsAwaited, RevokeSteps, Slots, Idle
<1>3. CASE req[q].pc = "closeBank" /\ req'[q] # req[q] /\ token' = token
  BY <1>3 DEF RevokerIsAwaited, RevokeSteps, Slots, Idle, AccessTaken, B!At
<1> QED BY <1>1, <1>2, <1>3, Takers DEF RevokerIsAwaited

(* Nobody loses bank access but by a notification Apple signed that ends a *)
(* subscription this user submitted, however requests, deliveries and      *)
(* submissions interleave.                                                 *)
THEOREM AppleAlone == ServerSpec => OnlyAppleEndsAccess
<1>1. ASSUME ServerInv, [ServerNext]_allVars, NEW u \in Users, AccessTaken(u)
      PROVE  \E i \in applied :
               /\ Outcome(i).ends
               /\ \E c \in claims : c.user = u /\ c.receipt.sub = sent[i].sub
  <2>1. PICK h \in Deliveries : delivery[h].pc = "revoke" /\ delivery[h].user = u
    BY <1>1, TakenByRevocation DEF ServerInv, IInv
  <2>2. delivery[h].notice \in applied /\ Outcome(delivery[h].notice).ends
    BY <1>1, <2>1 DEF ServerInv, RevokesAnEnd
  <2>3. delivery[h] # Idle
    BY <2>1 DEF Idle
  <2> QED BY <1>1, <2>1, <2>2, <2>3 DEF ServerInv, IInv, DeliveryReads
<1>2. ServerInv /\ [ServerNext]_allVars =>
        [\A u \in Users : AccessTaken(u) =>
           \E i \in applied :
             /\ Outcome(i).ends
             /\ \E c \in claims : c.user = u /\ c.receipt.sub = sent[i].sub]_allVars
  BY <1>1
<1> QED BY <1>2, ServerInvariant, PTL DEF ServerSpec, OnlyAppleEndsAccess
=============================================================================
