----------------------- MODULE BankConnectionsProofs ------------------------
(***************************************************************************)
(* Theorems about BankConnections, for every set of users, accounts,       *)
(* states, tokens and requests, and wherever requests may fail.            *)
(***************************************************************************)
EXTENDS BankConnections, TLAPS

(* Which request steps hold what.                                          *)
PlainSteps == {"count", "issue", "token", "secret", "closeAll", "closeAllAccounts"}
StateSteps == {"consume", "exchange"}
TokenSteps == {"store", "list", "akahu", "forget"}
ReportSteps == {"banks", "accounts", "missing"}
BankSteps == {"closeBank", "closeBankAccounts"}
RevokeSteps == {"secret", "akahu", "forget", "closeAll", "closeAllAccounts"}

-----------------------------------------------------------------------------
(* Type correctness                                                        *)

(* What a request in flight holds at each of its steps.                    *)
LEMMA Holds ==
  ASSUME TypeOK, NEW q \in Requests
  PROVE  /\ req[q] # Idle => User(q) \in Users
         /\ req[q].pc # "idle" => req[q] # Idle
         /\ req[q].pc \in StateSteps => req[q].state \in AuthStates
         /\ req[q].pc \in TokenSteps => req[q].token \in Tokens
         /\ req[q].pc \in ReportSteps => req[q].report \in SUBSET Accts
         /\ req[q].pc \in BankSteps => req[q].bank \in Banks
         /\ At(q, "banks") => /\ req[q].left \in SUBSET Banks
                              /\ req[q] \in [pc : {"banks"}, user : Users,
                                   report : SUBSET Accts, left : SUBSET Banks]
         /\ At(q, "accounts") => /\ req[q].left \in SUBSET Accts
                                 /\ req[q] \in [pc : {"accounts"}, user : Users,
                                      report : SUBSET Accts, left : SUBSET Accts]
         /\ req[q].pc \in BankSteps =>
              req[q] \in [pc : {"closeBank", "closeBankAccounts"}, user : Users, bank : Banks]
         /\ At(q, "closeAll") => req[q] \in [pc : PlainSteps, user : Users]
<1>1. req[q] \in RequestStates
  BY DEF TypeOK
<1> QED
  BY <1>1 DEF RequestStates, Idle, User, At, PlainSteps, StateSteps, TokenSteps,
    ReportSteps, BankSteps

(* Every variable has its type at the start.                               *)
LEMMA InitTypeOK == Init => TypeOK
BY DEF Init, TypeOK, RequestStates, BankStatus

(* The tables keep their types under the writes that requests make.        *)
LEMMA TableTypes ==
  ASSUME TypeOK, NEW u \in Users
  PROVE  /\ \A t \in Tokens \cup {Null} :
              [token EXCEPT ![u] = t] \in [Users -> Tokens \cup {Null}]
         /\ \A b \in Banks :
              [conn EXCEPT ![u][b] = "live"] \in [Users -> [Banks -> BankStatus]]
         /\ \A a \in Accts :
              [acct EXCEPT ![u][a] = "live"] \in [Users -> [Accts -> BankStatus]]
         /\ \A B : [conn EXCEPT ![u] = Disconnected(@, B)] \in [Users -> [Banks -> BankStatus]]
         /\ \A A : [acct EXCEPT ![u] = Disconnected(@, A)] \in [Users -> [Accts -> BankStatus]]
<1>1. ASSUME NEW S, NEW table \in [S -> BankStatus], NEW which
      PROVE  Disconnected(table, which) \in [S -> BankStatus]
  BY DEF Disconnected, BankStatus
<1>2. \A B : Disconnected(conn[u], B) \in [Banks -> BankStatus]
  BY <1>1 DEF TypeOK
<1>3. \A A : Disconnected(acct[u], A) \in [Accts -> BankStatus]
  BY <1>1 DEF TypeOK
<1>4. \A b \in Banks : [conn[u] EXCEPT ![b] = "live"] \in [Banks -> BankStatus]
  BY DEF TypeOK, BankStatus
<1>5. \A a \in Accts : [acct[u] EXCEPT ![a] = "live"] \in [Accts -> BankStatus]
  BY DEF TypeOK, BankStatus
<1> QED BY <1>2, <1>3, <1>4, <1>5 DEF TypeOK

(* A request moves to a step that holds what the step needs.               *)
LEMMA GotoType ==
  ASSUME TypeOK, NEW q \in Requests, NEW next \in RequestStates, Goto(q, next)
  PROVE  req' \in [Requests -> RequestStates]
BY DEF TypeOK, Goto

(* Arrivals, and the environment, keep every variable's type.              *)
LEMMA ArriveTypeOK ==
  ASSUME TypeOK, NEW q \in Requests, Arrive(q) \/ Fail(q)
  PROVE  TypeOK'
<1>1. ASSUME NEW u \in Users, NEW first \in RequestStates, Enter(q, u, first),
             excused' \in [Users -> SUBSET (Accts \cup Banks)]
      PROVE  TypeOK'
  BY <1>1, GotoType DEF TypeOK, Enter, tables
<1>2. ASSUME NEW u \in Users
      PROVE  /\ \A pc \in PlainSteps : [pc |-> pc, user |-> u] \in RequestStates
             /\ \A st \in AuthStates :
                  [pc |-> "consume", user |-> u, state |-> st] \in RequestStates
             /\ \A b \in Banks : [pc |-> "closeBank", user |-> u, bank |-> b] \in RequestStates
  BY DEF RequestStates, PlainSteps
<1>3. ASSUME NEW u \in Users, Authorise(q, u) PROVE TypeOK'
  BY <1>1, <1>2, <1>3 DEF Authorise, PlainSteps, TypeOK
<1>4. ASSUME NEW u \in Users, Sync(q, u) PROVE TypeOK'
  BY <1>1, <1>2, <1>4 DEF Sync, PlainSteps, TypeOK
<1>5. ASSUME NEW u \in Users, NEW st \in AuthStates, Callback(q, u, st) PROVE TypeOK'
  BY <1>1, <1>2, <1>5 DEF Callback, TypeOK
<1>6. ASSUME NEW u \in Users, NEW b \in Banks, Delete(q, u, b) PROVE TypeOK'
  <2>1. excused' \in [Users -> SUBSET (Accts \cup Banks)]
    BY <1>6 DEF Delete, TypeOK
  <2> QED BY <2>1, <1>1, <1>2, <1>6 DEF Delete
<1>7. ASSUME NEW u \in Users, Revoke(q, u) PROVE TypeOK'
  <2>1. req' \in [Requests -> RequestStates]
    BY <1>7, <1>2, GotoType DEF Revoke, PlainSteps
  <2> QED BY <2>1, <1>7 DEF Revoke, TypeOK, tables
<1>8. CASE Fail(q)
  <2>1. req' \in [Requests -> RequestStates]
    BY <1>8, GotoType DEF Fail, RequestStates
  <2> QED BY <2>1, <1>8 DEF Fail, TypeOK, tables
<1> QED BY <1>3, <1>4, <1>5, <1>6, <1>7, <1>8 DEF Arrive

(* Every step of a request keeps every variable's type.                    *)
LEMMA AdvanceTypeOK ==
  ASSUME TypeOK, NEW q \in Requests, Advance(q)
  PROVE  TypeOK'
<1> DEFINE u == User(q)
<1>0. /\ Idle \in RequestStates
      /\ \A v \in Users :
         /\ \A pc \in PlainSteps : [pc |-> pc, user |-> v] \in RequestStates
         /\ \A st \in AuthStates :
              [pc |-> "exchange", user |-> v, state |-> st] \in RequestStates
         /\ \A pc \in TokenSteps, t \in Tokens :
              [pc |-> pc, user |-> v, token |-> t] \in RequestStates
         /\ \A R \in SUBSET Accts :
              /\ \A L \in SUBSET Banks :
                   [pc |-> "banks", user |-> v, report |-> R, left |-> L] \in RequestStates
              /\ \A L \in SUBSET Accts :
                   [pc |-> "accounts", user |-> v, report |-> R, left |-> L] \in RequestStates
              /\ [pc |-> "missing", user |-> v, report |-> R] \in RequestStates
  BY DEF RequestStates, PlainSteps, TokenSteps
<1>1. CASE CountConnections(q)
  <2>1. u \in Users
    BY <1>1, Holds DEF CountConnections, At
  <2>2. req' \in [Requests -> RequestStates]
    BY <1>0, <1>1, <2>1, GotoType DEF CountConnections, PlainSteps
  <2> QED BY <2>2, <1>1 DEF CountConnections, TypeOK, tables
<1>2. CASE IssueState(q)
  <2>1. u \in Users
    BY <1>2, Holds DEF IssueState, At
  <2>2. req' \in [Requests -> RequestStates]
    BY <1>0, <1>2, GotoType DEF IssueState
  <2>3. states' \in [AuthStates -> [phase : {"unissued", "pending", "consumed", "expired"},
                                    user : Users \cup {Null}]]
    BY <2>1, <1>2 DEF IssueState, TypeOK
  <2> QED BY <2>2, <2>3, <1>2 DEF IssueState, TypeOK, tables
<1>3. CASE ConsumeState(q)
  <2>1. u \in Users /\ req[q].state \in AuthStates
    BY <1>3, Holds DEF ConsumeState, At, StateSteps
  <2>2. req' \in [Requests -> RequestStates]
    BY <1>0, <1>3, <2>1, GotoType DEF ConsumeState
  <2>3. states' \in [AuthStates -> [phase : {"unissued", "pending", "consumed", "expired"},
                                    user : Users \cup {Null}]]
    BY <2>1, <1>3 DEF ConsumeState, Consume, TypeOK
  <2> QED BY <2>2, <2>3, <1>3 DEF ConsumeState, TypeOK, tables
<1>4. CASE ExchangeCode(q)
  <2>1. u \in Users /\ req[q].state \in AuthStates
    BY <1>4, Holds DEF ExchangeCode, At, StateSteps
  <2>2. PICK t \in Tokens :
          /\ minted' = [minted EXCEPT ![t] = [state |-> req[q].state, user |-> u]]
          /\ live' = live \cup {t}
          /\ Goto(q, [pc |-> "store", user |-> u, token |-> t])
    BY <1>4 DEF ExchangeCode
  <2>3. req' \in [Requests -> RequestStates]
    BY <1>0, <2>1, <2>2, GotoType DEF TokenSteps
  <2>4. /\ minted' \in [Tokens -> [state : AuthStates, user : Users] \cup {Null}]
        /\ live' \subseteq Tokens
    BY <2>1, <2>2 DEF TypeOK
  <2> QED BY <2>3, <2>4, <1>4 DEF ExchangeCode, TypeOK, tables
<1>5. CASE StoreToken(q)
  <2>1. u \in Users /\ req[q].token \in Tokens
    BY <1>5, Holds DEF StoreToken, At, TokenSteps
  <2>2. req' \in [Requests -> RequestStates]
    BY <1>0, <2>1, <1>5, GotoType DEF StoreToken, TokenSteps
  <2>3. token' \in [Users -> Tokens \cup {Null}]
    BY <2>1, <1>5, TableTypes DEF StoreToken
  <2> QED BY <2>2, <2>3, <1>5 DEF StoreToken, TypeOK
<1>6. CASE GetToken(q)
  <2>1. u \in Users
    BY <1>6, Holds DEF GetToken, At
  <2>2. token[u] \in Tokens \cup {Null}
    BY <2>1 DEF TypeOK
  <2>3. req' \in [Requests -> RequestStates]
    BY <1>0, <2>1, <2>2, <1>6, GotoType DEF GetToken, TokenSteps
  <2> QED BY <2>3, <1>6 DEF GetToken, TypeOK, tables
<1>7. CASE ListAccounts(q)
  <2>1. u \in Users
    BY <1>7, Holds DEF ListAccounts, At
  <2>2. CASE /\ Goto(q, Idle)
             /\ UNCHANGED excused
    <3>1. req' \in [Requests -> RequestStates]
      BY <1>0, <2>2, GotoType
    <3> QED BY <2>2, <3>1, <1>7 DEF ListAccounts, TypeOK, tables
  <2>3. ASSUME NEW R \in SUBSET Accts,
               Goto(q, IF R = {}
                       THEN Idle
                       ELSE [pc |-> "banks", user |-> u, report |-> R,
                             left |-> {Bank[a] : a \in R}]),
               excused' = [excused EXCEPT ![u] = @ \cup Omitted(R)]
        PROVE  TypeOK'
    <3>1. {Bank[a] : a \in R} \in SUBSET Banks
      BY DEF Banks
    <3>2. req' \in [Requests -> RequestStates]
      BY <1>0, <2>1, <2>3, <3>1, GotoType
    <3>3. excused' \in [Users -> SUBSET (Accts \cup Banks)]
      BY <2>3, <2>1 DEF TypeOK, Omitted
    <3> QED BY <3>2, <3>3, <1>7 DEF ListAccounts, TypeOK, tables
  <2> QED BY <1>7, <2>2, <2>3 DEF ListAccounts
<1>8. CASE UpsertConnection(q)
  <2>1. /\ u \in Users /\ req[q].report \in SUBSET Accts
        /\ req[q].left \in SUBSET Banks
        /\ req[q] \in [pc : {"banks"}, user : Users,
                       report : SUBSET Accts, left : SUBSET Banks]
    BY <1>8, Holds DEF UpsertConnection, At, ReportSteps
  <2>2. PICK b \in req[q].left :
          /\ conn' = [conn EXCEPT ![u][b] = "live"]
          /\ Goto(q, IF req[q].left = {b}
                     THEN [pc |-> "accounts", user |-> u,
                           report |-> req[q].report, left |-> req[q].report]
                     ELSE [req[q] EXCEPT !.left = @ \ {b}])
    BY <1>8 DEF UpsertConnection
  <2>3. [req[q] EXCEPT !.left = @ \ {b}] \in RequestStates
    BY <2>1 DEF RequestStates
  <2>4. req' \in [Requests -> RequestStates]
    BY <1>0, <2>1, <2>2, <2>3, GotoType
  <2>5. conn' \in [Users -> [Banks -> BankStatus]]
    BY <2>1, <2>2, TableTypes
  <2> QED BY <2>4, <2>5, <1>8 DEF UpsertConnection, TypeOK
<1>9. CASE UpsertAccount(q)
  <2>1. /\ u \in Users /\ req[q].report \in SUBSET Accts
        /\ req[q].left \in SUBSET Accts
        /\ req[q] \in [pc : {"accounts"}, user : Users,
                       report : SUBSET Accts, left : SUBSET Accts]
    BY <1>9, Holds DEF UpsertAccount, At, ReportSteps
  <2>2. PICK a \in req[q].left :
          /\ acct' = [acct EXCEPT ![u][a] = "live"]
          /\ Goto(q, IF req[q].left = {a}
                     THEN [pc |-> "missing", user |-> u, report |-> req[q].report]
                     ELSE [req[q] EXCEPT !.left = @ \ {a}])
    BY <1>9 DEF UpsertAccount
  <2>3. [req[q] EXCEPT !.left = @ \ {a}] \in RequestStates
    BY <2>1 DEF RequestStates
  <2>4. req' \in [Requests -> RequestStates]
    BY <1>0, <2>1, <2>2, <2>3, GotoType
  <2>5. acct' \in [Users -> [Accts -> BankStatus]]
    BY <2>1, <2>2, TableTypes
  <2> QED BY <2>4, <2>5, <1>9 DEF UpsertAccount, TypeOK
<1>10. CASE MarkAccountsMissing(q) \/ MarkAccounts(q) \/ DisconnectItsAccounts(q)
  <2>1. u \in Users
    BY <1>10, Holds DEF MarkAccountsMissing, MarkAccounts, DisconnectItsAccounts, At
  <2>2. req' \in [Requests -> RequestStates]
    BY <1>0, <1>10, GotoType DEF MarkAccountsMissing, MarkAccounts, DisconnectItsAccounts
  <2>3. PICK A : acct' = [acct EXCEPT ![u] = Disconnected(@, A)]
    <3>1. CASE MarkAccountsMissing(q)
      BY <3>1 DEF MarkAccountsMissing
    <3>2. CASE MarkAccounts(q)
      BY <3>2 DEF MarkAccounts
    <3>3. CASE DisconnectItsAccounts(q)
      BY <3>3 DEF DisconnectItsAccounts
    <3> QED BY <1>10, <3>1, <3>2, <3>3
  <2>4. acct' \in [Users -> [Accts -> BankStatus]]
    BY <2>1, <2>3, TableTypes
  <2> QED BY <2>2, <2>4, <1>10
        DEF MarkAccountsMissing, MarkAccounts, DisconnectItsAccounts, TypeOK
<1>11. CASE DisconnectConnection(q)
  <2>1. /\ u \in Users
        /\ req[q] \in [pc : {"closeBank", "closeBankAccounts"}, user : Users, bank : Banks]
    BY <1>11, Holds DEF DisconnectConnection, At, BankSteps
  <2>2. [req[q] EXCEPT !.pc = "closeBankAccounts"] \in RequestStates
    BY <2>1 DEF RequestStates
  <2>3. req' \in [Requests -> RequestStates]
    BY <2>2, <1>11, GotoType DEF DisconnectConnection
  <2>4. conn' \in [Users -> [Banks -> BankStatus]]
    BY <2>1, <1>11, TableTypes DEF DisconnectConnection
  <2> QED BY <2>3, <2>4, <1>11 DEF DisconnectConnection, TypeOK
<1>12. CASE ReadSecret(q)
  <2>1. u \in Users
    BY <1>12, Holds DEF ReadSecret, At
  <2>2. token[u] \in Tokens \cup {Null}
    BY <2>1 DEF TypeOK
  <2>3. req' \in [Requests -> RequestStates]
    BY <1>0, <2>1, <2>2, <1>12, GotoType DEF ReadSecret, TokenSteps, PlainSteps
  <2> QED BY <2>3, <1>12 DEF ReadSecret, TypeOK, tables
<1>13. CASE AkahuRevoke(q)
  <2>1. u \in Users /\ req[q].token \in Tokens
    BY <1>13, Holds DEF AkahuRevoke, At, TokenSteps
  <2>2. req' \in [Requests -> RequestStates]
    BY <1>0, <2>1, <1>13, GotoType DEF AkahuRevoke, TokenSteps, PlainSteps
  <2>3. live' \subseteq Tokens
    BY <1>13 DEF AkahuRevoke, TypeOK
  <2> QED BY <2>2, <2>3, <1>13 DEF AkahuRevoke, TypeOK, tables
<1>14. CASE ForgetToken(q)
  <2>1. u \in Users
    BY <1>14, Holds DEF ForgetToken, At
  <2>2. req' \in [Requests -> RequestStates]
    BY <1>0, <2>1, <1>14, GotoType DEF ForgetToken, PlainSteps
  <2>3. token' \in [Users -> Tokens \cup {Null}]
    BY <2>1, <1>14, TableTypes DEF ForgetToken
  <2> QED BY <2>2, <2>3, <1>14 DEF ForgetToken, TypeOK
<1>15. CASE MarkConnections(q)
  <2>1. u \in Users /\ req[q] \in [pc : PlainSteps, user : Users]
    BY <1>15, Holds DEF MarkConnections, At
  <2>2. [req[q] EXCEPT !.pc = "closeAllAccounts"] \in RequestStates
    BY <2>1 DEF RequestStates, PlainSteps
  <2>3. req' \in [Requests -> RequestStates]
    BY <2>2, <1>15, GotoType DEF MarkConnections
  <2>4. conn' \in [Users -> [Banks -> BankStatus]]
    BY <2>1, <1>15, TableTypes DEF MarkConnections
  <2> QED BY <2>3, <2>4, <1>15 DEF MarkConnections, TypeOK
<1> QED
  BY <1>1, <1>2, <1>3, <1>4, <1>5, <1>6, <1>7, <1>8, <1>9, <1>10, <1>11, <1>12,
     <1>13, <1>14, <1>15 DEF Advance

(* The two steps that billing's business makes here.                       *)
EntitlementStep ==
  \/ \E u \in Users : GainEntitlement(u)
  \/ \E who \in SUBSET Users : LoseEntitlement(who)

(* Any step keeps every variable's type.                                   *)
LEMMA NextTypeOK == TypeOK /\ [Next]_vars => TypeOK'
<1> SUFFICES ASSUME TypeOK, [Next]_vars PROVE TypeOK'
  OBVIOUS
<1>1. ASSUME EntitlementStep PROVE TypeOK'
  <2>1. ASSUME NEW u \in Users, GainEntitlement(u) PROVE TypeOK'
    BY <2>1 DEF GainEntitlement, TypeOK, tables
  <2>2. ASSUME NEW who \in SUBSET Users, LoseEntitlement(who) PROVE TypeOK'
    <3>1. /\ excused' \in [Users -> SUBSET (Accts \cup Banks)]
          /\ entitled' \subseteq Users /\ ended' \subseteq Users
      BY <2>2 DEF LoseEntitlement, TypeOK
    <3> QED BY <2>2, <3>1 DEF LoseEntitlement, TypeOK, tables
  <2> QED BY <1>1, <2>1, <2>2 DEF EntitlementStep
<1>2. ASSUME NEW st \in AuthStates, ExpireState(st) PROVE TypeOK'
  BY <1>2 DEF ExpireState, TypeOK, tables
<1>3. CASE UNCHANGED vars
  BY <1>3 DEF vars, TypeOK, tables, RequestStates
<1>4. ASSUME NEW q \in Requests, Arrive(q) \/ Advance(q) \/ Fail(q) PROVE TypeOK'
  BY <1>4, ArriveTypeOK, AdvanceTypeOK
<1> QED BY <1>1, <1>2, <1>3, <1>4 DEF Next, EntitlementStep

(* Every table and every request in flight stays well typed.               *)
THEOREM TypeCorrect == Spec => []TypeOK
<1>1. Init => TypeOK
  BY InitTypeOK
<1>2. TypeOK /\ [Next]_vars => TypeOK'
  BY NextTypeOK
<1> QED BY <1>1, <1>2, PTL DEF Spec

(* Where the steps that keep part of their request lead, and what of the   *)
(* request they keep.                                                      *)
LEMMA Moves ==
  ASSUME TypeOK, NEW q \in Requests
  PROVE  /\ UpsertConnection(q) =>
              /\ req'[q].pc \in {"banks", "accounts"}
              /\ req'[q].report = req[q].report /\ req'[q].user = req[q].user
         /\ UpsertAccount(q) =>
              /\ req'[q].pc \in {"accounts", "missing"}
              /\ req'[q].report = req[q].report /\ req'[q].user = req[q].user
         /\ DisconnectConnection(q) =>
              /\ req'[q].pc = "closeBankAccounts"
              /\ req'[q].bank = req[q].bank /\ req'[q].user = req[q].user
         /\ MarkConnections(q) =>
              req'[q].pc = "closeAllAccounts" /\ req'[q].user = req[q].user
<1>1. ASSUME NEW next, Goto(q, next) PROVE req'[q] = next
  BY <1>1 DEF Goto, TypeOK
<1>2. ASSUME UpsertConnection(q)
      PROVE  /\ req'[q].pc \in {"banks", "accounts"}
             /\ req'[q].report = req[q].report /\ req'[q].user = req[q].user
  <2>1. req[q] \in [pc : {"banks"}, user : Users, report : SUBSET Accts, left : SUBSET Banks]
    BY <1>2, Holds DEF UpsertConnection
  <2>2. PICK b \in req[q].left :
          req'[q] = IF req[q].left = {b}
                    THEN [pc |-> "accounts", user |-> User(q),
                          report |-> req[q].report, left |-> req[q].report]
                    ELSE [req[q] EXCEPT !.left = @ \ {b}]
    BY <1>1, <1>2 DEF UpsertConnection
  <2> QED BY <2>1, <2>2 DEF User
<1>3. ASSUME UpsertAccount(q)
      PROVE  /\ req'[q].pc \in {"accounts", "missing"}
             /\ req'[q].report = req[q].report /\ req'[q].user = req[q].user
  <2>1. req[q] \in [pc : {"accounts"}, user : Users, report : SUBSET Accts, left : SUBSET Accts]
    BY <1>3, Holds DEF UpsertAccount
  <2>2. PICK a \in req[q].left :
          req'[q] = IF req[q].left = {a}
                    THEN [pc |-> "missing", user |-> User(q), report |-> req[q].report]
                    ELSE [req[q] EXCEPT !.left = @ \ {a}]
    BY <1>1, <1>3 DEF UpsertAccount
  <2> QED BY <2>1, <2>2 DEF User
<1>4. ASSUME DisconnectConnection(q)
      PROVE  /\ req'[q].pc = "closeBankAccounts"
             /\ req'[q].bank = req[q].bank /\ req'[q].user = req[q].user
  <2>1. req[q] \in [pc : {"closeBank", "closeBankAccounts"}, user : Users, bank : Banks]
    BY <1>4, Holds DEF DisconnectConnection, At, BankSteps
  <2> QED BY <1>1, <1>4, <2>1 DEF DisconnectConnection
<1>5. ASSUME MarkConnections(q)
      PROVE  req'[q].pc = "closeAllAccounts" /\ req'[q].user = req[q].user
  <2>1. req[q] \in [pc : PlainSteps, user : Users]
    BY <1>5, Holds DEF MarkConnections
  <2> QED BY <1>1, <1>5, <2>1 DEF MarkConnections
<1> QED BY <1>2, <1>3, <1>4, <1>5

(* A step of a request leaves the other requests alone.                    *)
LEMMA Alone ==
  ASSUME TypeOK, NEW q \in Requests, Arrive(q) \/ Advance(q) \/ Fail(q),
         NEW r \in Requests \ {q}
  PROVE  req'[r] = req[r]
<1>1. ASSUME NEW next, Goto(q, next) PROVE req'[r] = req[r]
  BY <1>1 DEF Goto, TypeOK
<1>2. CASE Arrive(q)
  BY <1>1, <1>2 DEF Arrive, Authorise, Sync, Callback, Delete, Revoke, Enter
<1>3. CASE Fail(q)
  BY <1>1, <1>3 DEF Fail
<1>4. CASE Advance(q)
  BY <1>1, <1>4 DEF Advance, CountConnections, IssueState, ConsumeState, ExchangeCode,
    StoreToken, GetToken, ListAccounts, UpsertConnection, UpsertAccount,
    MarkAccountsMissing, DisconnectConnection, DisconnectItsAccounts, ReadSecret,
    AkahuRevoke, ForgetToken, MarkConnections, MarkAccounts
<1> QED BY <1>2, <1>3, <1>4

-----------------------------------------------------------------------------
(* The authorisation grant                                                 *)

(* What makes a state single-use: a request about to exchange a code has   *)
(* consumed a state of its own user that has bought nothing yet, and it is *)
(* the only one; what was bought was bought with a consumed state.         *)
GrantInv ==
  /\ \A st \in AuthStates : states[st].phase = "unissued" <=> states[st].user = Null
  /\ \A q \in Requests : At(q, "exchange") =>
       /\ states[req[q].state].phase = "consumed"
       /\ states[req[q].state].user = User(q)
       /\ \A t \in Tokens : minted[t] # Null => minted[t].state # req[q].state
  /\ \A q, r \in Requests :
       At(q, "exchange") /\ At(r, "exchange") /\ req[q].state = req[r].state => q = r
  /\ \A t \in Tokens : minted[t] # Null =>
       /\ states[minted[t].state].phase = "consumed"
       /\ states[minted[t].state].user = minted[t].user
  /\ \A t, x \in Tokens :
       minted[t] # Null /\ minted[x] # Null /\ minted[t].state = minted[x].state => t = x

(* A step of a request that neither touches a state nor exchanges a code.  *)
Quiet(q) ==
  /\ UNCHANGED <<states, minted>>
  /\ \A r \in Requests \ {q} : req'[r] = req[r]
  /\ req'[q].pc # "exchange"

(* Most steps are quiet.                                                   *)
LEMMA QuietSteps ==
  ASSUME TypeOK, NEW q \in Requests, Arrive(q) \/ Advance(q) \/ Fail(q)
  PROVE  IssueState(q) \/ ConsumeState(q) \/ ExchangeCode(q) \/ Quiet(q)
<1>0. ASSUME NEW next, Goto(q, next), next.pc # "exchange", UNCHANGED <<states, minted>>
      PROVE  Quiet(q)
  BY <1>0 DEF Goto, Quiet, TypeOK
<1>1. CASE Arrive(q)
  <2>1. ASSUME NEW u \in Users, Authorise(q, u) \/ Sync(q, u) PROVE Quiet(q)
    BY <1>0, <2>1 DEF Authorise, Sync, Enter
  <2>2. ASSUME NEW u \in Users, NEW st \in AuthStates, Callback(q, u, st) PROVE Quiet(q)
    BY <1>0, <2>2 DEF Callback, Enter
  <2>3. ASSUME NEW u \in Users, NEW b \in Banks, Delete(q, u, b) PROVE Quiet(q)
    BY <1>0, <2>3 DEF Delete, Enter
  <2>4. ASSUME NEW u \in Users, Revoke(q, u) PROVE Quiet(q)
    BY <1>0, <2>4 DEF Revoke
  <2> QED BY <1>1, <2>1, <2>2, <2>3, <2>4 DEF Arrive
<1>2. CASE Fail(q)
  BY <1>0, <1>2 DEF Fail, Idle
<1>3. CASE CountConnections(q) \/ StoreToken(q) \/ GetToken(q) \/ ReadSecret(q)
  BY <1>3 DEF CountConnections, StoreToken, GetToken, ReadSecret, Quiet, Idle, Goto, TypeOK
<1>4. CASE ListAccounts(q)
  <2>1. PICK next : Goto(q, next) /\ next.pc # "exchange"
    <3>1. CASE Goto(q, Idle)
      BY <3>1 DEF Idle
    <3>2. ASSUME NEW report, NEW left,
                 Goto(q, [pc |-> "banks", user |-> User(q), report |-> report, left |-> left])
          PROVE  \E next : Goto(q, next) /\ next.pc # "exchange"
      BY <3>2
    <3> QED BY <1>4, <3>1, <3>2 DEF ListAccounts
  <2>2. UNCHANGED <<states, minted>>
    BY <1>4 DEF ListAccounts
  <2> QED BY <1>0, <2>1, <2>2
<1>5. CASE UpsertConnection(q) \/ UpsertAccount(q)
  BY <1>5, Moves, Alone DEF UpsertConnection, UpsertAccount, Quiet
<1>6. CASE MarkAccountsMissing(q) \/ MarkAccounts(q) \/ DisconnectItsAccounts(q)
  BY <1>6 DEF MarkAccountsMissing, MarkAccounts, DisconnectItsAccounts, Quiet, Idle, Goto, TypeOK
<1>7. CASE DisconnectConnection(q) \/ MarkConnections(q)
  BY <1>7, Moves, Alone DEF DisconnectConnection, MarkConnections, Quiet
<1>8. CASE AkahuRevoke(q) \/ ForgetToken(q)
  BY <1>8 DEF AkahuRevoke, ForgetToken, Quiet, Goto, TypeOK
<1> QED
  BY <1>1, <1>2, <1>3, <1>4, <1>5, <1>6, <1>7, <1>8 DEF Advance

(* After a quiet step, whoever is about to exchange a code was before.     *)
LEMMA QuietExchange ==
  ASSUME TypeOK, NEW q \in Requests, Quiet(q), NEW r \in Requests, At(r, "exchange")'
  PROVE  r # q /\ req'[r] = req[r] /\ At(r, "exchange") /\ User(r)' = User(r)
BY DEF Quiet, At, User

(* No state is issued, consumed or spent at the start.                     *)
LEMMA InitGrantInv == Init => GrantInv
BY DEF Init, GrantInv, At, Idle

(* Every step keeps states single-use.                                     *)
LEMMA NextGrantInv ==
  ASSUME TypeOK, GrantInv, [Next]_vars
  PROVE  GrantInv'
<1>1. CASE UNCHANGED <<states, minted, req>>
  BY <1>1 DEF GrantInv, At, User
<1>2. ASSUME NEW st \in AuthStates, ExpireState(st) PROVE GrantInv'
  BY <1>2 DEF ExpireState, GrantInv, At, User, TypeOK
<1>3. ASSUME NEW q \in Requests, IssueState(q) PROVE GrantInv'
  <2>1. PICK st \in AuthStates :
          /\ states[st].phase = "unissued"
          /\ states' = [states EXCEPT ![st] = [phase |-> "pending", user |-> User(q)]]
    BY <1>3 DEF IssueState
  <2>2. User(q) \in Users
    BY <1>3, Holds DEF IssueState, At
  <2>3. \A r \in Requests : At(r, "exchange")' =>
          At(r, "exchange") /\ req'[r] = req[r] /\ User(r)' = User(r)
    BY <1>3 DEF IssueState, Goto, Idle, At, User, TypeOK
  <2>4. \A s \in AuthStates : s # st => states'[s] = states[s]
    BY <2>1 DEF TypeOK
  <2>5. \A r \in Requests : At(r, "exchange") => req[r].state # st
    BY <2>1 DEF GrantInv
  <2>6. \A t \in Tokens : minted[t] # Null => minted[t].state # st /\ minted[t].state \in AuthStates
    BY <2>1 DEF GrantInv, TypeOK
  <2>7. minted' = minted
    BY <1>3 DEF IssueState
  <2>8. \A r \in Requests : At(r, "exchange") => req[r].state \in AuthStates
    BY Holds DEF At, StateSteps
  <2>9. \A s \in AuthStates : states'[s].phase = "unissued" <=> states'[s].user = Null
    BY <2>1, <2>2, <2>4, BankNullAssumption DEF GrantInv, TypeOK
  <2> QED BY <2>3, <2>4, <2>5, <2>6, <2>7, <2>8, <2>9 DEF GrantInv
<1>4. ASSUME NEW q \in Requests, ConsumeState(q) PROVE GrantInv'
  <2> DEFINE st == req[q].state
  <2>1. st \in AuthStates /\ User(q) \in Users
    BY <1>4, Holds DEF ConsumeState, At, StateSteps
  <2>2. /\ \A s \in AuthStates : states'[s].user = states[s].user
        /\ \A s \in AuthStates : states'[s].phase = states[s].phase
             \/ (s = st /\ states[s].phase = "pending" /\ states'[s].phase = "consumed")
        /\ states[st].phase = "pending" => states'[st].phase = "consumed"
        /\ minted' = minted
    BY <1>4, <2>1 DEF ConsumeState, Consume, TypeOK
  <2>3. \A r \in Requests : At(r, "exchange")' =>
          \/ r # q /\ At(r, "exchange") /\ req'[r] = req[r] /\ User(r)' = User(r)
          \/ /\ r = q /\ req'[r].state = st /\ User(r)' = User(q)
             /\ states[st].phase = "pending" /\ states[st].user = User(q)
    BY <1>4 DEF ConsumeState, Goto, Idle, At, User, TypeOK
  <2>4. \A r \in Requests : At(r, "exchange") => req[r].state \in AuthStates
    BY Holds DEF At, StateSteps
  <2>5. \A t \in Tokens : minted[t] # Null => minted[t].state \in AuthStates
    BY DEF TypeOK
  <2>6. \A s \in AuthStates : states'[s].phase = "unissued" <=> states'[s].user = Null
    BY <2>2 DEF GrantInv
  <2>7. \A r \in Requests : At(r, "exchange")' =>
          /\ states'[req'[r].state].phase = "consumed"
          /\ states'[req'[r].state].user = User(r)'
          /\ \A t \in Tokens : minted'[t] # Null => minted'[t].state # req'[r].state
    BY <2>1, <2>2, <2>3, <2>4, <2>5 DEF GrantInv
  <2>8. \A r, w \in Requests :
          At(r, "exchange")' /\ At(w, "exchange")' /\ req'[r].state = req'[w].state => r = w
    BY <2>1, <2>2, <2>3, <2>4 DEF GrantInv
  <2>9. \A t \in Tokens : minted[t] # Null =>
          /\ states'[minted[t].state].phase = "consumed"
          /\ states'[minted[t].state].user = minted[t].user
    BY <2>2, <2>5 DEF GrantInv
  <2> QED BY <2>2, <2>6, <2>7, <2>8, <2>9 DEF GrantInv
<1>5. ASSUME NEW q \in Requests, ExchangeCode(q) PROVE GrantInv'
  <2> DEFINE st == req[q].state
  <2>1. st \in AuthStates /\ User(q) \in Users
    BY <1>5, Holds DEF ExchangeCode, At, StateSteps
  <2>2. PICK t \in Tokens :
          /\ minted[t] = Null
          /\ minted' = [minted EXCEPT ![t] = [state |-> st, user |-> User(q)]]
          /\ Goto(q, [pc |-> "store", user |-> User(q), token |-> t])
    BY <1>5 DEF ExchangeCode
  <2>3. /\ \A x \in Tokens : x # t => minted'[x] = minted[x]
        /\ minted'[t].state = st /\ minted'[t].user = User(q)
        /\ states' = states
    BY <1>5, <2>2 DEF ExchangeCode, TypeOK
  <2>4. \A r \in Requests : At(r, "exchange")' =>
          r # q /\ At(r, "exchange") /\ req'[r] = req[r] /\ User(r)' = User(r)
    BY <2>2 DEF Goto, At, User, TypeOK
  <2>5. /\ At(q, "exchange")
        /\ states[st].phase = "consumed" /\ states[st].user = User(q)
        /\ \A x \in Tokens : minted[x] # Null => minted[x].state # st
    BY <1>5 DEF ExchangeCode, GrantInv
  <2>6. \A r \in Requests : At(r, "exchange") /\ r # q => req[r].state # st
    BY <2>5 DEF GrantInv
  <2>7. \A x \in Tokens : minted'[x] # Null =>
          /\ states'[minted'[x].state].phase = "consumed"
          /\ states'[minted'[x].state].user = minted'[x].user
    BY <2>3, <2>5 DEF GrantInv
  <2>8. \A x, y \in Tokens :
          minted'[x] # Null /\ minted'[y] # Null /\ minted'[x].state = minted'[y].state => x = y
    BY <2>3, <2>5 DEF GrantInv
  <2>9. \A r \in Requests : At(r, "exchange")' =>
          /\ states'[req'[r].state].phase = "consumed"
          /\ states'[req'[r].state].user = User(r)'
          /\ \A x \in Tokens : minted'[x] # Null => minted'[x].state # req'[r].state
    BY <2>3, <2>4, <2>6 DEF GrantInv
  <2> QED BY <2>3, <2>4, <2>7, <2>8, <2>9 DEF GrantInv
<1>6. ASSUME NEW q \in Requests, Quiet(q) PROVE GrantInv'
  <2>1. UNCHANGED <<states, minted>>
    BY <1>6 DEF Quiet
  <2>2. \A r \in Requests : At(r, "exchange")' =>
          At(r, "exchange") /\ req'[r] = req[r] /\ User(r)' = User(r)
    BY <1>6, QuietExchange
  <2> QED BY <2>1, <2>2 DEF GrantInv
<1>7. ASSUME EntitlementStep PROVE GrantInv'
  BY <1>1, <1>7 DEF EntitlementStep, GainEntitlement, LoseEntitlement
<1>8. ASSUME NEW q \in Requests, Arrive(q) \/ Advance(q) \/ Fail(q) PROVE GrantInv'
  BY <1>3, <1>4, <1>5, <1>6, <1>8, QuietSteps
<1>9. CASE UNCHANGED vars
  BY <1>1, <1>9 DEF vars
<1> QED BY <1>2, <1>7, <1>8, <1>9 DEF Next, EntitlementStep

(* What the refinement mapping says of a state, when it is single-use.     *)
GrantReads ==
  \A st \in AuthStates :
    /\ Exchanges(st) # {} => GrantPhase(st) = "spent"
    /\ Exchanges(st) = {} /\ (states[st].phase = "pending" \/ Exchanging(st))
         => GrantPhase(st) = "granted"
    /\ Exchanges(st) = {} /\ states[st].phase = "unissued" /\ ~Exchanging(st)
         => GrantPhase(st) = "unissued"
    /\ Exchanges(st) = {} /\ states[st].phase \in {"consumed", "expired"} /\ ~Exchanging(st)
         => GrantPhase(st) = "void"
    /\ GrantHolder(st) = states[st].user

(* The mapping says so, whatever was chosen among the exchanges.           *)
LEMMA MappingReads == TypeOK /\ GrantInv => GrantReads
<1> SUFFICES ASSUME TypeOK, GrantInv, NEW st \in AuthStates
             PROVE  GrantReads!(st)
  BY DEF GrantReads
<1>1. \A t, x \in Exchanges(st) : t = x
  BY DEF GrantInv, Exchanges
<1>2. \A t \in Exchanges(st) : minted[t].user = states[st].user
  BY DEF GrantInv, Exchanges
<1>3. GrantHolder(st) = states[st].user
  <2>1. CASE Exchanges(st) = {}
    BY <2>1 DEF GrantHolder
  <2>2. CASE Exchanges(st) # {}
    <3>1. (CHOOSE t \in Exchanges(st) : TRUE) \in Exchanges(st)
      BY <2>2
    <3> QED BY <2>2, <3>1, <1>2 DEF GrantHolder
  <2> QED BY <2>1, <2>2
<1>4. Exchanges(st) # {} => GrantPhase(st) = "spent"
  BY <1>1 DEF GrantPhase
<1>5. Exchanges(st) = {} /\ (states[st].phase = "pending" \/ Exchanging(st))
        => GrantPhase(st) = "granted"
  BY DEF GrantPhase
<1>6. Exchanges(st) = {} /\ states[st].phase = "unissued" /\ ~Exchanging(st)
        => GrantPhase(st) = "unissued"
  BY DEF GrantPhase
<1>7. Exchanges(st) = {} /\ states[st].phase \in {"consumed", "expired"} /\ ~Exchanging(st)
        => GrantPhase(st) = "void"
  BY DEF GrantPhase
<1> QED BY <1>3, <1>4, <1>5, <1>6, <1>7

(* And it says so of the next state.                                       *)
LEMMA MappingReadsNext == (TypeOK /\ GrantInv => GrantReads)'
BY MappingReads, PTL

(* A state that no step touches stays where it is in the abstract grant.   *)
LEMMA Untouched ==
  ASSUME GrantReads, GrantReads', TypeOK, NEW st \in AuthStates, states'[st] = states[st],
         Exchanges(st)' = Exchanges(st), Exchanging(st)' <=> Exchanging(st)
  PROVE  GrantPhase(st)' = GrantPhase(st) /\ GrantHolder(st)' = GrantHolder(st)
<1>1. states[st].phase \in {"unissued", "pending", "consumed", "expired"}
  BY DEF TypeOK
<1> QED BY <1>1 DEF GrantReads

(* The initial states of the server are those of the abstract grant.       *)
LEMMA InitRefines == Init => Grant!Init
<1> SUFFICES ASSUME Init PROVE Grant!Init
  OBVIOUS
<1>1. GrantReads
  BY InitTypeOK, InitGrantInv, MappingReads
<1>2. \A st \in AuthStates :
        /\ Exchanges(st) = {} /\ ~Exchanging(st)
        /\ states[st].phase = "unissued" /\ states[st].user = Null
  BY DEF Init, Exchanges, Exchanging, At, Idle
<1> QED BY <1>1, <1>2 DEF GrantReads, Grant!Init

(* Every step of the server is a step of the abstract grant, or none.      *)
LEMMA NextRefines ==
  ASSUME TypeOK, GrantInv, [Next]_vars
  PROVE  [Grant!Next]_(Grant!grantVars)
<1> DEFINE Same(st) == GrantPhase(st)' = GrantPhase(st) /\ GrantHolder(st)' = GrantHolder(st)
<1>1. /\ TypeOK' /\ GrantInv'
      /\ GrantReads /\ GrantReads'
  BY NextTypeOK, NextGrantInv, MappingReads, MappingReadsNext
<1>2. ASSUME \A st \in AuthStates : Same(st) PROVE UNCHANGED Grant!grantVars
  BY <1>2 DEF Grant!grantVars
<1>3. ASSUME NEW st \in AuthStates, \A s \in AuthStates \ {st} : Same(s),
             GrantPhase(st) = "granted", GrantPhase(st)' \in {"spent", "void"},
             GrantHolder(st)' = GrantHolder(st)
      PROVE  Grant!Next
  BY <1>3 DEF Grant!Next, Grant!Spend, Grant!Void
<1>4. ASSUME UNCHANGED <<states, minted, req>> PROVE UNCHANGED Grant!grantVars
  <2>1. \A st \in AuthStates : Exchanges(st)' = Exchanges(st) /\ (Exchanging(st)' <=> Exchanging(st))
    BY <1>4 DEF Exchanges, Exchanging, At
  <2> QED BY <1>1, <1>2, <1>4, <2>1, Untouched
<1>5. ASSUME NEW st \in AuthStates, ExpireState(st) PROVE Grant!Next
  <2>1. \A s \in AuthStates : Exchanges(s)' = Exchanges(s) /\ (Exchanging(s)' <=> Exchanging(s))
    BY <1>5 DEF ExpireState, Exchanges, Exchanging, At
  <2>2. /\ \A s \in AuthStates \ {st} : states'[s] = states[s]
        /\ states[st].phase = "pending" /\ states'[st].phase = "expired"
        /\ states'[st].user = states[st].user
    BY <1>5 DEF ExpireState, TypeOK
  <2>3. \A s \in AuthStates \ {st} : Same(s)
    BY <1>1, <2>1, <2>2, Untouched
  <2>4. Exchanges(st) = {} /\ ~Exchanging(st)
    BY <2>2 DEF GrantInv, Exchanges, Exchanging
  <2>5. GrantPhase(st) = "granted" /\ GrantPhase(st)' = "void"
    BY <1>1, <2>1, <2>2, <2>4 DEF GrantReads
  <2>6. GrantHolder(st)' = GrantHolder(st)
    BY <1>1, <2>2 DEF GrantReads
  <2> QED BY <1>3, <2>3, <2>5, <2>6
<1>6. ASSUME NEW q \in Requests, IssueState(q) PROVE Grant!Next
  <2>1. PICK st \in AuthStates :
          /\ states[st].phase = "unissued"
          /\ states' = [states EXCEPT ![st] = [phase |-> "pending", user |-> User(q)]]
    BY <1>6 DEF IssueState
  <2>2. User(q) \in Users
    BY <1>6, Holds DEF IssueState, At
  <2>3. \A s \in AuthStates : Exchanges(s)' = Exchanges(s)
    BY <1>6 DEF IssueState, Exchanges
  <2>4. \A s \in AuthStates : Exchanging(s)' <=> Exchanging(s)
    BY <1>6 DEF IssueState, Goto, Idle, At, Exchanging, TypeOK
  <2>5. /\ \A s \in AuthStates \ {st} : states'[s] = states[s]
        /\ states'[st].phase = "pending" /\ states'[st].user = User(q)
    BY <2>1 DEF TypeOK
  <2>6. \A s \in AuthStates \ {st} : Same(s)
    BY <1>1, <2>3, <2>4, <2>5, Untouched
  <2>7. Exchanges(st) = {} /\ ~Exchanging(st)
    BY <2>1 DEF GrantInv, Exchanges, Exchanging
  <2>8. GrantPhase(st) = "unissued" /\ GrantPhase(st)' = "granted"
    BY <1>1, <2>1, <2>3, <2>4, <2>5, <2>7 DEF GrantReads
  <2>9. GrantHolder(st)' = User(q)
    BY <1>1, <2>5 DEF GrantReads
  <2> QED BY <2>2, <2>6, <2>8, <2>9 DEF Grant!Next, Grant!Grant
<1>7. ASSUME NEW q \in Requests, ConsumeState(q)
      PROVE  Grant!Next \/ UNCHANGED Grant!grantVars
  <2>0. PICK st \in AuthStates : st = req[q].state
    BY <1>7, Holds DEF ConsumeState, At, StateSteps
  <2>1. st = req[q].state /\ User(q) \in Users /\ At(q, "consume")
    BY <1>7, <2>0, Holds DEF ConsumeState, At
  <2>2. \A s \in AuthStates : Exchanges(s)' = Exchanges(s)
    BY <1>7 DEF ConsumeState, Exchanges
  <2>3. /\ \A s \in AuthStates \ {st} : states'[s] = states[s]
        /\ states'[st].user = states[st].user
        /\ states[st].phase = "pending" => states'[st].phase = "consumed"
        /\ states[st].phase # "pending" => states'[st] = states[st]
    BY <1>7, <2>1 DEF ConsumeState, Consume, TypeOK
  <2>4. \A r \in Requests : At(r, "exchange")' <=>
          \/ r # q /\ At(r, "exchange")
          \/ r = q /\ states[st].phase = "pending" /\ states[st].user = User(q)
    BY <1>7, <2>1 DEF ConsumeState, Goto, Idle, At, User, TypeOK
  <2>5. \A r \in Requests : At(r, "exchange")' =>
          IF r = q THEN req'[r].state = st ELSE req'[r] = req[r]
    BY <1>7, <2>1 DEF ConsumeState, Goto, Idle, At, User, TypeOK
  <2>6. \A r \in Requests : r # q => req'[r] = req[r]
    BY <1>7 DEF ConsumeState, Goto, TypeOK
  <2>7. \A s \in AuthStates \ {st} : Exchanging(s)' <=> Exchanging(s)
    BY <2>1, <2>4, <2>5, <2>6 DEF Exchanging, At
  <2>8. \A s \in AuthStates \ {st} : Same(s)
    BY <1>1, <2>2, <2>3, <2>7, Untouched
  <2>9. CASE states[st].phase # "pending"
    <3>1. Exchanging(st)' <=> Exchanging(st)
      BY <2>1, <2>4, <2>5, <2>6, <2>9 DEF Exchanging, At
    <3>2. Same(st)
      BY <1>1, <2>1, <2>2, <2>3, <2>9, <3>1, Untouched
    <3> QED BY <1>2, <2>8, <3>2
  <2>10. CASE states[st].phase = "pending"
    <3>1. Exchanges(st) = {} /\ ~Exchanging(st)
      BY <2>1, <2>10 DEF GrantInv, Exchanges, Exchanging
    <3>2. GrantPhase(st) = "granted" /\ GrantHolder(st)' = GrantHolder(st)
      BY <1>1, <2>1, <2>3, <2>10, <3>1 DEF GrantReads
    <3>3. CASE states[st].user = User(q)
      <4>1. Exchanging(st)'
        BY <2>1, <2>4, <2>5, <2>10, <3>3 DEF Exchanging
      <4>2. Same(st)
        BY <1>1, <2>1, <2>2, <3>1, <3>2, <4>1 DEF GrantReads
      <4> QED BY <1>2, <2>8, <4>2
    <3>4. CASE states[st].user # User(q)
      <4>1. ~Exchanging(st)'
        BY <2>1, <2>4, <2>5, <3>1, <3>4 DEF Exchanging
      <4>2. GrantPhase(st)' = "void"
        BY <1>1, <2>1, <2>2, <2>3, <2>10, <3>1, <4>1 DEF GrantReads
      <4> QED BY <1>3, <2>1, <2>8, <3>2, <4>2
    <3> QED BY <3>3, <3>4
  <2> QED BY <2>9, <2>10
<1>8. ASSUME NEW q \in Requests, ExchangeCode(q) PROVE Grant!Next
  <2>0. PICK st \in AuthStates : st = req[q].state
    BY <1>8, Holds DEF ExchangeCode, At, StateSteps
  <2>1. st = req[q].state /\ User(q) \in Users /\ At(q, "exchange")
    BY <1>8, <2>0, Holds DEF ExchangeCode, At
  <2>2. PICK t \in Tokens :
          /\ minted[t] = Null
          /\ minted' = [minted EXCEPT ![t] = [state |-> st, user |-> User(q)]]
          /\ Goto(q, [pc |-> "store", user |-> User(q), token |-> t])
    BY <1>8, <2>1 DEF ExchangeCode
  <2>3. /\ states' = states
        /\ \A x \in Tokens \ {t} : minted'[x] = minted[x]
        /\ minted'[t] # Null /\ minted'[t].state = st
    BY <1>8, <2>1, <2>2, BankNullAssumption DEF ExchangeCode, TypeOK
  <2>4. \A s \in AuthStates \ {st} : Exchanges(s)' = Exchanges(s)
    BY <2>2, <2>3 DEF Exchanges
  <2>5. \A r \in Requests : At(r, "exchange")' <=> r # q /\ At(r, "exchange")
    BY <2>2 DEF Goto, At, TypeOK
  <2>6. \A r \in Requests : r # q => req'[r] = req[r]
    BY <2>2 DEF Goto, TypeOK
  <2>7. \A s \in AuthStates \ {st} : Exchanging(s)' <=> Exchanging(s)
    BY <2>1, <2>5, <2>6 DEF Exchanging
  <2>8. \A s \in AuthStates \ {st} : Same(s)
    BY <1>1, <2>3, <2>4, <2>7, Untouched
  <2>9. Exchanges(st) = {} /\ Exchanging(st)
    BY <2>1 DEF GrantInv, Exchanges, Exchanging
  <2>10. Exchanges(st)' # {}
    BY <2>2, <2>3 DEF Exchanges
  <2>11. GrantPhase(st) = "granted" /\ GrantPhase(st)' = "spent"
    BY <1>1, <2>1, <2>9, <2>10 DEF GrantReads
  <2>12. GrantHolder(st)' = GrantHolder(st)
    BY <1>1, <2>1, <2>3 DEF GrantReads
  <2> QED BY <1>3, <2>1, <2>8, <2>11, <2>12
<1>9. ASSUME NEW q \in Requests, Quiet(q)
      PROVE  Grant!Next \/ UNCHANGED Grant!grantVars
  <2>1. \A s \in AuthStates : states'[s] = states[s] /\ Exchanges(s)' = Exchanges(s)
    BY <1>9 DEF Quiet, Exchanges
  <2>2. \A r \in Requests : At(r, "exchange")' <=> r # q /\ At(r, "exchange")
    BY <1>9 DEF Quiet, At
  <2>3. \A r \in Requests : r # q => req'[r] = req[r]
    BY <1>9 DEF Quiet
  <2>4. CASE ~At(q, "exchange")
    <3>1. \A s \in AuthStates : Exchanging(s)' <=> Exchanging(s)
      BY <2>2, <2>3, <2>4 DEF Exchanging
    <3>2. \A s \in AuthStates : Same(s)
      BY <1>1, <2>1, <3>1, Untouched
    <3> QED BY <1>2, <3>2
  <2>5. CASE At(q, "exchange")
    <3>1. PICK st \in AuthStates : st = req[q].state
      BY <2>5, Holds DEF At, StateSteps
    <3>2. \A s \in AuthStates \ {st} : Exchanging(s)' <=> Exchanging(s)
      BY <2>2, <2>3, <2>5, <3>1 DEF Exchanging
    <3>3. \A s \in AuthStates \ {st} : Same(s)
      BY <1>1, <2>1, <3>2, Untouched
    <3>4. /\ Exchanges(st) = {} /\ Exchanging(st)
          /\ states[st].phase = "consumed"
      BY <2>5, <3>1 DEF GrantInv, Exchanges, Exchanging
    <3>5. ~Exchanging(st)'
      BY <2>2, <2>3, <2>5, <3>1 DEF GrantInv, Exchanging
    <3>6. GrantPhase(st) = "granted" /\ GrantPhase(st)' = "void"
      BY <1>1, <2>1, <3>1, <3>4, <3>5 DEF GrantReads
    <3>7. GrantHolder(st)' = GrantHolder(st)
      BY <1>1, <2>1, <3>1 DEF GrantReads
    <3> QED BY <1>3, <3>1, <3>3, <3>6, <3>7
  <2> QED BY <2>4, <2>5
<1>10. ASSUME EntitlementStep PROVE UNCHANGED Grant!grantVars
  BY <1>4, <1>10 DEF EntitlementStep, GainEntitlement, LoseEntitlement
<1>11. ASSUME NEW q \in Requests, Arrive(q) \/ Advance(q) \/ Fail(q)
       PROVE  Grant!Next \/ UNCHANGED Grant!grantVars
  BY <1>6, <1>7, <1>8, <1>9, <1>11, QuietSteps
<1>12. CASE UNCHANGED vars
  BY <1>4, <1>12 DEF vars
<1> QED BY <1>5, <1>10, <1>11, <1>12 DEF Next, EntitlementStep

(* Racing, replayed, expired and misdirected callbacks notwithstanding, an *)
(* authorisation state leads to one exchange at most, for the user it was  *)
(* issued to: the server implements the abstract single-use grant.         *)
THEOREM Single == Spec => SingleUse
<1>1. Init => TypeOK /\ GrantInv /\ Grant!Init
  BY InitTypeOK, InitGrantInv, InitRefines
<1>2. TypeOK /\ GrantInv /\ [Next]_vars => TypeOK' /\ GrantInv' /\ [Grant!Next]_(Grant!grantVars)
  BY NextTypeOK, NextGrantInv, NextRefines
<1> QED BY <1>1, <1>2, PTL DEF Spec, SingleUse, Grant!Spec

-----------------------------------------------------------------------------
(* Custody of the token                                                    *)

(* A token at hand or in a row was bought for that user; and once Akahu    *)
(* has confirmed a revocation, the token it was made with is dead.         *)
CustodyInv ==
  /\ \A q \in Requests : req[q].pc \in TokenSteps =>
       minted[req[q].token] # Null /\ minted[req[q].token].user = User(q)
  /\ \A u \in Users : token[u] # Null =>
       minted[token[u]] # Null /\ minted[token[u]].user = u
  /\ \A q \in Requests : At(q, "forget") => req[q].token \notin live

(* A step of a request that handles no token.                              *)
Tokenless(q) ==
  /\ UNCHANGED <<token, minted, live>>
  /\ \A r \in Requests \ {q} : req'[r] = req[r]
  /\ req'[q].pc \notin TokenSteps

(* All steps but six handle no token.                                      *)
LEMMA TokenlessSteps ==
  ASSUME TypeOK, NEW q \in Requests, Arrive(q) \/ Advance(q) \/ Fail(q)
  PROVE  \/ ExchangeCode(q) \/ StoreToken(q) \/ GetToken(q)
         \/ ReadSecret(q) \/ AkahuRevoke(q) \/ ForgetToken(q)
         \/ Tokenless(q)
<1>0. ASSUME NEW next, Goto(q, next), next.pc \notin TokenSteps,
             UNCHANGED <<token, minted, live>>
      PROVE  Tokenless(q)
  BY <1>0 DEF Goto, Tokenless, TypeOK
<1>1. CASE Arrive(q)
  <2>1. ASSUME NEW u \in Users, Authorise(q, u) \/ Sync(q, u) PROVE Tokenless(q)
    BY <1>0, <2>1 DEF Authorise, Sync, Enter, tables, TokenSteps
  <2>2. ASSUME NEW u \in Users, NEW st \in AuthStates, Callback(q, u, st) PROVE Tokenless(q)
    BY <1>0, <2>2 DEF Callback, Enter, tables, TokenSteps
  <2>3. ASSUME NEW u \in Users, NEW b \in Banks, Delete(q, u, b) PROVE Tokenless(q)
    BY <1>0, <2>3 DEF Delete, Enter, tables, TokenSteps
  <2>4. ASSUME NEW u \in Users, Revoke(q, u) PROVE Tokenless(q)
    BY <1>0, <2>4 DEF Revoke, tables, TokenSteps
  <2> QED BY <1>1, <2>1, <2>2, <2>3, <2>4 DEF Arrive
<1>2. CASE Fail(q)
  BY <1>0, <1>2 DEF Fail, Idle, tables, TokenSteps
<1>3. CASE CountConnections(q)
  <2>1. /\ req'[q].pc \notin TokenSteps
        /\ UNCHANGED <<token, minted, live>>
    BY <1>3 DEF CountConnections, Idle, tables, TokenSteps, Goto, TypeOK
  <2> QED BY <2>1, Alone DEF Tokenless
<1>4. CASE IssueState(q)
  BY <1>0, <1>4 DEF IssueState, Idle, tables, TokenSteps
<1>5. CASE ConsumeState(q)
  <2>1. /\ req'[q].pc \notin TokenSteps
        /\ UNCHANGED <<token, minted, live>>
    BY <1>5 DEF ConsumeState, Idle, tables, TokenSteps, Goto, TypeOK
  <2> QED BY <2>1, Alone DEF Tokenless
<1>6. CASE ListAccounts(q)
  <2>1. CASE Goto(q, Idle)
    BY <1>0, <1>6, <2>1 DEF ListAccounts, Idle, tables, TokenSteps
  <2>2. ASSUME NEW report, NEW left,
               Goto(q, [pc |-> "banks", user |-> User(q), report |-> report, left |-> left])
        PROVE  Tokenless(q)
    BY <1>0, <1>6, <2>2 DEF ListAccounts, tables, TokenSteps
  <2> QED BY <1>6, <2>1, <2>2 DEF ListAccounts
<1>7. CASE UpsertConnection(q) \/ UpsertAccount(q)
  BY <1>7, Moves, Alone DEF UpsertConnection, UpsertAccount, Tokenless, TokenSteps
<1>8. CASE MarkAccountsMissing(q) \/ MarkAccounts(q) \/ DisconnectItsAccounts(q)
  BY <1>0, <1>8
    DEF MarkAccountsMissing, MarkAccounts, DisconnectItsAccounts, Idle, TokenSteps
<1>9. CASE DisconnectConnection(q) \/ MarkConnections(q)
  BY <1>9, Moves, Alone DEF DisconnectConnection, MarkConnections, Tokenless, TokenSteps
<1> QED
  BY <1>1, <1>2, <1>3, <1>4, <1>5, <1>6, <1>7, <1>8, <1>9 DEF Advance

(* Nothing is in custody at the start.                                     *)
LEMMA InitCustodyInv == Init => CustodyInv
BY DEF Init, CustodyInv, At, Idle, TokenSteps

(* Every step keeps tokens with the users they were bought for.            *)
LEMMA NextCustodyInv ==
  ASSUME TypeOK, CustodyInv, [Next]_vars
  PROVE  CustodyInv'
<1>1. CASE UNCHANGED <<token, minted, live, req>>
  BY <1>1 DEF CustodyInv, At, User
<1>2. ASSUME NEW q \in Requests, Tokenless(q) PROVE CustodyInv'
  <2>1. \A r \in Requests : req'[r].pc \in TokenSteps => req'[r] = req[r]
    BY <1>2 DEF Tokenless
  <2>2. UNCHANGED <<token, minted, live>>
    BY <1>2 DEF Tokenless
  <2> QED BY <2>1, <2>2 DEF CustodyInv, At, User, TokenSteps
<1>3. ASSUME NEW q \in Requests, ExchangeCode(q) PROVE CustodyInv'
  <2>1. User(q) \in Users /\ req[q].state \in AuthStates
    BY <1>3, Holds DEF ExchangeCode, At, StateSteps
  <2>2. PICK t \in Tokens :
          /\ minted[t] = Null
          /\ minted' = [minted EXCEPT ![t] = [state |-> req[q].state, user |-> User(q)]]
          /\ live' = live \cup {t}
          /\ req' = [req EXCEPT ![q] = [pc |-> "store", user |-> User(q), token |-> t]]
    BY <1>3 DEF ExchangeCode, Goto
  <2>3. /\ \A x \in Tokens \ {t} : minted'[x] = minted[x]
        /\ minted'[t] # Null /\ minted'[t].user = User(q)
    BY <2>1, <2>2, BankNullAssumption DEF TypeOK
  <2>4. /\ \A r \in Requests \ {q} : req'[r] = req[r]
        /\ req'[q] = [pc |-> "store", user |-> User(q), token |-> t]
    BY <2>2 DEF TypeOK
  <2>5. \A x \in Tokens : minted[x] # Null => minted'[x] = minted[x]
    BY <2>2, <2>3
  <2>6. token' = token /\ \A u \in Users : token[u] \in Tokens \cup {Null}
    BY <1>3 DEF ExchangeCode, tables, TypeOK
  <2>7. \A r \in Requests : req[r].pc \in TokenSteps => req[r].token \in Tokens
    BY Holds
  <2>8. \A r \in Requests : req'[r].pc \in TokenSteps =>
          minted'[req'[r].token] # Null /\ minted'[req'[r].token].user = req'[r].user
    BY <2>3, <2>4, <2>5, <2>7 DEF CustodyInv, User
  <2>9. \A u \in Users : token'[u] # Null =>
          minted'[token'[u]] # Null /\ minted'[token'[u]].user = u
    BY <2>5, <2>6 DEF CustodyInv
  <2>10. \A r \in Requests : At(r, "forget")' => req'[r].token \notin live'
    BY <2>2, <2>4, <2>7 DEF CustodyInv, At, TokenSteps
  <2> QED BY <2>8, <2>9, <2>10 DEF CustodyInv, User
<1>4. ASSUME NEW q \in Requests, StoreToken(q) PROVE CustodyInv'
  <2>1. User(q) \in Users /\ req[q].token \in Tokens
    BY <1>4, Holds DEF StoreToken, At, TokenSteps
  <2>2. /\ \A r \in Requests \ {q} : req'[r] = req[r]
        /\ req'[q] = [pc |-> "list", user |-> User(q), token |-> req[q].token]
        /\ minted' = minted /\ live' = live
    BY <1>4 DEF StoreToken, Goto, TypeOK
  <2>3. minted[req[q].token] # Null /\ minted[req[q].token].user = User(q)
    BY <1>4 DEF StoreToken, At, CustodyInv, TokenSteps
  <2>4. \A u \in Users : token'[u] = IF u = User(q) THEN req[q].token ELSE token[u]
    BY <1>4, <2>1 DEF StoreToken, TypeOK
  <2> QED BY <2>2, <2>3, <2>4 DEF CustodyInv, At, User, TokenSteps
<1>5. ASSUME NEW q \in Requests, GetToken(q) \/ ReadSecret(q) PROVE CustodyInv'
  <2>1. User(q) \in Users
    BY <1>5, Holds DEF GetToken, ReadSecret, At
  <2>2. /\ \A r \in Requests \ {q} : req'[r] = req[r]
        /\ UNCHANGED <<token, minted, live>>
    BY <1>5 DEF GetToken, ReadSecret, Goto, tables, TypeOK
  <2>3. req'[q].pc \in TokenSteps =>
          /\ token[User(q)] # Null /\ req'[q].pc # "forget"
          /\ req'[q].token = token[User(q)] /\ req'[q].user = User(q)
    BY <1>5 DEF GetToken, ReadSecret, Goto, Idle, TokenSteps, TypeOK
  <2> QED BY <2>1, <2>2, <2>3 DEF CustodyInv, At, User, TokenSteps
<1>6. ASSUME NEW q \in Requests, AkahuRevoke(q) PROVE CustodyInv'
  <2>1. /\ \A r \in Requests \ {q} : req'[r] = req[r]
        /\ UNCHANGED <<token, minted>> /\ live' \subseteq live
    BY <1>6 DEF AkahuRevoke, Goto, tables, TypeOK
  <2>2. req'[q].pc \in TokenSteps =>
          /\ req'[q].token = req[q].token /\ req'[q].user = req[q].user
          /\ req[q].token \notin live'
    BY <1>6 DEF AkahuRevoke, Goto, TokenSteps, TypeOK, User
  <2>3. req[q].pc \in TokenSteps
    BY <1>6 DEF AkahuRevoke, At, TokenSteps
  <2> QED BY <2>1, <2>2, <2>3 DEF CustodyInv, At, User, TokenSteps
<1>7. ASSUME NEW q \in Requests, ForgetToken(q) PROVE CustodyInv'
  <2>1. /\ \A r \in Requests \ {q} : req'[r] = req[r]
        /\ req'[q].pc = "closeAll"
        /\ UNCHANGED <<minted, live>>
    BY <1>7 DEF ForgetToken, Goto, TypeOK
  <2>2. \A u \in Users : token'[u] = token[u] \/ token'[u] = Null
    BY <1>7 DEF ForgetToken, TypeOK
  <2> QED BY <2>1, <2>2 DEF CustodyInv, At, User, TokenSteps
<1>8. ASSUME NEW q \in Requests, Arrive(q) \/ Advance(q) \/ Fail(q) PROVE CustodyInv'
  BY <1>2, <1>3, <1>4, <1>5, <1>6, <1>7, <1>8, TokenlessSteps
<1>9. ASSUME EntitlementStep PROVE CustodyInv'
  BY <1>1, <1>9 DEF EntitlementStep, GainEntitlement, LoseEntitlement, tables
<1>10. ASSUME NEW st \in AuthStates, ExpireState(st) PROVE CustodyInv'
  BY <1>1, <1>10 DEF ExpireState, tables
<1>11. CASE UNCHANGED vars
  BY <1>1, <1>11 DEF vars, tables
<1> QED BY <1>8, <1>9, <1>10, <1>11 DEF Next, EntitlementStep

(* A live token leaves its row only as LiveTokenKept allows: storing       *)
(* replaces it, and forgetting follows a confirmed revocation.             *)
LEMMA KeptStep ==
  ASSUME TypeOK, CustodyInv, [Next]_vars, NEW u \in Users,
         token[u] \in live, token'[u] # token[u]
  PROVE  \/ token'[u] # Null
         \/ \E q \in Requests :
              At(q, "forget") /\ User(q) = u /\ req[q].token # token[u]
<1>1. ASSUME NEW q \in Requests, Arrive(q) \/ Advance(q) \/ Fail(q)
      PROVE  StoreToken(q) \/ ForgetToken(q)
  BY <1>1, TokenlessSteps
    DEF ExchangeCode, GetToken, ReadSecret, AkahuRevoke, Tokenless, tables
<1>2. ASSUME NEW q \in Requests, StoreToken(q) PROVE token'[u] # Null
  <2>1. User(q) \in Users /\ req[q].token \in Tokens
    BY <1>2, Holds DEF StoreToken, At, TokenSteps
  <2>2. token'[u] = token[u] \/ token'[u] = req[q].token
    BY <1>2, <2>1 DEF StoreToken, TypeOK
  <2> QED BY <2>1, <2>2, BankNullAssumption
<1>3. ASSUME NEW q \in Requests, ForgetToken(q)
      PROVE  At(q, "forget") /\ User(q) = u /\ req[q].token # token[u]
  <2>1. At(q, "forget") /\ User(q) = u
    BY <1>3 DEF ForgetToken, TypeOK
  <2> QED BY <2>1 DEF CustodyInv
<1>4. CASE \E q \in Requests : Arrive(q) \/ Advance(q) \/ Fail(q)
  BY <1>1, <1>2, <1>3, <1>4
<1> QED
  BY <1>4 DEF Next, vars, tables, GainEntitlement, LoseEntitlement, ExpireState

(* The token in a row was bought with a state issued to the row's user.    *)
THEOREM OwnToken == Spec => []TokenIsOwn
<1>1. Init => TypeOK /\ GrantInv /\ CustodyInv
  BY InitTypeOK, InitGrantInv, InitCustodyInv
<1>2. TypeOK /\ GrantInv /\ CustodyInv /\ [Next]_vars => TypeOK' /\ GrantInv' /\ CustodyInv'
  BY NextTypeOK, NextGrantInv, NextCustodyInv
<1>3. TypeOK /\ GrantInv /\ CustodyInv => TokenIsOwn
  BY DEF GrantInv, CustodyInv, TokenIsOwn, TypeOK
<1> QED BY <1>1, <1>2, <1>3, PTL DEF Spec

(* A token that Akahu still honours leaves its row only for a newer one,   *)
(* or to a revocation that had read another: never because Akahu failed.   *)
THEOREM Kept == Spec => LiveTokenKept
<1>1. Init => TypeOK /\ CustodyInv
  BY InitTypeOK, InitCustodyInv
<1>2. TypeOK /\ CustodyInv /\ [Next]_vars => TypeOK' /\ CustodyInv'
  BY NextTypeOK, NextCustodyInv
<1>3. TypeOK /\ CustodyInv /\ [Next]_vars =>
        [\A u \in Users :
           token[u] \in live \cap live' /\ token'[u] # token[u] =>
             \/ token'[u] # Null
             \/ \E q \in Requests :
                  At(q, "forget") /\ User(q) = u /\ req[q].token # token[u]]_vars
  BY KeptStep
<1> QED BY <1>1, <1>2, <1>3, PTL DEF Spec, LiveTokenKept
-----------------------------------------------------------------------------
(* The reasons for a disconnection                                         *)

(* A request that is about to disconnect something carries its reason.     *)
Reason(q) ==
  /\ req[q].pc \in RevokeSteps => User(q) \in ended
  /\ req[q].pc \in ReportSteps => Accts \ req[q].report \subseteq excused[User(q)]
  /\ req[q].pc \in BankSteps =>
       /\ req[q].bank \in excused[User(q)]
       /\ \A a \in Accts : Bank[a] = req[q].bank => a \in excused[User(q)]

(* What is gone had a reason, the end of entitlement is a reason for       *)
(* everything, and the requests in flight carry theirs.                    *)
ReasonInv ==
  /\ GoneForAReason
  /\ \A u \in ended : Accts \cup Banks \subseteq excused[u]
  /\ \A q \in Requests : Reason(q)

(* Nothing is gone at the start.                                           *)
LEMMA InitReasonInv == Init => ReasonInv
BY DEF Init, ReasonInv, GoneForAReason, Reason, Idle, RevokeSteps, ReportSteps, BankSteps

(* A reason stays one.                                                     *)
LEMMA ReasonsStay ==
  ASSUME TypeOK, [Next]_vars
  PROVE  /\ ended \subseteq ended'
         /\ \A u \in Users : excused[u] \subseteq excused'[u]
<1>1. ASSUME NEW q \in Requests, Arrive(q)
      PROVE  ended' = ended /\ \A u \in Users : excused[u] \subseteq excused'[u]
  <2>1. ASSUME NEW u \in Users, NEW b \in Banks, Delete(q, u, b)
        PROVE  ended' = ended /\ \A v \in Users : excused[v] \subseteq excused'[v]
    BY <2>1 DEF Delete, Enter, TypeOK
  <2>2. ASSUME NEW u \in Users,
               \/ Authorise(q, u) \/ Sync(q, u) \/ Revoke(q, u)
               \/ \E st \in AuthStates : Callback(q, u, st)
        PROVE  ended' = ended /\ excused' = excused
    BY <2>2 DEF Authorise, Sync, Revoke, Callback, Enter
  <2> QED BY <1>1, <2>1, <2>2 DEF Arrive
<1>2. ASSUME NEW q \in Requests, Advance(q)
      PROVE  ended' = ended /\ \A u \in Users : excused[u] \subseteq excused'[u]
  <2>1. CASE ListAccounts(q)
    BY <2>1 DEF ListAccounts, TypeOK
  <2>2. CASE ~ListAccounts(q)
    BY <1>2, <2>2 DEF Advance, CountConnections, IssueState, ConsumeState, ExchangeCode,
      StoreToken, GetToken, UpsertConnection, UpsertAccount, MarkAccountsMissing,
      DisconnectConnection, DisconnectItsAccounts, ReadSecret, AkahuRevoke,
      ForgetToken, MarkConnections, MarkAccounts
  <2> QED BY <2>1, <2>2
<1>3. ASSUME NEW q \in Requests, Fail(q) PROVE UNCHANGED <<ended, excused>>
  BY <1>3 DEF Fail
<1>4. ASSUME EntitlementStep
      PROVE  ended \subseteq ended' /\ \A v \in Users : excused[v] \subseteq excused'[v]
  BY <1>4 DEF EntitlementStep, GainEntitlement, LoseEntitlement, TypeOK
<1>5. ASSUME NEW st \in AuthStates, ExpireState(st) PROVE UNCHANGED <<ended, excused>>
  BY <1>5 DEF ExpireState
<1>6. CASE UNCHANGED vars
  BY <1>6 DEF vars
<1> QED BY <1>1, <1>2, <1>3, <1>4, <1>5, <1>6 DEF Next, EntitlementStep

(* The step of a request leaves it with the reason its next step needs.    *)
LEMMA ReasonAtHand ==
  ASSUME TypeOK, ReasonInv, NEW q \in Requests, Arrive(q) \/ Advance(q) \/ Fail(q)
  PROVE  Reason(q)'
<1> DEFINE Steps == RevokeSteps \cup ReportSteps \cup BankSteps
<1>0. ASSUME NEW next, Goto(q, next) PROVE req'[q] = next
  BY <1>0 DEF Goto, TypeOK
<1>1. ASSUME req'[q].pc \notin Steps PROVE Reason(q)'
  BY <1>1 DEF Reason
<1>2. CASE Arrive(q)
  <2>1. ASSUME NEW u \in Users, Authorise(q, u) \/ Sync(q, u) PROVE Reason(q)'
    BY <1>0, <1>1, <2>1
      DEF Authorise, Sync, Enter, RevokeSteps, ReportSteps, BankSteps
  <2>2. ASSUME NEW u \in Users, NEW st \in AuthStates, Callback(q, u, st) PROVE Reason(q)'
    BY <1>0, <1>1, <2>2 DEF Callback, Enter, RevokeSteps, ReportSteps, BankSteps
  <2>3. ASSUME NEW u \in Users, NEW b \in Banks, Delete(q, u, b) PROVE Reason(q)'
    <3>1. req'[q] = [pc |-> "closeBank", user |-> u, bank |-> b]
      BY <1>0, <2>3 DEF Delete, Enter
    <3>2. /\ b \in excused'[u]
          /\ \A a \in Accts : Bank[a] = b => a \in excused'[u]
      BY <2>3 DEF Delete, TypeOK
    <3> QED BY <3>1, <3>2 DEF Reason, User, RevokeSteps, ReportSteps
  <2>4. ASSUME NEW u \in Users, Revoke(q, u) PROVE Reason(q)'
    BY <1>0, <2>4 DEF Revoke, Reason, User, RevokeSteps, ReportSteps, BankSteps
  <2> QED BY <1>2, <2>1, <2>2, <2>3, <2>4 DEF Arrive
<1>3. CASE Fail(q)
  BY <1>0, <1>1, <1>3 DEF Fail, Idle, RevokeSteps, ReportSteps, BankSteps
<1>4. CASE \/ CountConnections(q) \/ IssueState(q) \/ ConsumeState(q) \/ StoreToken(q)
           \/ GetToken(q) \/ MarkAccountsMissing(q) \/ DisconnectItsAccounts(q)
           \/ MarkAccounts(q)
  BY <1>0, <1>1, <1>4
    DEF CountConnections, IssueState, ConsumeState, StoreToken, GetToken,
      MarkAccountsMissing, DisconnectItsAccounts, MarkAccounts, Idle,
      RevokeSteps, ReportSteps, BankSteps
<1>5. CASE ExchangeCode(q)
  BY <1>0, <1>1, <1>5 DEF ExchangeCode, RevokeSteps, ReportSteps, BankSteps
<1>6. CASE ListAccounts(q)
  <2>1. User(q) \in Users
    BY <1>6, Holds DEF ListAccounts, At
  <2>2. CASE Goto(q, Idle)
    BY <1>0, <1>1, <2>2 DEF Idle, RevokeSteps, ReportSteps, BankSteps
  <2>3. ASSUME NEW report \in SUBSET Accts, report # {},
               Goto(q, [pc |-> "banks", user |-> User(q), report |-> report,
                        left |-> {Bank[a] : a \in report}]),
               excused' = [excused EXCEPT ![User(q)] = @ \cup Omitted(report)]
        PROVE  Reason(q)'
    <3>1. Accts \ report \subseteq excused'[User(q)]
      BY <2>1, <2>3 DEF TypeOK, Omitted
    <3>2. /\ req'[q].pc = "banks" /\ req'[q].report = report
          /\ req'[q].user = User(q)
      BY <1>0, <2>3
    <3> QED BY <3>1, <3>2 DEF Reason, User, RevokeSteps, BankSteps
  <2> QED BY <1>6, <2>2, <2>3 DEF ListAccounts
<1>7. CASE UpsertConnection(q) \/ UpsertAccount(q)
  <2>1. Accts \ req[q].report \subseteq excused[User(q)]
    BY <1>7 DEF UpsertConnection, UpsertAccount, At, ReasonInv, Reason, ReportSteps
  <2>2. /\ req'[q].pc \in ReportSteps
        /\ req'[q].report = req[q].report /\ req'[q].user = req[q].user
        /\ excused' = excused
    BY <1>7, Moves DEF UpsertConnection, UpsertAccount, ReportSteps
  <2> QED BY <2>1, <2>2 DEF Reason, User, RevokeSteps, ReportSteps, BankSteps
<1>8. CASE DisconnectConnection(q)
  <2>1. /\ req[q].bank \in excused[User(q)]
        /\ \A a \in Accts : Bank[a] = req[q].bank => a \in excused[User(q)]
    BY <1>8 DEF DisconnectConnection, At, ReasonInv, Reason, BankSteps
  <2>2. /\ req'[q].pc = "closeBankAccounts"
        /\ req'[q].bank = req[q].bank /\ req'[q].user = req[q].user
        /\ excused' = excused
    BY <1>8, Moves DEF DisconnectConnection
  <2> QED BY <2>1, <2>2 DEF Reason, User, RevokeSteps, ReportSteps
<1>9. CASE ReadSecret(q) \/ AkahuRevoke(q) \/ ForgetToken(q) \/ MarkConnections(q)
  <2>1. User(q) \in ended
    BY <1>9 DEF ReadSecret, AkahuRevoke, ForgetToken, MarkConnections, At,
      ReasonInv, Reason, RevokeSteps
  <2>2. /\ req'[q].pc \in RevokeSteps /\ req'[q].user = req[q].user
        /\ ended' = ended
    BY <1>0, <1>9, Moves
      DEF ReadSecret, AkahuRevoke, ForgetToken, MarkConnections, User, RevokeSteps
  <2> QED BY <2>1, <2>2 DEF Reason, User, RevokeSteps, ReportSteps, BankSteps
<1> QED
  BY <1>2, <1>3, <1>4, <1>5, <1>6, <1>7, <1>8, <1>9 DEF Advance

(* A request marks as gone only what it carries a reason for.              *)
LEMMA GoneNow ==
  ASSUME TypeOK, ReasonInv, [Next]_vars, NEW u \in Users
  PROVE  /\ \A b \in Banks : conn'[u][b] = "gone" => conn[u][b] = "gone" \/ b \in excused[u]
         /\ \A a \in Accts : acct'[u][a] = "gone" => acct[u][a] = "gone" \/ a \in excused[u]
<1> DEFINE Goal ==
      /\ \A b \in Banks : conn'[u][b] = "gone" => conn[u][b] = "gone" \/ b \in excused[u]
      /\ \A a \in Accts : acct'[u][a] = "gone" => acct[u][a] = "gone" \/ a \in excused[u]
<1>1. CASE UNCHANGED <<conn, acct>>
  BY <1>1
<1>2. ASSUME NEW q \in Requests, UpsertConnection(q) PROVE Goal
  <2>1. PICK b \in req[q].left : conn' = [conn EXCEPT ![User(q)][b] = "live"]
    BY <1>2 DEF UpsertConnection
  <2>2. acct' = acct
    BY <1>2 DEF UpsertConnection
  <2> QED BY <2>1, <2>2 DEF TypeOK
<1>3. ASSUME NEW q \in Requests, UpsertAccount(q) PROVE Goal
  <2>1. PICK a \in req[q].left : acct' = [acct EXCEPT ![User(q)][a] = "live"]
    BY <1>3 DEF UpsertAccount
  <2>2. conn' = conn
    BY <1>3 DEF UpsertAccount
  <2> QED BY <2>1, <2>2 DEF TypeOK
<1>4. ASSUME NEW q \in Requests, NEW B, B \cap Banks \subseteq excused[User(q)],
             conn' = [conn EXCEPT ![User(q)] = Disconnected(@, B)], acct' = acct
      PROVE  Goal
  BY <1>4 DEF Disconnected, TypeOK
<1>5. ASSUME NEW q \in Requests, NEW A, A \cap Accts \subseteq excused[User(q)],
             acct' = [acct EXCEPT ![User(q)] = Disconnected(@, A)], conn' = conn
      PROVE  Goal
  BY <1>5 DEF Disconnected, TypeOK
<1>6. ASSUME NEW q \in Requests, MarkAccountsMissing(q) PROVE Goal
  <2>1. Accts \ req[q].report \subseteq excused[User(q)]
    BY <1>6 DEF MarkAccountsMissing, At, ReasonInv, Reason, ReportSteps
  <2> QED BY <1>5, <1>6, <2>1 DEF MarkAccountsMissing
<1>7. ASSUME NEW q \in Requests, DisconnectConnection(q) PROVE Goal
  <2>1. req[q].bank \in excused[User(q)]
    BY <1>7 DEF DisconnectConnection, At, ReasonInv, Reason, BankSteps
  <2>2. {req[q].bank} \cap Banks \subseteq excused[User(q)]
    BY <2>1
  <2>3. /\ conn' = [conn EXCEPT ![User(q)] = Disconnected(@, {req[q].bank})]
        /\ acct' = acct
    BY <1>7 DEF DisconnectConnection
  <2> QED BY <1>4, <2>2, <2>3
<1>8. ASSUME NEW q \in Requests, DisconnectItsAccounts(q) PROVE Goal
  <2>1. {a \in Accts : Bank[a] = req[q].bank} \subseteq excused[User(q)]
    BY <1>8 DEF DisconnectItsAccounts, At, ReasonInv, Reason, BankSteps
  <2> QED BY <1>5, <1>8, <2>1 DEF DisconnectItsAccounts
<1>9. ASSUME NEW q \in Requests, MarkConnections(q) \/ MarkAccounts(q) PROVE Goal
  <2>1. Accts \cup Banks \subseteq excused[User(q)]
    BY <1>9 DEF MarkConnections, MarkAccounts, At, ReasonInv, Reason, RevokeSteps
  <2>2. CASE MarkConnections(q)
    BY <1>4, <2>1, <2>2 DEF MarkConnections
  <2>3. CASE MarkAccounts(q)
    BY <1>5, <2>1, <2>3 DEF MarkAccounts
  <2> QED BY <1>9, <2>2, <2>3
<1>10. ASSUME NEW q \in Requests, Advance(q) PROVE Goal
  <2>1. CASE \/ CountConnections(q) \/ IssueState(q) \/ ConsumeState(q) \/ ExchangeCode(q)
             \/ StoreToken(q) \/ GetToken(q) \/ ListAccounts(q) \/ ReadSecret(q)
             \/ AkahuRevoke(q) \/ ForgetToken(q)
    BY <1>1, <2>1 DEF CountConnections, IssueState, ConsumeState, ExchangeCode, StoreToken,
      GetToken, ListAccounts, ReadSecret, AkahuRevoke, ForgetToken, tables
  <2> QED BY <1>2, <1>3, <1>6, <1>7, <1>8, <1>9, <1>10, <2>1 DEF Advance
<1>11. ASSUME NEW q \in Requests, Arrive(q) \/ Fail(q) PROVE Goal
  BY <1>1, <1>11 DEF Arrive, Fail, Authorise, Sync, Callback, Delete, Revoke, Enter, tables
<1>12. ASSUME EntitlementStep PROVE Goal
  BY <1>1, <1>12 DEF EntitlementStep, GainEntitlement, LoseEntitlement, tables
<1>13. ASSUME NEW st \in AuthStates, ExpireState(st) PROVE Goal
  BY <1>1, <1>13 DEF ExpireState, tables
<1>14. CASE UNCHANGED vars
  BY <1>1, <1>14 DEF vars, tables
<1> QED BY <1>10, <1>11, <1>12, <1>13, <1>14 DEF Next, EntitlementStep

(* Every step keeps the reasons.                                           *)
LEMMA NextReasonInv ==
  ASSUME TypeOK, ReasonInv, [Next]_vars
  PROVE  ReasonInv'
<1>1. GoneForAReason'
  BY GoneNow, ReasonsStay DEF ReasonInv, GoneForAReason
<1>2. \A u \in ended' : Accts \cup Banks \subseteq excused'[u]
  <2>1. ASSUME NEW who \in SUBSET Users, LoseEntitlement(who)
        PROVE  \A u \in ended' : Accts \cup Banks \subseteq excused'[u]
    BY <2>1 DEF LoseEntitlement, ReasonInv, TypeOK
  <2>2. CASE ended' = ended
    BY <2>2, ReasonsStay DEF ReasonInv, TypeOK
  <2>3. ended' = ended \/ \E who \in SUBSET Users : LoseEntitlement(who)
    <3>1. ASSUME NEW q \in Requests, Arrive(q) \/ Fail(q) PROVE ended' = ended
      BY <3>1 DEF Arrive, Fail, Authorise, Sync, Callback, Delete, Revoke, Enter
    <3>2. ASSUME NEW q \in Requests, Advance(q) PROVE ended' = ended
      BY <3>2 DEF Advance, CountConnections, IssueState, ConsumeState, ExchangeCode,
        StoreToken, GetToken, ListAccounts, UpsertConnection, UpsertAccount,
        MarkAccountsMissing, DisconnectConnection, DisconnectItsAccounts, ReadSecret,
        AkahuRevoke, ForgetToken, MarkConnections, MarkAccounts
    <3> QED BY <3>1, <3>2 DEF Next, GainEntitlement, ExpireState, vars
  <2> QED BY <2>1, <2>2, <2>3
<1>3. ASSUME NEW r \in Requests, req'[r] = req[r] PROVE Reason(r)'
  <2>1. Reason(r) /\ (req[r] # Idle => User(r) \in Users)
    BY Holds DEF ReasonInv
  <2>2. req[r].pc \in RevokeSteps \cup ReportSteps \cup BankSteps => req[r] # Idle
    BY DEF Idle, RevokeSteps, ReportSteps, BankSteps
  <2> QED BY <1>3, <2>1, <2>2, ReasonsStay DEF Reason, User
<1>4. ASSUME NEW q \in Requests, Arrive(q) \/ Advance(q) \/ Fail(q), NEW r \in Requests
      PROVE  Reason(r)'
  <2>1. CASE r = q
    <3>1. Reason(q)'
      BY <1>4, ReasonAtHand
    <3> QED BY <2>1, <3>1
  <2>2. CASE r # q
    <3>1. req'[r] = req[r]
      BY <1>4, <2>2, Alone
    <3> QED BY <1>3, <3>1
  <2> QED BY <2>1, <2>2
<1>5. ASSUME UNCHANGED req, NEW r \in Requests PROVE Reason(r)'
  BY <1>3, <1>5
<1>6. \/ \E q \in Requests : Arrive(q) \/ Advance(q) \/ Fail(q)
      \/ UNCHANGED req
  BY DEF Next, GainEntitlement, LoseEntitlement, ExpireState, vars
<1>7. \A r \in Requests : Reason(r)'
  BY <1>4, <1>5, <1>6
<1> QED BY <1>1, <1>2, <1>7 DEF ReasonInv

(* A bank or an account is marked disconnected only for a user who removed *)
(* it, whose entitlement ended, or whom Akahu answered without it.         *)
THEOREM Excused == Spec => []GoneForAReason
<1>1. Init => TypeOK /\ ReasonInv
  BY InitTypeOK, InitReasonInv
<1>2. TypeOK /\ ReasonInv /\ [Next]_vars => TypeOK' /\ ReasonInv'
  BY NextTypeOK, NextReasonInv
<1>3. ReasonInv => GoneForAReason
  BY DEF ReasonInv
<1> QED BY <1>1, <1>2, <1>3, PTL DEF Spec
=============================================================================
