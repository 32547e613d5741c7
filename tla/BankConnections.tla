-------------------------- MODULE BankConnections ---------------------------
(***************************************************************************)
(* The Akahu connection lifecycle, from src/modules/bank-connections: the  *)
(* authorisation state, the custody of the user's token, the projection of *)
(* connections and accounts, and the revocation that billing triggers.     *)
(*                                                                         *)
(* A request takes one step per awaited call, to Postgres or to Akahu, and *)
(* any of them may be rejected: the request then ends, and what it wrote   *)
(* before stays written.  The tables are keyed by user, and a report names *)
(* accounts by Akahu's id; names, logos, types and dates are left out.     *)
(*                                                                         *)
(* Whether a user is entitled is the billing module's business: here it    *)
(* comes and goes freely, and from the moment it was first lost a          *)
(* notification handler may call the revoker, at any time and repeatedly.  *)
(***************************************************************************)
EXTENDS Integers, FiniteSets

CONSTANTS
  Users,          \* accounts of this server
  Accts,          \* bank accounts, by Akahu's account id
  Bank,           \* the connection (institution) each of them hangs off
  AuthStates,     \* the random states this instance may issue
  Tokens,         \* the access tokens Akahu may hand out
  Requests,       \* requests in flight at a time, revocations included
  MaxConnections, \* plan.maxConnections
  Failures,       \* the steps at which a request may be rejected
  Null

ASSUME LimitAssumption == MaxConnections \in Nat
ASSUME BankNullAssumption ==
  Null \notin Users \cup Tokens \cup [state : AuthStates, user : Users]

VARIABLES
  entitled,       \* the users the requireSubscription gate lets through
  ended,          \* the users whose entitlement has ever ended
  states,         \* akahu_auth_states
  token,          \* akahu_tokens: user -> token or Null
  conn,           \* akahu_connections: user -> bank -> status
  acct,           \* accounts: user -> account -> status
  req,            \* the requests in flight
  live,           \* Akahu: the tokens it honours and bills for
  minted,         \* Akahu and history: token -> the exchange that bought it
  excused         \* history: what there was a reason to mark disconnected

tables == <<token, conn, acct>>
vars == <<entitled, ended, states, token, conn, acct, req, live, minted, excused>>

Banks == {Bank[a] : a \in Accts}
BankStatus == {"absent", "live", "gone"}  \* no row, disconnected_at null, or set

Idle == [pc |-> "idle"]

Init ==
  /\ entitled \in SUBSET Users /\ ended = {}
  /\ states = [st \in AuthStates |-> [phase |-> "unissued", user |-> Null]]
  /\ token = [u \in Users |-> Null]
  /\ conn = [u \in Users |-> [b \in Banks |-> "absent"]]
  /\ acct = [u \in Users |-> [a \in Accts |-> "absent"]]
  /\ req = [q \in Requests |-> Idle]
  /\ live = {} /\ minted = [t \in Tokens |-> Null]
  /\ excused = [u \in Users |-> {}]

At(q, pc) == req[q].pc = pc
Goto(q, next) == req' = [req EXCEPT ![q] = next]
User(q) == req[q].user

-----------------------------------------------------------------------------
(* Entitlement, and time                                                   *)

GainEntitlement(u) ==
  /\ u \notin entitled
  /\ entitled' = entitled \cup {u}
  /\ UNCHANGED <<ended, states, tables, req, live, minted, excused>>

(* A clock tick ends the term of several users at once; a notification may *)
(* end an entitlement that had lapsed already.                             *)
LoseEntitlement(who) ==
  /\ entitled' = entitled \ who
  /\ ended' = ended \cup who
  /\ excused' = [u \in Users |-> IF u \in who THEN Accts \cup Banks ELSE excused[u]]
  /\ UNCHANGED <<states, tables, req, live, minted>>

(* Fifteen minutes pass before the state is consumed.                      *)
ExpireState(st) ==
  /\ states[st].phase = "pending"
  /\ states' = [states EXCEPT ![st].phase = "expired"]
  /\ UNCHANGED <<entitled, ended, tables, req, live, minted, excused>>

-----------------------------------------------------------------------------
(* The routes: both hooks have run, and the handler makes its first call.  *)

Enter(q, u, first) ==
  /\ req[q] = Idle
  /\ u \in entitled
  /\ Goto(q, first)
  /\ UNCHANGED <<entitled, ended, states, tables, live, minted>>

Authorise(q, u) ==
  /\ Enter(q, u, [pc |-> "count", user |-> u])
  /\ UNCHANGED excused

(* A callback may carry any state that was ever issued, to whomever.       *)
Callback(q, u, st) ==
  /\ states[st].phase # "unissued"
  /\ Enter(q, u, [pc |-> "consume", user |-> u, state |-> st])
  /\ UNCHANGED excused

Sync(q, u) ==
  /\ Enter(q, u, [pc |-> "token", user |-> u])
  /\ UNCHANGED excused

(* DELETE /:id finds the row, disconnected or not, or answers 404.  No row *)
(* is ever removed, so what the find returns still holds at the next call. *)
Delete(q, u, b) ==
  /\ conn[u][b] # "absent"
  /\ Enter(q, u, [pc |-> "closeBank", user |-> u, bank |-> b])
  /\ excused' = [excused EXCEPT ![u] =
       @ \cup {b} \cup {a \in Accts : Bank[a] = b}]

(* The revoker, called by a notification handler that ended entitlement.   *)
Revoke(q, u) ==
  /\ req[q] = Idle
  /\ u \in ended
  /\ Goto(q, [pc |-> "secret", user |-> u])
  /\ UNCHANGED <<entitled, ended, states, tables, live, minted, excused>>

(* An awaited call is rejected.                                            *)
Fail(q) ==
  /\ req[q].pc \in Failures
  /\ Goto(q, Idle)
  /\ UNCHANGED <<entitled, ended, states, tables, live, minted, excused>>

-----------------------------------------------------------------------------
(* startAuthorisation                                                      *)

ActiveConnections(u) == {b \in Banks : conn[u][b] = "live"}

CountConnections(q) ==
  /\ At(q, "count")
  /\ Goto(q, IF Cardinality(ActiveConnections(User(q))) >= MaxConnections
             THEN Idle
             ELSE [pc |-> "issue", user |-> User(q)])
  /\ UNCHANGED <<entitled, ended, states, tables, live, minted, excused>>

(* A fresh state every time: 256 random bits do not repeat.                *)
IssueState(q) ==
  /\ At(q, "issue")
  /\ \E st \in AuthStates :
       /\ states[st].phase = "unissued"
       /\ states' = [states EXCEPT ![st] = [phase |-> "pending", user |-> User(q)]]
  /\ Goto(q, Idle)
  /\ UNCHANGED <<entitled, ended, tables, live, minted, excused>>

-----------------------------------------------------------------------------
(* completeAuthorisation                                                   *)

(* The conditional update: of two redirects with one state, one finds it   *)
(* pending.                                                                *)
Consume(st) ==
  states' = [states EXCEPT ![st].phase = IF @ = "pending" THEN "consumed" ELSE @]

(* mutation: a consumed state is accepted again                            *)
ConsumeState_NotConditional(q) ==
  /\ At(q, "consume")
  /\ LET st == req[q].state IN
       /\ Consume(st)
       /\ Goto(q, IF states[st].phase \in {"pending", "consumed"} /\ states[st].user = User(q)
                  THEN [pc |-> "exchange", user |-> User(q), state |-> st]
                  ELSE Idle)
  /\ UNCHANGED <<entitled, ended, tables, live, minted, excused>>

(* mutation: the state alone decides, whoever presents it                  *)
ConsumeState_AnyCaller(q) ==
  /\ At(q, "consume")
  /\ LET st == req[q].state IN
       /\ Consume(st)
       /\ Goto(q, IF states[st].phase = "pending"
                  THEN [pc |-> "exchange", user |-> User(q), state |-> st]
                  ELSE Idle)
  /\ UNCHANGED <<entitled, ended, tables, live, minted, excused>>

(* The update, then the comparison with the caller: a state presented by   *)
(* somebody else is refused, and used up all the same.                     *)
ConsumeState(q) ==
  /\ At(q, "consume")
  /\ LET st == req[q].state IN
       /\ Consume(st)
       /\ Goto(q, IF states[st].phase = "pending" /\ states[st].user = User(q)
                  THEN [pc |-> "exchange", user |-> User(q), state |-> st]
                  ELSE Idle)
  /\ UNCHANGED <<entitled, ended, tables, live, minted, excused>>

(* Akahu hands out a token, live from now on whatever becomes of it here.  *)
ExchangeCode(q) ==
  /\ At(q, "exchange")
  /\ \E t \in Tokens :
       /\ minted[t] = Null
       /\ minted' = [minted EXCEPT ![t] = [state |-> req[q].state, user |-> User(q)]]
       /\ live' = live \cup {t}
       /\ Goto(q, [pc |-> "store", user |-> User(q), token |-> t])
  /\ UNCHANGED <<entitled, ended, states, tables, excused>>

(* Upsert on user_id: an earlier token of the user is overwritten.         *)
StoreToken(q) ==
  /\ At(q, "store")
  /\ token' = [token EXCEPT ![User(q)] = req[q].token]
  /\ Goto(q, [pc |-> "list", user |-> User(q), token |-> req[q].token])
  /\ UNCHANGED <<entitled, ended, states, conn, acct, live, minted, excused>>

-----------------------------------------------------------------------------
(* resync, and AccountSync.sync, which completeAuthorisation ends with too *)

(* mutation: no 404 for a user who never connected                         *)
GetToken_NoNullCheck(q) ==
  /\ At(q, "token")
  /\ Goto(q, [pc |-> "list", user |-> User(q), token |-> token[User(q)]])
  /\ UNCHANGED <<entitled, ended, states, tables, live, minted, excused>>

GetToken(q) ==
  /\ At(q, "token")
  /\ Goto(q, IF token[User(q)] = Null
             THEN Idle
             ELSE [pc |-> "list", user |-> User(q), token |-> token[User(q)]])
  /\ UNCHANGED <<entitled, ended, states, tables, live, minted, excused>>

Omitted(report) == IF report = {} THEN {} ELSE Accts \ report

(* mutation: no accounts at all is taken as a full disconnection           *)
ListAccounts_TrustEmpty(q) ==
  /\ At(q, "list")
  /\ \/ /\ req[q].token \notin live
        /\ Goto(q, Idle)
        /\ UNCHANGED excused
     \/ /\ req[q].token \in live
        /\ \E report \in SUBSET Accts :
             /\ Goto(q, IF report = {}
                        THEN [pc |-> "missing", user |-> User(q), report |-> report]
                        ELSE [pc |-> "banks", user |-> User(q), report |-> report,
                              left |-> {Bank[a] : a \in report}])
             /\ excused' = [excused EXCEPT ![User(q)] = @ \cup Omitted(report)]
  /\ UNCHANGED <<entitled, ended, states, tables, live, minted>>

(* Akahu reports what it likes for a token it honours.  An empty report    *)
(* ends the request with the projection untouched.                         *)
ListAccounts(q) ==
  /\ At(q, "list")
  /\ \/ /\ req[q].token \notin live
        /\ Goto(q, Idle)
        /\ UNCHANGED excused
     \/ /\ req[q].token \in live
        /\ \E report \in SUBSET Accts :
             /\ Goto(q, IF report = {}
                        THEN Idle
                        ELSE [pc |-> "banks", user |-> User(q), report |-> report,
                              left |-> {Bank[a] : a \in report}])
             /\ excused' = [excused EXCEPT ![User(q)] = @ \cup Omitted(report)]
  /\ UNCHANGED <<entitled, ended, states, tables, live, minted>>

(* One upsert per institution, in the order of the report, which is any.   *)
UpsertConnection(q) ==
  /\ At(q, "banks")
  /\ \E b \in req[q].left :
       /\ conn' = [conn EXCEPT ![User(q)][b] = "live"]
       /\ Goto(q, IF req[q].left = {b}
                  THEN [pc |-> "accounts", user |-> User(q),
                        report |-> req[q].report, left |-> req[q].report]
                  ELSE [req[q] EXCEPT !.left = @ \ {b}])
  /\ UNCHANGED <<entitled, ended, states, token, acct, live, minted, excused>>

(* mutation: a reappearing account keeps its disconnected_at               *)
UpsertAccount_KeepsMark(q) ==
  /\ At(q, "accounts")
  /\ \E a \in req[q].left :
       /\ acct' = [acct EXCEPT ![User(q)][a] = IF @ = "gone" THEN @ ELSE "live"]
       /\ Goto(q, IF req[q].left = {a}
                  THEN [pc |-> "missing", user |-> User(q), report |-> req[q].report]
                  ELSE [req[q] EXCEPT !.left = @ \ {a}])
  /\ UNCHANGED <<entitled, ended, states, token, conn, live, minted, excused>>

UpsertAccount(q) ==
  /\ At(q, "accounts")
  /\ \E a \in req[q].left :
       /\ acct' = [acct EXCEPT ![User(q)][a] = "live"]
       /\ Goto(q, IF req[q].left = {a}
                  THEN [pc |-> "missing", user |-> User(q), report |-> req[q].report]
                  ELSE [req[q] EXCEPT !.left = @ \ {a}])
  /\ UNCHANGED <<entitled, ended, states, token, conn, live, minted, excused>>

(* The update every disconnection makes: rows that are live become gone.   *)
Disconnected(table, which) ==
  [x \in DOMAIN table |-> IF x \in which /\ table[x] = "live" THEN "gone" ELSE table[x]]

MarkAccountsMissing(q) ==
  /\ At(q, "missing")
  /\ acct' = [acct EXCEPT ![User(q)] = Disconnected(@, Accts \ req[q].report)]
  /\ Goto(q, Idle)
  /\ UNCHANGED <<entitled, ended, states, token, conn, live, minted, excused>>

-----------------------------------------------------------------------------
(* revokeConnection: one bank, without touching the token                  *)

DisconnectConnection(q) ==
  /\ At(q, "closeBank")
  /\ conn' = [conn EXCEPT ![User(q)] = Disconnected(@, {req[q].bank})]
  /\ Goto(q, [req[q] EXCEPT !.pc = "closeBankAccounts"])
  /\ UNCHANGED <<entitled, ended, states, token, acct, live, minted, excused>>

DisconnectItsAccounts(q) ==
  /\ At(q, "closeBankAccounts")
  /\ acct' = [acct EXCEPT ![User(q)] =
       Disconnected(@, {a \in Accts : Bank[a] = req[q].bank})]
  /\ Goto(q, Idle)
  /\ UNCHANGED <<entitled, ended, states, token, conn, live, minted, excused>>

-----------------------------------------------------------------------------
(* AkahuBankAccessRevoker.revoke                                           *)

ReadSecret(q) ==
  /\ At(q, "secret")
  /\ Goto(q, IF token[User(q)] = Null
             THEN [pc |-> "closeAll", user |-> User(q)]
             ELSE [pc |-> "akahu", user |-> User(q), token |-> token[User(q)]])
  /\ UNCHANGED <<entitled, ended, states, tables, live, minted, excused>>

(* mutation: the credential is discarded whatever Akahu answered           *)
AkahuRevoke_DiscardAnyway(q) ==
  /\ At(q, "akahu")
  /\ live' \in {live, live \ {req[q].token}}
  /\ Goto(q, [pc |-> "forget", user |-> User(q), token |-> req[q].token])
  /\ UNCHANGED <<entitled, ended, states, tables, minted, excused>>

(* Akahu revokes the token and says so; or the call fails, before or after *)
(* Akahu acted on it.  A failure is caught: the credential is kept and the *)
(* local rows are still brought to disconnected.                           *)
AkahuRevoke(q) ==
  /\ At(q, "akahu")
  /\ \/ /\ req[q].token \in live
        /\ live' = live \ {req[q].token}
        /\ Goto(q, [pc |-> "forget", user |-> User(q), token |-> req[q].token])
     \/ /\ live' \in {live, live \ {req[q].token}}
        /\ Goto(q, [pc |-> "closeAll", user |-> User(q)])
  /\ UNCHANGED <<entitled, ended, states, tables, minted, excused>>

(* Deletes by user_id: whatever the row holds by now.                      *)
ForgetToken(q) ==
  /\ At(q, "forget")
  /\ token' = [token EXCEPT ![User(q)] = Null]
  /\ Goto(q, [pc |-> "closeAll", user |-> User(q)])
  /\ UNCHANGED <<entitled, ended, states, conn, acct, live, minted, excused>>

MarkConnections(q) ==
  /\ At(q, "closeAll")
  /\ conn' = [conn EXCEPT ![User(q)] = Disconnected(@, Banks)]
  /\ Goto(q, [req[q] EXCEPT !.pc = "closeAllAccounts"])
  /\ UNCHANGED <<entitled, ended, states, token, acct, live, minted, excused>>

MarkAccounts(q) ==
  /\ At(q, "closeAllAccounts")
  /\ acct' = [acct EXCEPT ![User(q)] = Disconnected(@, Accts)]
  /\ Goto(q, Idle)
  /\ UNCHANGED <<entitled, ended, states, token, conn, live, minted, excused>>

-----------------------------------------------------------------------------
(* The system                                                              *)

Advance(q) ==
  \/ CountConnections(q) \/ IssueState(q)
  \/ ConsumeState(q) \/ ExchangeCode(q) \/ StoreToken(q)
  \/ GetToken(q) \/ ListAccounts(q)
  \/ UpsertConnection(q) \/ UpsertAccount(q) \/ MarkAccountsMissing(q)
  \/ DisconnectConnection(q) \/ DisconnectItsAccounts(q)
  \/ ReadSecret(q) \/ AkahuRevoke(q) \/ ForgetToken(q)
  \/ MarkConnections(q) \/ MarkAccounts(q)

Arrive(q) ==
  \E u \in Users :
    \/ Authorise(q, u) \/ Sync(q, u) \/ Revoke(q, u)
    \/ \E st \in AuthStates : Callback(q, u, st)
    \/ \E b \in Banks : Delete(q, u, b)

Next ==
  \/ \E u \in Users : GainEntitlement(u)
  \/ \E who \in SUBSET Users : LoseEntitlement(who)
  \/ \E st \in AuthStates : ExpireState(st)
  \/ \E q \in Requests : Arrive(q) \/ Advance(q) \/ Fail(q)

Spec == Init /\ [][Next]_vars

(* Every awaited call settles: Akahu's carry a timeout, and a request that *)
(* is under way either advances or is rejected.  Nothing obliges anyone to *)
(* send a request, or billing to call the revoker.                         *)
FairSpec == Spec /\ \A q \in Requests : WF_vars(Advance(q) \/ Fail(q))

-----------------------------------------------------------------------------
(* Properties                                                              *)

RequestStates ==
  {Idle}
  \cup [pc : {"count", "issue", "token", "secret", "closeAll", "closeAllAccounts"},
        user : Users]
  \cup [pc : {"consume", "exchange"}, user : Users, state : AuthStates]
  \cup [pc : {"store", "list", "akahu", "forget"}, user : Users, token : Tokens]
  \cup [pc : {"banks"}, user : Users, report : SUBSET Accts, left : SUBSET Banks]
  \cup [pc : {"accounts"}, user : Users, report : SUBSET Accts, left : SUBSET Accts]
  \cup [pc : {"missing"}, user : Users, report : SUBSET Accts]
  \cup [pc : {"closeBank", "closeBankAccounts"}, user : Users, bank : Banks]

(* The type invariant: every variable holds what its table or its request  *)
(* can hold.                                                               *)
TypeOK ==
  /\ entitled \subseteq Users /\ ended \subseteq Users
  /\ states \in [AuthStates -> [phase : {"unissued", "pending", "consumed", "expired"},
                                user : Users \cup {Null}]]
  /\ token \in [Users -> Tokens \cup {Null}]
  /\ conn \in [Users -> [Banks -> BankStatus]]
  /\ acct \in [Users -> [Accts -> BankStatus]]
  /\ req \in [Requests -> RequestStates]
  /\ live \subseteq Tokens
  /\ minted \in [Tokens -> [state : AuthStates, user : Users] \cup {Null}]
  /\ excused \in [Users -> SUBSET (Accts \cup Banks)]

(* A state is a capability: the exchanges it has bought, and the request   *)
(* that has consumed it and is about to exchange a code.                   *)
Exchanges(st) == {t \in Tokens : minted[t] # Null /\ minted[t].state = st}
Exchanging(st) == \E q \in Requests : At(q, "exchange") /\ req[q].state = st

GrantPhase(st) ==
  CASE Exchanges(st) # {} ->
         IF \A t, x \in Exchanges(st) : t = x THEN "spent" ELSE "overspent"
    [] Exchanges(st) = {} /\ (states[st].phase = "pending" \/ Exchanging(st)) -> "granted"
    [] Exchanges(st) = {} /\ states[st].phase = "unissued" /\ ~Exchanging(st) -> "unissued"
    [] OTHER -> "void"

GrantHolder(st) ==
  IF Exchanges(st) = {} THEN states[st].user
  ELSE minted[CHOOSE t \in Exchanges(st) : TRUE].user

Grant == INSTANCE AuthorisationGrant WITH
  States <- AuthStates, Holders <- Users, Nobody <- Null,
  phase <- [st \in AuthStates |-> GrantPhase(st)],
  holder <- [st \in AuthStates |-> GrantHolder(st)]

(* Replayed, racing, expired and stolen callbacks notwithstanding, a state *)
(* buys at most one exchange, and only for the user who started the flow:  *)
(* AkahuStateRepository.consume with the check of completeAuthorisation    *)
(* implements the single-use grant.                                        *)
SingleUse == Grant!Spec

(* The token in a user's row was bought with a state issued to that user:  *)
(* nobody's bank ends up attached to somebody else's account.              *)
TokenIsOwn ==
  \A u \in Users : token[u] # Null =>
    /\ minted[token[u]] # Null
    /\ states[minted[token[u]].state].user = u

(* Custody: a token Akahu still honours, and bills for, leaves its row     *)
(* only when a callback stores another one of the same user over it, or    *)
(* when a revocation deletes by user_id a row written after it read the    *)
(* token.  It never goes because a revocation at Akahu failed.             *)
LiveTokenKept ==
  [][\A u \in Users :
       token[u] \in live \cap live' /\ token'[u] # token[u] =>
         \/ token'[u] # Null
         \/ \E q \in Requests :
              At(q, "forget") /\ User(q) = u /\ req[q].token # token[u]]_vars

(* Nothing is marked disconnected without a reason: the user removed the   *)
(* bank, the user's entitlement ended, or Akahu answered with some of the  *)
(* accounts and not this one.  An empty answer, a failed call or an        *)
(* interrupted sync never disconnects anything.                            *)
GoneForAReason ==
  \A u \in Users :
    /\ \A b \in Banks : conn[u][b] = "gone" => b \in excused[u]
    /\ \A a \in Accts : acct[u][a] = "gone" => a \in excused[u]

(* "A convergence, not an event handler": however the projection came to   *)
(* be what it is, once every sync of a user is told the same accounts, no  *)
(* disconnection is under way, and syncs keep completing, exactly those    *)
(* accounts are live, and so are their banks.                              *)
SettlesOn(u, report) ==
  \A q \in Requests : req[q] # Idle /\ User(q) = u =>
    /\ req[q].pc \in {"banks", "accounts", "missing"} => req[q].report = report
    /\ req[q].pc \notin {"closeBank", "closeBankAccounts", "closeAll", "closeAllAccounts"}

Converges ==
  \A u \in Users : \A report \in SUBSET Accts \ {{}} :
    /\ <>[]SettlesOn(u, report)
    /\ []<><<\E q \in Requests : MarkAccountsMissing(q) /\ User(q) = u>>_vars
    => <>[](/\ \A a \in Accts : acct[u][a] = "live" <=> a \in report
            /\ \A a \in report : conn[u][Bank[a]] = "live")

(* "Call this after revoking with Akahu, never before: once the ciphertext *)
(* is gone [...] the connection stays alive and billable forever": the     *)
(* stored credential is deleted only when Akahu no longer honours it.      *)
ForgetsOnlyRevoked ==
  [][\A u \in Users : token[u] # Null /\ token'[u] = Null => token[u] \notin live]_vars
=============================================================================
