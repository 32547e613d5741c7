------------------------------ MODULE Sessions ------------------------------
(***************************************************************************)
(* The sessions of one account over several devices, as src/modules/auth   *)
(* proxies them to Supabase Auth (GoTrue, external): GoTrue keeps the      *)
(* sessions and mints the tokens, the server relays them and checks access *)
(* tokens by themselves, so it knows their expiry and nothing else.        *)
(*                                                                         *)
(* A handler is two steps, the call at GoTrue and the answer reaching the  *)
(* app, which may be lost: between them anything may happen, a sign-out    *)
(* from another device included.  Asking for a password reset changes no   *)
(* state here, and changing the password leaves the sessions alone.        *)
(***************************************************************************)
EXTENDS Naturals

CONSTANTS
  Clients,   \* the user's devices
  TTL,       \* the lifetime of an access token (supabase/config.toml:172)
  MaxTime,   \* bound: the clock stops here
  NoToken,   \* no pair of tokens
  Never      \* no sign-out

ASSUME TTLAssumption == TTL \in Nat

VARIABLES
  clock,     \* seconds in the tokens, ticks here
  account,   \* what GoTrue knows of the address
  holds,     \* the token pair a device holds, or NoToken
  answer,    \* the pair on its way to a device, or NoToken
  leaving    \* the pair with which a sign-out has passed the hook, or NoToken

sessionVars == <<clock, account, holds, answer, leaving>>

(* A pair of tokens: when the access token expires, whether its session    *)
(* still lives at GoTrue, and as history when the user last signed out,    *)
(* anywhere, since that session began.                                     *)
Pair == [expires : Nat, alive : BOOLEAN, out : Nat \cup {Never}]

ASSUME NoTokenAssumption == NoToken \notin Pair /\ Never \notin Nat

SessionsInit ==
  /\ clock = 0 /\ account = "none"
  /\ holds = [c \in Clients |-> NoToken]
  /\ answer = [c \in Clients |-> NoToken]
  /\ leaving = [c \in Clients |-> NoToken]

(* resolveAuth: the signature and the expiry, with no question to GoTrue.  *)
Verified(pair) == pair # NoToken /\ pair.expires > clock

Tick ==
  /\ clock < MaxTime
  /\ clock' = clock + 1
  /\ UNCHANGED <<account, holds, answer, leaving>>

(* mutation: GoTrue's expires_at is optional, and taken as it comes        *)
NewSession_NoExpiry == [expires |-> Never, alive |-> TRUE, out |-> Never]

NewSession == [expires |-> clock + TTL, alive |-> TRUE, out |-> Never]

(* POST /sign-up: a session at once, or none until the address is          *)
(* confirmed, as the project is configured.                                *)
SignUp(c) ==
  /\ account = "none" /\ answer[c] = NoToken
  /\ \/ account' = "confirmed" /\ answer' = [answer EXCEPT ![c] = NewSession]
     \/ account' = "unconfirmed" /\ answer' = answer
  /\ UNCHANGED <<clock, holds, leaving>>

(* The link in the email: GoTrue confirms, and redirects with a session to *)
(* the bridge that hands it to the app.                                    *)
Confirm(c) ==
  /\ account = "unconfirmed" /\ answer[c] = NoToken
  /\ account' = "confirmed"
  /\ answer' = [answer EXCEPT ![c] = NewSession]
  /\ UNCHANGED <<clock, holds, leaving>>

(* POST /sign-in                                                           *)
SignIn(c) ==
  /\ account = "confirmed" /\ answer[c] = NoToken
  /\ answer' = [answer EXCEPT ![c] = NewSession]
  /\ UNCHANGED <<clock, account, holds, leaving>>

(* POST /refresh: another pair of the same session, if GoTrue still has it *)
Refresh(c) ==
  /\ holds[c] # NoToken /\ holds[c].alive /\ answer[c] = NoToken
  /\ answer' = [answer EXCEPT ![c] = [holds[c] EXCEPT !.expires = clock + TTL]]
  /\ UNCHANGED <<clock, account, holds, leaving>>

Receive(c) ==
  /\ answer[c] # NoToken
  /\ holds' = [holds EXCEPT ![c] = answer[c]]
  /\ answer' = [answer EXCEPT ![c] = NoToken]
  /\ UNCHANGED <<clock, account, leaving>>

LoseAnswer(c) ==
  /\ answer[c] # NoToken
  /\ answer' = [answer EXCEPT ![c] = NoToken]
  /\ UNCHANGED <<clock, account, holds, leaving>>

(* POST /sign-out, the hook requireAuth                                    *)
AskSignOut(c) ==
  /\ Verified(holds[c]) /\ leaving[c] = NoToken
  /\ leaving' = [leaving EXCEPT ![c] = holds[c]]
  /\ UNCHANGED <<clock, account, holds, answer>>

(* mutation: scope 'local', the session of the device that asks            *)
EndedWith_Local(c) == {c}

(* Whose sessions a sign-out of c ends: the scope is 'global'.             *)
EndedWith(c) == Clients

SignedOut(pairs, c) ==
  [d \in Clients |->
     IF pairs[d] = NoToken THEN NoToken
     ELSE [pairs[d] EXCEPT !.out = clock,
                           !.alive = IF d \in EndedWith(c) THEN FALSE ELSE @]]

(* admin.signOut: GoTrue verifies the token and ends the sessions.         *)
SignOut(c) ==
  /\ Verified(leaving[c]) /\ leaving[c].alive
  /\ holds' = SignedOut(holds, c)
  /\ answer' = SignedOut(answer, c)
  /\ leaving' = [SignedOut(leaving, c) EXCEPT ![c] = NoToken]
  /\ UNCHANGED <<clock, account>>

(* An expired token or an ended session is answered with an error.         *)
SignOutRefused(c) ==
  /\ leaving[c] # NoToken
  /\ ~Verified(leaving[c]) \/ ~leaving[c].alive
  /\ leaving' = [leaving EXCEPT ![c] = NoToken]
  /\ UNCHANGED <<clock, account, holds, answer>>

SessionStep(c) ==
  \/ SignUp(c) \/ Confirm(c) \/ SignIn(c) \/ Refresh(c)
  \/ Receive(c) \/ LoseAnswer(c)
  \/ AskSignOut(c) \/ SignOut(c) \/ SignOutRefused(c)

SessionsNext == Tick \/ \E c \in Clients : SessionStep(c)

SessionsSpec == SessionsInit /\ [][SessionsNext]_sessionVars

-----------------------------------------------------------------------------
(* Properties                                                              *)

SessionsTypeOK ==
  /\ clock \in Nat
  /\ account \in {"none", "unconfirmed", "confirmed"}
  /\ holds \in [Clients -> Pair \cup {NoToken}]
  /\ answer \in [Clients -> Pair \cup {NoToken}]
  /\ leaving \in [Clients -> Pair \cup {NoToken}]

(* Signing out on one device puts every device out within the lifetime of  *)
(* an access token: whatever was being refreshed or was on its way, a      *)
(* token of a session begun before passes the hook until then and no       *)
(* longer (auth.service.ts:84, auth.plugin.ts:47).                         *)
SignOutBounds ==
  \A c \in Clients : \A pair \in {holds[c], answer[c]} :
    pair # NoToken /\ pair.out # Never => pair.expires <= pair.out + TTL
=============================================================================
