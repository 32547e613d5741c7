----------------------------- MODULE Onboarding -----------------------------
(***************************************************************************)
(* Where the user stands in onboarding (src/modules/onboarding), asked     *)
(* from the devices of module Sessions, and the devices registered for     *)
(* push (src/modules/devices).                                             *)
(*                                                                         *)
(* The status is derived from three reads issued together, which reach the *)
(* database in any order while billing, the bank and the devices change    *)
(* the rows they read; two of them run as the user, so that PostgREST      *)
(* verifies the access token again.  Billing and the bank connections are  *)
(* their rows here, changed at will.                                       *)
(***************************************************************************)
EXTENDS Sessions, Entitlement, ClientVersion

CONSTANTS
  Rows,      \* rows of billing_subscriptions, as [status, expiresAt]
  Phones,    \* the user's device ids
  Gates,     \* MIN_SUPPORTED_BUILD and BLOCKED_MONEY_BUILDS, as [minimum, range]
  Headers,   \* what clients send as their build
  Unread     \* not a value of any read

ASSUME RowsAssumption == Rows \subseteq [status : Statuses, expiresAt : Nat \cup {Null}]
ASSUME GatesAssumption ==
  /\ Gates \subseteq [minimum : Nat \cup {None}, range : (Nat \X Nat) \cup {None}]
  /\ None \notin Nat /\ None \notin [from : Nat, to : Nat]

VARIABLES
  gate,      \* the configuration of the client gate
  row,       \* the user's subscription, or Null
  linked,    \* whether the user has a row in akahu_tokens
  phones,    \* device_registrations
  ask        \* the request each client has under way

onboardingVars == <<gate, row, linked, phones, ask>>
identityVars == <<sessionVars, gate, onboardingVars>>

Resting == [pc |-> "resting"]

OnboardingInit ==
  /\ gate \in Gates
  /\ row = Null /\ linked = FALSE
  /\ phones = [d \in Phones |-> "absent"]
  /\ ask = [c \in Clients |-> Resting]

Options == ClientGateOptions(gate.minimum, gate.range)

(* The build is checked first, then requireAuth looks at the token.        *)
Admitted(c, header) ==
  EvaluateClientBuild(header, Options).allowed /\ Verified(holds[c])

Entitled(r, t) == r # Null /\ IsCurrentlyEntitled(r.status, r.expiresAt, t)

HasActiveDevice == \E d \in Phones : phones[d] = "active"

-----------------------------------------------------------------------------
(* The rows and the clock move.  A status request under way remembers, as  *)
(* history, whether there was a moment without entitlement or a token.     *)

Watched(r, l, t) ==
  [c \in Clients |->
     IF ask[c].pc # "status" THEN ask[c]
     ELSE [ask[c] EXCEPT !.unpaid = @ \/ ~Entitled(r, t), !.unlinked = @ \/ ~l]]

TimePasses ==
  /\ Tick
  /\ ask' = Watched(row, linked, clock + 1)
  /\ UNCHANGED <<gate, row, linked, phones>>

WriteSubscription(r) ==
  /\ r # row /\ row' = r
  /\ ask' = Watched(r, linked, clock)
  /\ UNCHANGED <<sessionVars, gate, linked, phones>>

StoreOrForgetToken ==
  /\ linked' \in BOOLEAN \ {linked}
  /\ ask' = Watched(row, linked', clock)
  /\ UNCHANGED <<sessionVars, gate, row, phones>>

-----------------------------------------------------------------------------
(* GET /onboarding/status: requireAuth, and no subscription gate           *)

AskStatus(c, header) ==
  /\ ask[c] = Resting /\ Admitted(c, header)
  /\ ask' = [ask EXCEPT ![c] =
       [pc |-> "status", pair |-> holds[c], now |-> clock,
        header |-> header, clientBuild |-> EvaluateClientBuild(header, Options).build,
        subscription |-> Unread, bank |-> Unread, push |-> Unread,
        unpaid |-> ~Entitled(row, clock), unlinked |-> ~linked]]
  /\ UNCHANGED <<sessionVars, gate, row, linked, phones>>

(* The reads of statusFor: as the user, by the service role, as the user.  *)
ReadSubscription(c) ==
  /\ ask[c].pc = "status" /\ ask[c].subscription = Unread /\ Verified(ask[c].pair)
  /\ ask' = [ask EXCEPT ![c].subscription = row]
  /\ UNCHANGED <<sessionVars, gate, row, linked, phones>>

ReadToken(c) ==
  /\ ask[c].pc = "status" /\ ask[c].bank = Unread
  /\ ask' = [ask EXCEPT ![c].bank = linked]
  /\ UNCHANGED <<sessionVars, gate, row, linked, phones>>

ReadDevices(c) ==
  /\ ask[c].pc = "status" /\ ask[c].push = Unread /\ Verified(ask[c].pair)
  /\ ask' = [ask EXCEPT ![c].push = HasActiveDevice]
  /\ UNCHANGED <<sessionVars, gate, row, linked, phones>>

(* mutation: a user without push is held at the bank's step                *)
ResolveStep_NeedsPush(subscriptionActive, bankConnected, pushRegistered) ==
  CASE ~subscriptionActive -> "billing"
    [] subscriptionActive /\ ~(bankConnected /\ pushRegistered) -> "bank"
    [] OTHER -> "ready"

ResolveStep(subscriptionActive, bankConnected, pushRegistered) ==
  CASE ~subscriptionActive -> "billing"
    [] subscriptionActive /\ ~bankConnected -> "bank"
    [] OTHER -> "ready"

(* The answer, judged by the time at which the request began.              *)
AnswerStatus(c) ==
  /\ ask[c].pc = "status"
  /\ Unread \notin {ask[c].subscription, ask[c].bank, ask[c].push}
  /\ ask' = [ask EXCEPT ![c] =
       [pc |-> "answered",
        step |-> ResolveStep(Entitled(ask[c].subscription, ask[c].now), ask[c].bank, ask[c].push),
        unpaid |-> ask[c].unpaid, unlinked |-> ask[c].unlinked]]
  /\ UNCHANGED <<sessionVars, gate, row, linked, phones>>

-----------------------------------------------------------------------------
(* POST /devices and DELETE /devices/:deviceId: the hooks, the gate        *)
(* requireSubscription among them, and one statement as the user           *)

AskDevices(c, header, operation, d) ==
  /\ ask[c] = Resting /\ Admitted(c, header) /\ Entitled(row, clock)
  /\ ask' = [ask EXCEPT ![c] = [pc |-> operation, device |-> d, pair |-> holds[c]]]
  /\ UNCHANGED <<sessionVars, gate, row, linked, phones>>

(* The upsert on user and device: it clears revoked_at too.                *)
Register(c) ==
  /\ ask[c].pc = "register" /\ Verified(ask[c].pair)
  /\ phones' = [phones EXCEPT ![ask[c].device] = "active"]
  /\ ask' = [ask EXCEPT ![c] = Resting]
  /\ UNCHANGED <<sessionVars, gate, row, linked>>

(* Conditional on revoked_at: anything else is a 404 and changes nothing.  *)
Revoke(c) ==
  /\ ask[c].pc = "revoke" /\ Verified(ask[c].pair)
  /\ phones' = [phones EXCEPT ![ask[c].device] = IF @ = "active" THEN "revoked" ELSE @]
  /\ ask' = [ask EXCEPT ![c] = Resting]
  /\ UNCHANGED <<sessionVars, gate, row, linked>>

(* The request is over: answered, or failed at a call to the database,     *)
(* which is what becomes of it when the token expires under way.           *)
EndRequest(c) ==
  /\ ask[c] # Resting
  /\ ask' = [ask EXCEPT ![c] = Resting]
  /\ UNCHANGED <<sessionVars, gate, row, linked, phones>>

OnboardingStep(c) ==
  \/ \E header \in Headers :
       \/ AskStatus(c, header)
       \/ \E operation \in {"register", "revoke"}, d \in Phones :
            AskDevices(c, header, operation, d)
  \/ ReadSubscription(c) \/ ReadToken(c) \/ ReadDevices(c) \/ AnswerStatus(c)
  \/ Register(c) \/ Revoke(c) \/ EndRequest(c)

OnboardingNext ==
  \/ TimePasses
  \/ \E c \in Clients : SessionStep(c) /\ UNCHANGED onboardingVars
  \/ \E r \in Rows \cup {Null} : WriteSubscription(r)
  \/ StoreOrForgetToken
  \/ \E c \in Clients : OnboardingStep(c)

OnboardingSpec == SessionsInit /\ OnboardingInit /\ [][OnboardingNext]_identityVars

-----------------------------------------------------------------------------
(* Properties                                                              *)

(* A user who was entitled and had a bank token for as long as the request *)
(* took is told "ready", in whatever order the reads saw the changes made  *)
(* next to them and whatever phones are registered; whoever was entitled   *)
(* is not sent to pay, and whoever had a token is not sent to the bank     *)
(* (onboarding.service.ts:10-18, 59-67).                                   *)
StatusIsFresh ==
  \A c \in Clients : ask[c].pc = "answered" =>
    /\ ask[c].step = "billing" => ask[c].unpaid
    /\ ask[c].step = "bank" => ask[c].unlinked

(* A request that got past the gate on its build, and that the gate on     *)
(* money would let through, has named a build that is neither too old nor  *)
(* in the blocked range, which may be written the wrong way round: not by  *)
(* sending no header or one that is no number, and not where no minimum is *)
(* configured (client-version.ts:78-101, config/index.ts:23).              *)
MoneyGate ==
  \A c \in Clients :
    ask[c].pc = "status" /\ ~IsMoneyMovementBlocked(ask[c].clientBuild, Options) =>
      LET header == ask[c].header
      IN /\ gate.minimum # None => header \in Nat /\ header >= gate.minimum
         /\ gate.range # None =>
              /\ header \in Nat
              /\ \A i, j \in 1..2 : ~(gate.range[i] <= header /\ header <= gate.range[j])
=============================================================================
