--------------------------- MODULE AnswersProofs ----------------------------
(***************************************************************************)
(* Safety of module Answers, for any builds, clock skew, token lifetime    *)
(* and number of outside events: every refusal reaches the app as an       *)
(* envelope, and leads to the screen its reason calls for.                 *)
(*                                                                         *)
(* The invariant says why each screen is the right one when it is entered, *)
(* and that the reason outlives what happens outside: a dead token stays   *)
(* dead, nobody pays outside the purchase screen, and an old build is not  *)
(* made supported by another deployment.                                   *)
(***************************************************************************)
EXTENDS Answers, TLAPS

Dead(t) == t.left = 0 \/ t.oldKey

Walking == {"rest", "hooks", "gate", "handler", "served", "signIn"}
Screens == {"signIn", "buy", "update", "wait", "told"}
Walks == [at : Walking]
Stops == [at : Screens, again : {"hooks", "signIn"}, faulty : BOOLEAN,
          reply : [status : 400..599, code : Codes]]

(* Types.                                                                  *)
AnswersTypes ==
  /\ app \in Walks \cup Stops
  /\ build \in Nat
  /\ token \in [ahead : Nat, left : Nat, oldKey : BOOLEAN]
  /\ paid \in BOOLEAN
  /\ minimum \in {None, Latest}

(* The reason of each screen; a request that will be a sign-in again has   *)
(* nothing but a dead token.                                               *)
Reasons ==
  /\ app.at = "signIn" => Dead(token)
  /\ "again" \in DOMAIN app => (app.again = "signIn" => Dead(token))
  /\ app.at = "buy" => ~paid
  /\ app.at = "update" => OldBuild
  /\ app.at = "told" => app.faulty

AnswersInv == AnswersTypes /\ Reasons

-----------------------------------------------------------------------------
(* The app's answers                                                       *)

(* An error of the application's own becomes an envelope with its status   *)
(* and code.                                                               *)
LEMMA Envelope ==
  ASSUME NEW status \in 400..599, NEW code
  PROVE  ErrorHandler(AppError(status, code)) = [status |-> status, code |-> code]
BY DEF AppError, ErrorHandler, Sent

(* Which screen a status leads to.                                         *)
LEMMA ScreenOf ==
  ASSUME NEW status
  PROVE  /\ Screen(status) \in Screens
         /\ Screen(status) = "signIn" => status = 401
         /\ Screen(status) = "buy" => status = 402
         /\ Screen(status) = "update" => status = 426
BY DEF Screen, Screens

(* A refusal with such an error takes the app to the screen of its status. *)
LEMMA RefusedByApp ==
  ASSUME NEW status \in 400..599, NEW code \in Codes,
         NEW again \in {"hooks", "signIn"}, NEW faulty \in BOOLEAN,
         Refuse(AppError(status, code), again, faulty)
  PROVE  /\ app' \in Stops /\ app'.at = Screen(status)
         /\ app'.again = again /\ app'.faulty = faulty
<1>1. ErrorHandler(AppError(status, code)) = [status |-> status, code |-> code]
  BY Envelope
<1> QED BY <1>1, ScreenOf DEF Refuse, Stops

(* What it takes to be at the right screen.                                *)
LEMMA Stopped ==
  ASSUME NEW status, app' \in Stops, app'.at = Screen(status),
         status = 401 \/ app'.again = "signIn" => Dead(token'),
         status = 402 => ~paid',
         status = 426 => OldBuild',
         Screen(status) = "told" => app'.faulty
  PROVE  Reasons'
BY ScreenOf DEF Reasons

(* Going on to a step that is no screen needs no reason.                   *)
LEMMA GoesOn ==
  ASSUME NEW at \in Walking, GoOn(at), at = "signIn" => Dead(token')
  PROVE  app' \in Walks \cup Stops /\ Reasons'
BY DEF GoOn, Walks, Walking, Reasons

(* The statuses of the database's errors.                                  *)
LEMMA DatabaseErrors ==
  ASSUME NEW code
  PROVE  \E status \in {400, 401, 404, 409, 500, 503}, c \in Codes :
           /\ ToAppError(code) = AppError(status, c)
           /\ status = 401 => code \in {"JWT_INVALID", "JWT_ANON_DISABLED"}
           /\ code = "JWT_CLAIMS_INVALID" => status = 503
           /\ code = "JWT_INVALID" => status = 401
<1>1. CASE code \in {"NO_ROWS_RETURNED", "RLS_VIOLATION"}
  <2>1. ToAppError(code) = AppError(404, "NOT_FOUND")
    BY <1>1 DEF ToAppError, NotFound
  <2> QED BY <1>1, <2>1 DEF Codes
<1>2. CASE code = "UNIQUE_VIOLATION"
  <2>1. ToAppError(code) = AppError(409, "CONFLICT")
    BY <1>2 DEF ToAppError, Conflict
  <2> QED BY <1>2, <2>1 DEF Codes
<1>3. CASE code \in {"FOREIGN_KEY_VIOLATION", "CHECK_VIOLATION"}
  <2>1. ToAppError(code) = AppError(400, "BAD_REQUEST")
    BY <1>3 DEF ToAppError, BadRequest
  <2> QED BY <1>3, <2>1 DEF Codes
<1>4. CASE code \in {"JWT_INVALID", "JWT_ANON_DISABLED"}
  <2>1. ToAppError(code) = AppError(401, "UNAUTHORIZED")
    BY <1>4 DEF ToAppError, Unauthorized
  <2> QED BY <1>4, <2>1 DEF Codes
<1>5. CASE code = "JWT_CLAIMS_INVALID"
  <2>1. ToAppError(code) = AppError(503, "AUTH_UNAVAILABLE")
    BY <1>5 DEF ToAppError, AuthUnavailable
  <2> QED BY <1>5, <2>1 DEF Codes
<1>6. CASE code \notin {"NO_ROWS_RETURNED", "RLS_VIOLATION", "UNIQUE_VIOLATION",
                       "FOREIGN_KEY_VIOLATION", "CHECK_VIOLATION", "JWT_INVALID",
                       "JWT_ANON_DISABLED", "JWT_CLAIMS_INVALID"}
  <2>1. ToAppError(code) = AppError(500, "DATABASE_ERROR")
    BY <1>6 DEF ToAppError
  <2> QED BY <1>6, <2>1 DEF Codes
<1> QED BY <1>1, <1>2, <1>3, <1>4, <1>5, <1>6

(* The statuses of GoTrue's errors.                                        *)
LEMMA GoTrueErrors ==
  ASSUME NEW status \in GoTrueStatuses, NEW credentials \in BOOLEAN
  PROVE  \E st \in {400, 401, 403, 404, 409, 418, 429, 500, 503}, c \in Codes :
           /\ ToAuthAppError(status, credentials) = AppError(st, c)
           /\ st = 401 => ToAuthAppError(status, credentials) = Unauthorized
<1> DEFINE error == ToAuthAppError(status, credentials)
<1>1. CASE status < 400 \/ status > 599
  <2>1. error = AppError(503, "AUTH_UNAVAILABLE")
    BY <1>1 DEF ToAuthAppError, AuthUnavailable
  <2> QED BY <2>1 DEF Codes
<1>2. CASE (status = 400 /\ ~credentials) \/ status = 422
  <2>1. error = AppError(400, "BAD_REQUEST")
    BY <1>2 DEF ToAuthAppError, BadRequest
  <2> QED BY <2>1 DEF Codes
<1>3. CASE (status = 400 /\ credentials) \/ status = 401
  <2>1. error = Unauthorized
    BY <1>3 DEF ToAuthAppError
  <2>2. error = AppError(401, "UNAUTHORIZED")
    BY <2>1 DEF Unauthorized
  <2> QED BY <2>1, <2>2 DEF Codes
<1>4. CASE status = 403
  <2>1. error = AppError(403, "FORBIDDEN")
    BY <1>4 DEF ToAuthAppError, Forbidden
  <2> QED BY <2>1 DEF Codes
<1>5. CASE status = 404
  <2>1. error = AppError(404, "NOT_FOUND")
    BY <1>5 DEF ToAuthAppError, NotFound
  <2> QED BY <2>1 DEF Codes
<1>6. CASE status = 409
  <2>1. error = AppError(409, "CONFLICT")
    BY <1>6 DEF ToAuthAppError, Conflict
  <2> QED BY <2>1 DEF Codes
<1>7. CASE status = 429
  <2>1. error = AppError(429, "RATE_LIMITED")
    BY <1>7 DEF ToAuthAppError
  <2> QED BY <2>1 DEF Codes
<1>8. CASE status = 418
  <2>1. error = AppError(418, "AUTH_ERROR")
    BY <1>8 DEF ToAuthAppError
  <2> QED BY <2>1 DEF Codes
<1>9. CASE status \in {500, 503}
  <2>1. error = AppError(500, "AUTH_ERROR")
    BY <1>9 DEF ToAuthAppError
  <2> QED BY <2>1 DEF Codes
<1> QED BY <1>1, <1>2, <1>3, <1>4, <1>5, <1>6, <1>7, <1>8, <1>9 DEF GoTrueStatuses

(* What PostgREST refuses a live token for is only the clock.              *)
LEMMA RefusedTokens ==
  ASSUME AnswersTypes, NEW code \in Refusals
  PROVE  code \in {"JWT_INVALID", "JWT_CLAIMS_INVALID"} /\ (code = "JWT_INVALID" => Dead(token))
BY DEF Refusals, Dead, AnswersTypes

-----------------------------------------------------------------------------
(* Induction                                                               *)

(* The app at rest satisfies the invariant.                                *)
LEMMA AnswersStart == AnswersInit => AnswersInv
<1> SUFFICES ASSUME AnswersInit PROVE AnswersInv
  OBVIOUS
<1>1. app.at = "rest" /\ DOMAIN app = {"at"} /\ app \in Walks
  BY DEF AnswersInit, AtRest, Walks, Walking
<1>2. token \in [ahead : Nat, left : Nat, oldKey : BOOLEAN]
  BY AnswersAssumption DEF AnswersInit, Fresh
<1> QED BY <1>1, <1>2 DEF AnswersInit, AnswersInv, AnswersTypes, Reasons

(* A refusal of the database leads where its reason says.                  *)
LEMMA RefusedByDatabase ==
  ASSUME AnswersInv, UNCHANGED <<build, token, paid, minimum, moves>>, NEW faulty \in BOOLEAN,
         NEW code, Refuse(ToAppError(code), "hooks", faulty),
         code = "JWT_INVALID" => Dead(token), code # "JWT_ANON_DISABLED",
         faulty \/ code \in {"JWT_INVALID", "JWT_CLAIMS_INVALID"}
  PROVE  AnswersInv'
<1>1. PICK status \in {400, 401, 404, 409, 500, 503}, c \in Codes :
        /\ ToAppError(code) = AppError(status, c)
        /\ status = 401 => code \in {"JWT_INVALID", "JWT_ANON_DISABLED"}
        /\ code = "JWT_CLAIMS_INVALID" => status = 503
        /\ code = "JWT_INVALID" => status = 401
  BY DatabaseErrors
<1>2. app' \in Stops /\ app'.at = Screen(status) /\ app'.again = "hooks" /\ app'.faulty = faulty
  BY <1>1, RefusedByApp
<1>3. status = 401 => Dead(token')
  BY <1>1
<1>4. Screen(status) = "told" => faulty
  BY <1>1 DEF Screen
<1>5. app' \in Walks \cup Stops /\ Reasons'
  BY <1>1, <1>2, <1>3, <1>4, Stopped
<1> QED BY <1>5 DEF AnswersInv, AnswersTypes

(* Every step of the request, of a screen and of the outside preserves it. *)
LEMMA AnswersHold == AnswersInv /\ [AnswersNext]_answerVars => AnswersInv'
<1> SUFFICES ASSUME AnswersInv, [AnswersNext]_answerVars PROVE AnswersInv'
  OBVIOUS
<1> USE DEF AnswersInv
<1>1. CASE Call
  <2>1. app' \in Walks \cup Stops /\ Reasons'
    BY <1>1, GoesOn DEF Call, Walking
  <2> QED BY <1>1, <2>1 DEF Call, AnswersTypes
<1>2. CASE Hooks
  <2>0. AnswersTypes' <=> app' \in Walks \cup Stops
    BY <1>2 DEF Hooks, AnswersTypes
  <2>1. CASE Refuse(Fastify(429), "hooks", TRUE)
    <3>1. app' \in Stops /\ app'.at = Screen(429) /\ app'.again = "hooks" /\ app'.faulty
      BY <2>1, ScreenOf DEF Refuse, Fastify, ErrorHandler, Sent, Stops, Codes
    <3> QED BY <2>0, <3>1, Stopped
  <2>2. CASE OldBuild /\ Refuse(ClientUpdateRequired, "hooks", FALSE)
    <3>1. app' \in Stops /\ app'.at = Screen(426) /\ app'.again = "hooks"
      <4>1. ErrorHandler(ClientUpdateRequired) = [status |-> 426, code |-> "CLIENT_UPDATE_REQUIRED"]
        BY DEF ClientUpdateRequired, AppError, ErrorHandler, Sent
      <4> QED BY <2>2, <4>1, ScreenOf DEF Refuse, Stops, Codes
    <3>2. OldBuild'
      BY <1>2, <2>2 DEF Hooks, OldBuild
    <3>3. Screen(426) = "update"
      BY DEF Screen
    <3> QED BY <2>0, <3>1, <3>2, <3>3, Stopped
  <2>3. CASE Dead(token) /\ Refuse(Unauthorized, "hooks", FALSE)
    <3>1. app' \in Stops /\ app'.at = Screen(401) /\ app'.again = "hooks"
      <4>1. ErrorHandler(Unauthorized) = [status |-> 401, code |-> "UNAUTHORIZED"]
        BY DEF Unauthorized, AppError, ErrorHandler, Sent
      <4> QED BY <2>3, <4>1, ScreenOf DEF Refuse, Stops, Codes
    <3>2. Dead(token')
      BY <1>2, <2>3 DEF Hooks
    <3>3. Screen(401) = "signIn"
      BY DEF Screen
    <3> QED BY <2>0, <3>1, <3>2, <3>3, Stopped
  <2>4. CASE GoOn("gate")
    BY <2>0, <2>4, GoesOn DEF Walking
  <2> QED BY <1>2, <2>1, <2>2, <2>3, <2>4 DEF Hooks, Dead
<1>3. CASE RequireSubscription
  <2>0. UNCHANGED <<build, token, paid, minimum, moves>>
    BY <1>3 DEF RequireSubscription
  <2>1. ASSUME NEW code \in Refusals, Refuse(ToAppError(code), "hooks", FALSE) PROVE AnswersInv'
    BY <2>0, <2>1, RefusedTokens, RefusedByDatabase
  <2>2. CASE Refuse(ToAppError("PGRST000"), "hooks", TRUE)
    BY <2>0, <2>2, RefusedByDatabase
  <2>3. CASE ~paid /\ Refuse(PaymentRequired, "hooks", FALSE)
    <3>1. app' \in Stops /\ app'.at = Screen(402) /\ app'.again = "hooks"
      <4>1. ErrorHandler(PaymentRequired) = [status |-> 402, code |-> "SUBSCRIPTION_REQUIRED"]
        BY DEF PaymentRequired, AppError, ErrorHandler, Sent
      <4> QED BY <2>3, <4>1, ScreenOf DEF Refuse, Stops, Codes
    <3>2. Screen(402) = "buy"
      BY DEF Screen
    <3>3. app' \in Walks \cup Stops /\ Reasons'
      BY <2>0, <2>3, <3>1, <3>2, Stopped
    <3> QED BY <2>0, <3>3 DEF AnswersTypes
  <2>4. CASE GoOn("handler")
    <3>1. app' \in Walks \cup Stops /\ Reasons'
      BY <2>4, GoesOn DEF Walking
    <3> QED BY <2>0, <3>1 DEF AnswersTypes
  <2> QED BY <1>3, <2>1, <2>2, <2>3, <2>4 DEF RequireSubscription
<1>4. CASE Handler
  <2>0. UNCHANGED <<build, token, paid, minimum, moves>>
    BY <1>4 DEF Handler
  <2>1. ASSUME NEW error \in {Validation, Serialization}, Refuse(error, "hooks", TRUE)
        PROVE  AnswersInv'
    <3>1. \E status \in {400, 500}, code \in Codes :
            ErrorHandler(error) = [status |-> status, code |-> code]
      <4>1. ErrorHandler(Validation) = [status |-> 400, code |-> "VALIDATION_ERROR"]
        BY DEF Validation, ErrorHandler, Sent
      <4>2. ErrorHandler(Serialization) = [status |-> 500, code |-> "INTERNAL_ERROR"]
        BY DEF Serialization, ErrorHandler, Sent
      <4> QED BY <4>1, <4>2 DEF Codes
    <3>2. \E status \in {400, 500} :
            app' \in Stops /\ app'.at = Screen(status) /\ app'.again = "hooks" /\ app'.faulty
      BY <2>1, <3>1, ScreenOf DEF Refuse, Stops
    <3>3. app' \in Stops /\ Reasons'
      BY <3>2, Stopped
    <3> QED BY <2>0, <3>3 DEF AnswersTypes
  <2>2. ASSUME NEW code \in Refusals, Refuse(ToAppError(code), "hooks", FALSE) PROVE AnswersInv'
    BY <2>0, <2>2, RefusedTokens, RefusedByDatabase
  <2>3. ASSUME NEW code \in RowErrors, Refuse(ToAppError(code), "hooks", TRUE) PROVE AnswersInv'
    BY <2>0, <2>3, RefusedByDatabase DEF RowErrors
  <2>4. CASE GoOn("served")
    <3>1. app' \in Walks \cup Stops /\ Reasons'
      BY <2>4, GoesOn DEF Walking
    <3> QED BY <2>0, <3>1 DEF AnswersTypes
  <2> QED BY <1>4, <2>1, <2>2, <2>3, <2>4 DEF Handler
<1>5. CASE SignIn
  <2>0. UNCHANGED <<build, paid, minimum>> /\ Dead(token)
    BY <1>5 DEF SignIn, Reasons
  <2>1. CASE OldBuild /\ Refuse(ClientUpdateRequired, "signIn", FALSE) /\ UNCHANGED token
    <3>1. app' \in Stops /\ app'.at = Screen(426) /\ app'.again = "signIn"
      <4>1. ErrorHandler(ClientUpdateRequired) = [status |-> 426, code |-> "CLIENT_UPDATE_REQUIRED"]
        BY DEF ClientUpdateRequired, AppError, ErrorHandler, Sent
      <4> QED BY <2>1, <4>1, ScreenOf DEF Refuse, Stops, Codes
    <3>2. OldBuild' /\ Screen(426) = "update"
      BY <2>0, <2>1 DEF OldBuild, Screen
    <3>3. app' \in Walks \cup Stops /\ Reasons'
      BY <2>0, <2>1, <3>1, <3>2, Stopped
    <3> QED BY <2>0, <2>1, <3>3 DEF AnswersTypes
  <2>2. ASSUME NEW status \in GoTrueStatuses, NEW credentials \in BOOLEAN, UNCHANGED token,
               ToAuthAppError(status, credentials) = Unauthorized,
               app' = [at |-> "told", again |-> "signIn", faulty |-> TRUE,
                       reply |-> ErrorHandler(ToAuthAppError(status, credentials))]
        PROVE  AnswersInv'
    <3>1. ErrorHandler(ToAuthAppError(status, credentials)) = [status |-> 401, code |-> "UNAUTHORIZED"]
      BY <2>2 DEF Unauthorized, AppError, ErrorHandler, Sent
    <3>2. app' \in Stops
      BY <2>2, <3>1 DEF Stops, Screens, Codes
    <3>3. app'.at = "told" /\ app'.faulty /\ Dead(token')
      BY <2>0, <2>2
    <3> QED BY <2>0, <2>2, <3>2, <3>3 DEF AnswersTypes, Reasons
  <2>3. ASSUME NEW status \in GoTrueStatuses, NEW credentials \in BOOLEAN, UNCHANGED token,
               ToAuthAppError(status, credentials) # Unauthorized,
               Refuse(ToAuthAppError(status, credentials), "signIn", TRUE)
        PROVE  AnswersInv'
    <3>1. PICK st \in {400, 401, 403, 404, 409, 418, 429, 500, 503}, c \in Codes :
            /\ ToAuthAppError(status, credentials) = AppError(st, c)
            /\ st = 401 => ToAuthAppError(status, credentials) = Unauthorized
      BY GoTrueErrors
    <3>2. app' \in Stops /\ app'.at = Screen(st) /\ app'.again = "signIn" /\ app'.faulty
      <4>1. ErrorHandler(ToAuthAppError(status, credentials)) = [status |-> st, code |-> c]
        BY <3>1 DEF AppError, ErrorHandler, Sent
      <4> QED BY <2>3, <4>1, ScreenOf DEF Refuse, Stops
    <3>3. app' \in Walks \cup Stops /\ Reasons'
      BY <2>0, <2>3, <3>1, <3>2, Stopped
    <3> QED BY <2>0, <2>3, <3>3 DEF AnswersTypes
  <2>4. ASSUME NEW ahead \in 0..Skew, token' = Fresh(ahead), GoOn("hooks") PROVE AnswersInv'
    <3>1. token' \in [ahead : Nat, left : Nat, oldKey : BOOLEAN]
      BY <2>4, AnswersAssumption DEF Fresh
    <3>2. app' \in Walks \cup Stops /\ Reasons'
      BY <2>4, GoesOn DEF Walking
    <3> QED BY <2>0, <3>1, <3>2 DEF AnswersTypes
  <2> QED BY <1>5, <2>1, <2>2, <2>3, <2>4 DEF SignIn
<1>6. CASE Buy
  <2>1. app' \in Walks \cup Stops /\ Reasons'
    BY <1>6, GoesOn DEF Buy, Walking
  <2> QED BY <1>6, <2>1 DEF Buy, AnswersTypes
<1>7. ASSUME app.at \in {"update", "wait"}
      PROVE  app.again \in Walking /\ (app.again = "signIn" => Dead(token))
  BY <1>7 DEF AnswersTypes, Reasons, Walks, Stops, Walking, Screens
<1>8. CASE InstallUpdate
  <2>1. app' \in Walks \cup Stops /\ Reasons'
    BY <1>7, <1>8, GoesOn DEF InstallUpdate
  <2> QED BY <1>8, <2>1, AnswersAssumption DEF InstallUpdate, AnswersTypes
<1>9. Older(token) \in [ahead : Nat, left : Nat, oldKey : BOOLEAN]
      /\ (Dead(token) => Dead(Older(token)))
  <2>1. /\ Older(token).left = (IF token.left > 0 THEN token.left - 1 ELSE 0)
        /\ Older(token).oldKey = token.oldKey
    BY DEF AnswersTypes, Older
  <2>2. Older(token) \in [ahead : Nat, left : Nat, oldKey : BOOLEAN]
    <3>1. /\ (IF token.ahead > 0 THEN token.ahead - 1 ELSE 0) \in Nat
          /\ (IF token.left > 0 THEN token.left - 1 ELSE 0) \in Nat
      BY DEF AnswersTypes
    <3> QED BY <3>1 DEF AnswersTypes, Older
  <2>3. token.left = 0 => Older(token).left = 0
    BY <2>1
  <2> QED BY <2>1, <2>2, <2>3 DEF Dead
<1>10. CASE Wait
  <2>1. app' \in Walks \cup Stops /\ Reasons'
    BY <1>7, <1>9, <1>10, GoesOn DEF Wait
  <2> QED BY <1>9, <1>10, <2>1 DEF Wait, AnswersTypes
<1>11. CASE Rest
  <2>1. app' \in Walks \cup Stops /\ Reasons'
    BY <1>11, GoesOn DEF Rest, AtRest, GoOn, Walking
  <2> QED BY <1>11, <2>1 DEF Rest, AnswersTypes
<1>12. CASE Outside
  <2>1. CASE token' = Older(token) /\ UNCHANGED <<paid, minimum>>
    BY <1>9, <1>12, <2>1 DEF Outside, AnswersTypes, Reasons, OldBuild
  <2>2. CASE token' = [token EXCEPT !.oldKey = TRUE] /\ UNCHANGED <<paid, minimum>>
    <3>1. token' \in [ahead : Nat, left : Nat, oldKey : BOOLEAN] /\ Dead(token')
      BY <2>2 DEF AnswersTypes, Dead
    <3> QED BY <1>12, <2>2, <3>1 DEF Outside, AnswersTypes, Reasons, OldBuild
  <2>3. CASE paid' = FALSE /\ UNCHANGED <<token, minimum>>
    BY <1>12, <2>3 DEF Outside, AnswersTypes, Reasons, OldBuild
  <2>4. CASE minimum' = Latest /\ UNCHANGED <<token, paid>>
    <3>1. OldBuild => minimum = Latest
      BY DEF OldBuild, EvaluateClientBuild, ClientGateOptions, AnswersTypes
    <3>2. OldBuild => OldBuild'
      BY <1>12, <2>4, <3>1 DEF Outside, OldBuild
    <3> QED BY <1>12, <2>4, <3>2 DEF Outside, AnswersTypes, Reasons
  <2> QED BY <1>12, <2>1, <2>2, <2>3, <2>4 DEF Outside
<1>13. CASE UNCHANGED answerVars
  BY <1>13 DEF answerVars, AnswersTypes, Reasons, OldBuild
<1> QED
  BY <1>1, <1>2, <1>3, <1>4, <1>5, <1>6, <1>8, <1>10, <1>11, <1>12, <1>13
  DEF AnswersNext, AppStep

(* The reasons of every screen hold in every behaviour.                    *)
THEOREM AnswersInvariant == AnswersSpec => []AnswersInv
BY AnswersStart, AnswersHold, PTL DEF AnswersSpec

(* No refusal is ever an empty 500, and each has an error status           *)
(* (errors.ts:91-103): RepliesSpeak.                                       *)
THEOREM EveryReplySpeaks == AnswersSpec => []RepliesSpeak
<1>1. AnswersInv => RepliesSpeak
  <2> SUFFICES ASSUME AnswersInv, "reply" \in DOMAIN app
               PROVE  app.reply.code # Missing /\ app.reply.status \in 400..599
    BY DEF RepliesSpeak
  <2>1. app \in Stops
    BY DEF AnswersInv, AnswersTypes, Walks
  <2> QED BY <2>1, AnswersAssumption DEF Stops
<1> QED BY <1>1, AnswersInvariant, PTL

(* Nobody is sent to sign in with a good token, to pay while paid up, to   *)
(* the App Store with a supported build, nor told of a fault there is not  *)
(* (errors.ts:58, docs/ios-integration.md:169): RightScreen.               *)
THEOREM EveryScreenIsRight == AnswersSpec => []RightScreen
<1>1. AnswersInv => RightScreen
  BY DEF AnswersInv, Reasons, RightScreen, Dead
<1> QED BY <1>1, AnswersInvariant, PTL
=============================================================================
