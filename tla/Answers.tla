------------------------------- MODULE Answers -------------------------------
(***************************************************************************)
(* What the API answers when it refuses a request, and where that sends    *)
(* the user.  A request to a route behind the subscription passes the      *)
(* hooks in the order app.ts and the routes register them: build, access   *)
(* token, subscription; then the handler's statement.  Both database calls *)
(* run as the user, so PostgREST judges the token again.  Errors become    *)
(* answers in src/supabase/errors.ts and src/plugins/error-handler.ts.     *)
(*                                                                         *)
(* The app does with an answer what docs/ios-integration.md:169-187 tells  *)
(* it to: each refusal leads to a screen of its own, and 503 alone is      *)
(* repeated after a while.  Meanwhile the token ages, the subscription     *)
(* lapses, a minimum build is deployed or the signing key moves.           *)
(***************************************************************************)
EXTENDS ClientVersion

CONSTANTS
  Latest,     \* the build on the App Store, 1 being the oldest
  Skew,       \* how far the clock that mints tokens may be ahead of PostgREST's
  Lifetime,   \* ticks an access token lives
  MaxMoves    \* bound: what may go wrong from outside during one call of the app

(* The codes of the error envelopes these routes answer with.              *)
Codes ==
  {"BAD_REQUEST", "UNAUTHORIZED", "SUBSCRIPTION_REQUIRED", "FORBIDDEN", "NOT_FOUND", "CONFLICT",
   "CLIENT_UPDATE_REQUIRED", "AUTH_UNAVAILABLE", "DATABASE_ERROR", "RATE_LIMITED", "AUTH_ERROR",
   "VALIDATION_ERROR", "INTERNAL_ERROR", "FST_ERR"}

ASSUME AnswersAssumption ==
  /\ {Latest, Skew, Lifetime, MaxMoves} \subseteq Nat
  /\ Skew < Lifetime
  /\ Missing \notin Codes

VARIABLES
  app,        \* the app: where it is, the request to repeat, the last answer
  build,      \* the build installed
  token,      \* the access token it holds, as the clocks and the keys see it
  paid,       \* whether the user's row entitles them
  minimum,    \* MIN_SUPPORTED_BUILD
  moves       \* outside events since the app began its call

answerVars == <<app, build, token, paid, minimum, moves>>

AtRest == [at |-> "rest"]
Fresh(ahead) == [ahead |-> ahead, left |-> Lifetime, oldKey |-> FALSE]

AnswersInit ==
  /\ app = AtRest
  /\ build = 1
  /\ token = Fresh(0)
  /\ paid = FALSE
  /\ minimum = None
  /\ moves = 0

-----------------------------------------------------------------------------
(* Errors                                                                  *)

AppError(status, code) == [kind |-> "app", status |-> status, code |-> code]

BadRequest == AppError(400, "BAD_REQUEST")
Unauthorized == AppError(401, "UNAUTHORIZED")
PaymentRequired == AppError(402, "SUBSCRIPTION_REQUIRED")
Forbidden == AppError(403, "FORBIDDEN")
NotFound == AppError(404, "NOT_FOUND")
Conflict == AppError(409, "CONFLICT")
ClientUpdateRequired == AppError(426, "CLIENT_UPDATE_REQUIRED")
AuthUnavailable == AppError(503, "AUTH_UNAVAILABLE")

(* mutation: a claim that fails is a token that fails                      *)
ToAppError_SkewIsUnauthorized(code) ==
  CASE code \in {"NO_ROWS_RETURNED", "RLS_VIOLATION"} -> NotFound
    [] code = "UNIQUE_VIOLATION" -> Conflict
    [] code \in {"FOREIGN_KEY_VIOLATION", "CHECK_VIOLATION"} -> BadRequest
    [] code \in {"JWT_INVALID", "JWT_ANON_DISABLED", "JWT_CLAIMS_INVALID"} -> Unauthorized
    [] OTHER -> AppError(500, "DATABASE_ERROR")

ToAppError(code) ==
  CASE code \in {"NO_ROWS_RETURNED", "RLS_VIOLATION"} -> NotFound
    [] code = "UNIQUE_VIOLATION" -> Conflict
    [] code \in {"FOREIGN_KEY_VIOLATION", "CHECK_VIOLATION"} -> BadRequest
    [] code \in {"JWT_INVALID", "JWT_ANON_DISABLED"} -> Unauthorized
    [] code = "JWT_CLAIMS_INVALID" -> AuthUnavailable
    [] OTHER -> AppError(500, "DATABASE_ERROR")

(* mutation: the status of GoTrue's error is passed through                *)
ToAuthAppError_AnyStatus(status, credentials) ==
  CASE status = 400 -> IF credentials THEN Unauthorized ELSE BadRequest
    [] status = 401 -> Unauthorized
    [] status = 403 -> Forbidden
    [] status = 404 -> NotFound
    [] status = 409 -> Conflict
    [] status = 422 -> BadRequest
    [] status = 429 -> AppError(429, "RATE_LIMITED")
    [] OTHER -> AppError(IF status >= 500 THEN 500 ELSE status, "AUTH_ERROR")

(* A status of 0 is auth-js saying that GoTrue was not reached.            *)
ToAuthAppError(status, credentials) ==
  CASE status < 400 \/ status > 599 -> AuthUnavailable
    [] status = 400 -> IF credentials THEN Unauthorized ELSE BadRequest
    [] status = 401 -> Unauthorized
    [] status = 403 -> Forbidden
    [] status = 404 -> NotFound
    [] status = 409 -> Conflict
    [] status = 422 -> BadRequest
    [] status = 429 -> AppError(429, "RATE_LIMITED")
    [] OTHER -> AppError(IF status >= 500 THEN 500 ELSE status, "AUTH_ERROR")

Fastify(status) == [kind |-> "fastify", status |-> status, code |-> "FST_ERR"]
Validation == [kind |-> "validation"]
Serialization == [kind |-> "serialization"]

(* reply.status() throws on what is no status, inside the error handler:   *)
(* then the app gets an empty 500.                                         *)
Sent(status, code) ==
  IF status \in 100..599 THEN [status |-> status, code |-> code]
  ELSE [status |-> 500, code |-> Missing]

ErrorHandler(error) ==
  CASE error.kind = "validation" -> Sent(400, "VALIDATION_ERROR")
    [] error.kind = "serialization" -> Sent(500, "INTERNAL_ERROR")
    [] error.kind = "app" -> Sent(error.status, error.code)
    [] error.kind = "fastify" ->
         IF error.status < 500 THEN Sent(error.status, error.code)
         ELSE Sent(500, "INTERNAL_ERROR")

-----------------------------------------------------------------------------
(* The app with an answer: 401 sign in, 402 purchase, 426 App Store, 503   *)
(* back off and repeat; anything else is shown.                            *)

Screen(status) ==
  CASE status = 401 -> "signIn"
    [] status = 402 -> "buy"
    [] status = 426 -> "update"
    [] status = 503 -> "wait"
    [] OTHER -> "told"

(* The request in hand is refused.  faulty is history: what went wrong was *)
(* the request itself, or a service that failed.                           *)
Refuse(error, again, faulty) ==
  LET reply == ErrorHandler(error)
  IN app' = [at |-> Screen(reply.status), again |-> again, reply |-> reply, faulty |-> faulty]

(* Goes on to another step, with no answer yet.                            *)
GoOn(at) == app' = [at |-> at]

Call ==
  /\ app.at = "rest"
  /\ GoOn("hooks")
  /\ UNCHANGED <<build, token, paid, minimum, moves>>

-----------------------------------------------------------------------------
(* The request                                                             *)

OldBuild == ~EvaluateClientBuild(build, ClientGateOptions(minimum, None)).allowed

(* The rate limit, the build, then requireAuth: the signature, by keys it  *)
(* may have cached, and the expiry.                                        *)
Hooks ==
  /\ app.at = "hooks"
  /\ \/ Refuse(Fastify(429), "hooks", TRUE)
     \/ OldBuild /\ Refuse(ClientUpdateRequired, "hooks", FALSE)
     \/ ~OldBuild /\ (token.left = 0 \/ token.oldKey) /\ Refuse(Unauthorized, "hooks", FALSE)
     \/ ~OldBuild /\ token.left > 0 /\ GoOn("gate")
  /\ UNCHANGED <<build, token, paid, minimum, moves>>

(* What PostgREST may say of the token, before any policy is looked at.    *)
Refusals ==
  (IF token.left = 0 THEN {"JWT_INVALID", "JWT_CLAIMS_INVALID"} ELSE {})
  \cup (IF token.oldKey THEN {"JWT_INVALID"} ELSE {})
  \cup (IF token.ahead > 0 THEN {"JWT_CLAIMS_INVALID"} ELSE {})

(* mutation: a row that cannot be read is a subscription that is not there *)
RequireSubscription_ErrorIsNoRow ==
  /\ app.at = "gate"
  /\ \/ \E code \in Refusals : Refuse(PaymentRequired, "hooks", FALSE)
     \/ Refuse(PaymentRequired, "hooks", TRUE)
     \/ Refusals = {} /\ ~paid /\ Refuse(PaymentRequired, "hooks", FALSE)
     \/ Refusals = {} /\ paid /\ GoOn("handler")
  /\ UNCHANGED <<build, token, paid, minimum, moves>>

RequireSubscription ==
  /\ app.at = "gate"
  /\ \/ \E code \in Refusals : Refuse(ToAppError(code), "hooks", FALSE)
     \/ Refuse(ToAppError("PGRST000"), "hooks", TRUE)
     \/ Refusals = {} /\ ~paid /\ Refuse(PaymentRequired, "hooks", FALSE)
     \/ Refusals = {} /\ paid /\ GoOn("handler")
  /\ UNCHANGED <<build, token, paid, minimum, moves>>

RowErrors ==
  {"NO_ROWS_RETURNED", "UNIQUE_VIOLATION", "FOREIGN_KEY_VIOLATION", "CHECK_VIOLATION",
   "RLS_VIOLATION", "PGRST000"}

(* The body is validated, the statement made, the answer serialized.       *)
Handler ==
  /\ app.at = "handler"
  /\ \/ \E error \in {Validation, Serialization} : Refuse(error, "hooks", TRUE)
     \/ \E code \in Refusals : Refuse(ToAppError(code), "hooks", FALSE)
     \/ \E code \in RowErrors : Refuse(ToAppError(code), "hooks", TRUE)
     \/ Refusals = {} /\ GoOn("served")
  /\ UNCHANGED <<build, token, paid, minimum, moves>>

-----------------------------------------------------------------------------
(* The screens                                                             *)

GoTrueStatuses == {0, 302, 400, 401, 403, 404, 409, 418, 422, 429, 500, 503, 600}

(* POST /sign-in, which the gate on the build precedes too.  An outage is  *)
(* one of the counted moves; bad credentials end the attempt.              *)
SignIn ==
  /\ app.at = "signIn"
  /\ \/ OldBuild /\ Refuse(ClientUpdateRequired, "signIn", FALSE) /\ UNCHANGED <<token, moves>>
     \/ /\ ~OldBuild /\ moves < MaxMoves /\ moves' = moves + 1
        /\ \E status \in GoTrueStatuses, credentials \in BOOLEAN :
             LET error == ToAuthAppError(status, credentials)
             IN IF error = Unauthorized
                THEN app' = [at |-> "told", again |-> "signIn", faulty |-> TRUE,
                             reply |-> ErrorHandler(error)]
                ELSE Refuse(error, "signIn", TRUE)
        /\ UNCHANGED token
     \/ /\ ~OldBuild /\ \E ahead \in 0..Skew : token' = Fresh(ahead)
        /\ GoOn("hooks") /\ UNCHANGED moves
  /\ UNCHANGED <<build, paid, minimum>>

Buy ==
  /\ app.at = "buy"
  /\ paid' = TRUE
  /\ GoOn("hooks")
  /\ UNCHANGED <<build, token, minimum, moves>>

InstallUpdate ==
  /\ app.at = "update"
  /\ build' = Latest
  /\ GoOn(app.again)
  /\ UNCHANGED <<token, paid, minimum, moves>>

Older(t) == [t EXCEPT !.ahead = IF @ > 0 THEN @ - 1 ELSE 0, !.left = IF @ > 0 THEN @ - 1 ELSE 0]

Wait ==
  /\ app.at = "wait"
  /\ token' = Older(token)
  /\ GoOn(app.again)
  /\ UNCHANGED <<build, paid, minimum, moves>>

Rest ==
  /\ app.at \in {"served", "told"}
  /\ app' = AtRest /\ moves' = 0
  /\ UNCHANGED <<build, token, paid, minimum>>

AppStep ==
  \/ Hooks \/ RequireSubscription \/ Handler
  \/ SignIn \/ Buy \/ InstallUpdate \/ Wait

(* What happens outside.                                                   *)
Outside ==
  /\ moves < MaxMoves /\ moves' = moves + 1
  /\ \/ token' = Older(token) /\ UNCHANGED <<paid, minimum>>
     \/ token' = [token EXCEPT !.oldKey = TRUE] /\ UNCHANGED <<paid, minimum>>
     \/ paid' = FALSE /\ UNCHANGED <<token, minimum>>
     \/ minimum' = Latest /\ UNCHANGED <<token, paid>>
  /\ UNCHANGED <<app, build>>

AnswersNext == Call \/ AppStep \/ Rest \/ Outside

(* The server answers what it is asked, and the app does as it is told.    *)
AppFairness == WF_answerVars(AppStep)

AnswersSpec == AnswersInit /\ [][AnswersNext]_answerVars /\ AppFairness

-----------------------------------------------------------------------------
(* Properties                                                              *)

(* Every refusal is an envelope with a status of its own, whatever Fastify,*)
(* PostgREST or GoTrue reported: never an empty 500 for a GoTrue that was  *)
(* not reached, however the request got there (errors.ts:91-103).          *)
RepliesSpeak ==
  "reply" \in DOMAIN app => app.reply.code # Missing /\ app.reply.status \in 400..599

(* Four refusals, four screens: nobody is sent to sign in again with a     *)
(* token that only needs a moment, to pay while paid up, or to the App     *)
(* Store with a build that is allowed, though the reasons pile up and      *)
(* change under way; and "something went wrong" is said only when the      *)
(* request or a service did (docs/ios-integration.md:169, errors.ts:58).   *)
RightScreen ==
  /\ app.at = "signIn" => token.left = 0 \/ token.oldKey
  /\ app.at = "buy" => ~paid
  /\ app.at = "update" => OldBuild
  /\ app.at = "told" => app.faulty

(* An app that does what each answer says is served in the end, or told of *)
(* a fault: no refusal sends it round in circles, such as signing in for   *)
(* ever newer tokens that are ever more ahead of PostgREST's clock.        *)
Resolved == app.at = "hooks" ~> app.at \in {"served", "told"}
=============================================================================
