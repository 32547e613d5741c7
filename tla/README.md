# Verification of budj-server

TLA+ models of [budj-server](../src), the server of an iOS budgeting app: Fastify
over Supabase (Postgres), with subscriptions sold through the App Store and bank
data read through Akahu, an open-banking aggregator. The models are translated from
the source; TLC checks small instances of them, and TLAPS proves the properties that
matter most for every instance.

Paths in this file are relative to `src/src/` of the checkout unless they name
another directory.

## 1. Inventory

### Parts, their state and their operations

| Part | State it keeps | Operations | Modelled by |
|---|---|---|---|
| Billing: entitlement rules, `modules/billing/entitlement.ts` | none (pure) | `isCurrentlyEntitled`, `resolveOutcome`, `shouldApply` | `Entitlement` |
| Billing: notifications and submissions, `notifications.service.ts`, `billing.service.ts`, `billing.repository.ts`, the gate in `billing.plugin.ts` | `billing_subscriptions`, one row per user, unique on `original_transaction_id` | `POST billing/apple/notifications`, `POST billing/transaction` (behind the API prefix), `requireSubscription` | `Billing` |
| App Store | subscriptions, signed notifications and transactions | purchases, renewals, grace periods, refunds; delivery with retries | `AppStore` (external) |
| Bank connections, `modules/bank-connections` | `akahu_auth_states`, `akahu_tokens`, `akahu_connections`, `accounts` | authorise, callback, sync, delete; the revoker billing calls | `BankConnections` |
| Akahu | the tokens it honours and bills for, the accounts it reports | exchange, list, revoke | inside `BankConnections` |
| The two together, `app.ts`, `modules/index.ts` | the same database | the gate before every bank route, the revocation inside a delivery | `Server` |
| Rules engine and rule routes, `modules/rules` | `rules` | create, patch, remove, list, evaluate | `RulesEngine`, `Rules` |
| Accounts, `modules/accounts` | none: reads the projection | the filtered list | `Accounts` |
| Pagination, `lib/pagination.ts` | none (pure) | offset, limit, `hasMore` | `Paging` |
| Errors, `supabase/errors.ts`, `plugins/error-handler.ts`, `lib/errors.ts` | none | what a failed call becomes for the app | `Answers` |
| Money, `lib/money.ts` | none (pure) | decimal strings to cents and back | `Money` |
| Auth and sessions, `modules/auth` | none: GoTrue has the sessions | sign up, confirm, sign in, refresh, sign out; access tokens checked locally | `Sessions` |
| Onboarding, `modules/onboarding` | none: derived from three reads | the step to show | `Onboarding` |
| Devices, `modules/devices` | `device_registrations` | register, revoke, the active-device check | `Onboarding` |
| Client version gate, `plugins/client-version.ts` | the configuration | the minimum build, the builds kept from money | `ClientVersion` |
| Apple grants, `modules/auth/apple.*` | `apple_grants` | capture: exchange, encrypt, store | `Credentials` |
| Token encryption, `lib/token-crypto.ts` | the keyring, ciphertexts by key version | parse, encrypt, decrypt; rotation by `docs/key-runbook.md` | `Credentials` |
| JWS verification, plan catalogue, user profile, configuration, start-up | see section 6 | | no |

### How the parts interact

- Apple calls `billing/apple/notifications`, retries until it has a 2xx, and delivers in
  any order. The app calls `billing/transaction` with a transaction it holds. Both
  read a subscription row, decide in JavaScript and then upsert the whole row: two
  awaits, no transaction around them.
- A notification that ends entitlement makes the handler await
  `BankAccessRevoker.revoke`, which bank connections implement
  (`akahu-revoker.ts`). That call is the only one from billing to banks.
- Every bank route passes `requireAuth` and `requireSubscription` once, before the
  handler's first call, and then makes up to a dozen awaited calls. The gate is the
  only thing banks read of billing.
- The rows of one user are shared by that user's concurrent requests, by the
  revoker, and by nobody else; `akahu_auth_states` is found by state alone, so a
  state travels between users.
- Onboarding reads what billing, banks and devices have written, without a
  transaction; the access token that let it in may expire between its reads.
- Access tokens are minted by GoTrue and verified by the server on its own, then once
  more by PostgREST on every call made as the user, with its own clock.
- The keyring is read when a process starts. During a deploy processes with the old
  and the new configuration write to the same tables.

### What is hard here, and the properties that answer it

The `hazards` of `PROJECT.json` list these with their lines. In short:

- *read, decide, upsert* of a whole row by two concurrent handlers, or a handler and a
  submission (`RegressOnlyOnStaleRead`, `CursorIsOwn`, `NoServiceBeyondPaidTerm`,
  `OneSubscriptionOneAccount`);
- replayed, reordered, early, unknown and unlinked notifications (`AppliedOnce`,
  `OwnersClaimed`, `EveryNoticeAcked`);
- a failure between the upsert and the revocation (`EndIsRevoked`);
- grace periods, which have no expiry in the row (`LapseLeadsToRefusal`,
  `AutoRenewOffKeepsService`), and payloads signed before a refund (`RefundSticks`);
- a redirect replayed, raced or carried to another user (`SingleUse`, `TokenIsOwn`);
- a revocation that fails half way, or meets a callback that stores a new token
  (`LiveTokenKept`, `ForgetsOnlyRevoked`);
- syncs that die half way and an aggregator that answers with nothing
  (`GoneForAReason`, `Converges`);
- a revocation that runs next to a user who pays again, or for the wrong one
  (`BankSpec`, `EndDisconnects`, `OnlyAppleEndsAccess`);
- rules patched, removed and reordered under evaluation and under a client that pages
  through them (`EvaluationAgrees`, `PagesTile`, `NoInterference`), and an order that
  is not total (`OnlyNamesakesSlip`);
- refusals that pile up, clocks that disagree, and answers that send the app round in
  circles (`RepliesSpeak`, `RightScreen`, `Resolved`);
- tokens that outlive a sign-out, and a status put together from reads at different
  moments (`SignOutBounds`, `StatusIsFresh`);
- keys rotated under requests in flight and under writes that land late, and grants
  that cannot be captured twice (`NewestReads`, `GrantKept`);
- clients that do not say who they are (`MoneyGate`).

## 2. Modules

### Billing

`Entitlement` holds the three functions of `entitlement.ts`, one operator each.

`AppStore` is Apple's side, modelled from what the server reads of it: a
subscription has a phase and a paid term; every event signs a notification (its
index in `sent` is its UUID) and the transaction that goes with it (`receipts`).
`Ties` says whether two notifications of one subscription may carry the same
`signedDate`, and `Gaps` which of the fields that `billing.types.ts` makes optional
Apple may leave out: the date, the transaction, the expiry.

`Billing` composes the two with the server. `rows` is `billing_subscriptions`
(`Null` where there is no row); `delivery` and `submission` are the requests in
flight with what they have read.

| Action | Code |
|---|---|
| `IgnoreNotification` | every `handled: false` of `AppleNotificationService.handle` and `apply`: an ignored type, no transaction info, an unlinked subscription, a replay or an out-of-order notification |
| `ReadForNotification`, `WriteNotification`, `RevokeAccess` | the handler up to the upsert; the upsert; the awaited revocation |
| `RefuseNotification`, `RefuseSubmission` | the upsert hits the unique index |
| `FailDelivery`, `FailSubmission` | an await rejects or the process dies, where `Failures` allows it |
| `ReadForSubmission`, `WriteSubmission` | `submitTransaction` up to its upsert; the upsert, with the cursor of the row it read |

`acked`, `applied`, `revoked`, `claims` and `heard` are histories; no guard reads them.
A handler in flight forgets nothing it has read: `seen` is the row at the time. `heard`
is, for each row, the notifications it has taken in order: it grows while every write
is made on a read that still is the row and every notification has a date, and starts
afresh otherwise, since the code then orders nothing. It is what the claims about
ordering are stated over.

Abstractions: payloads arrive verified; `plan_code` and `product_id` are left out
(one plan); a submission's `now` is that of its read, where the code takes it at the
call, just before it. Ignoring is one step, since it reads once and
writes nothing.

### Bank connections

`BankConnections` has one step per awaited call of the four routes and of the
revoker. `req` holds each request with its program counter and its locals, so what
a handler read before an await is what it uses after it; `Fail` rejects the call a
request waits at, and what it wrote before stays written.

| Route | Steps, in order |
|---|---|
| `POST /authorise` | `Authorise`, `CountConnections`, `IssueState` |
| `POST /callback` | `Callback`, `ConsumeState`, `ExchangeCode`, `StoreToken`, then as sync from `ListAccounts` |
| `POST /sync` | `Sync`, `GetToken`, `ListAccounts`, `UpsertConnection` for each bank, `UpsertAccount` for each account, `MarkAccountsMissing` |
| `DELETE /:id` | `Delete`, `DisconnectConnection`, `DisconnectItsAccounts` |
| `AkahuBankAccessRevoker.revoke` | `Revoke`, `ReadSecret`, `AkahuRevoke`, `ForgetToken`, `MarkConnections`, `MarkAccounts` |

Billing is abstracted to `GainEntitlement` and `LoseEntitlement`, at any moment, and
a revocation at any time, any number of times, once entitlement has ended: any use
billing can make of the revoker is one of these (billing makes one call for each
ending notification it applies; `Server` has it so). Akahu is two variables: the tokens
it honours (`live`) and what bought them (`minted`); it reports any set of accounts
for a token it honours and refuses the others, and a revocation may succeed, fail,
or be carried out and its answer lost. A row is `"absent"`, `"live"`
(`disconnected_at` null) or `"gone"`; names, logos, types, balances and dates are
left out, and `Bank` says which institution an account hangs off.

Akahu may return several accounts of one institution and the code upserts the
institution once; the order of the report is any order.

`AuthorisationGrant` is the abstract specification of an authorisation state: a
capability granted to one user, spent at most once, for that user, or void.
`BankConnections` implements it under the mapping `GrantPhase`, `GrantHolder`; the
property `SingleUse` is `Grant!Spec`.

### Billing and bank connections composed

`Server` extends `Billing` and instantiates `BankConnections` with `entitled` replaced
by the users `requireSubscription` lets through (`Paying`, billing's row and the
clock), and with one request slot per delivery for the revocation it awaits.

| Action | Code |
|---|---|
| `BillingMoves` | Apple, deliveries up to the revocation, submissions; who has lost entitlement is recorded in `ended` and `excused` |
| `UserMoves` | one call of a user's bank request, let in by the gate |
| `CallRevoker`, `RevokerMoves`, `RevokerReturns` | the delivery calls the revoker, whose awaits follow one by one, and answers when the last has returned |
| `RevokerThrows` | an await of the revocation rejects, and the delivery with it |
| `StateExpires` | a state's time runs out |

The abstract specification is `BankConnections` itself: its environment lets
entitlement come and go at any moment and calls the revoker at will once it has
ended. The property `BankSpec` says that the server, projected on the bank tables, is
a behaviour of it.

### A user's own data

`UserData` puts three parts side by side that share no state.

`RulesEngine` is `rules.engine.ts`: conditions, actions, the stable sort and the loop
with its break. What JavaScript says of two texts (lower case, substring, regular
expression, number) is given by constants, so that a regular expression is a relation
and not a program. `PassRules` is the loop over the ordered rules and `PassRule` its
body; `ApplyActions` and `AddTags` are the two loops inside. A query with an order is a
`CHOOSE` of the listings that have it: for rules the order is total, so there is one,
and nothing rests on how TLC sorts. `Rules` is the table and the routes: `Create`,
`Update`, `Delete`, each one statement, and `Evaluate`. `Parsed` is what the schemas
make of a body, defaults included, for POST and PATCH alike. A client pages through the
list (`StartReading`, `ReadPage`, `StopReading`) while rules change; what changed is
its history. `Paging` holds `Paginate`.

`Accounts` is the list of accounts: `Results` is the set of orders Postgres may return
the selected rows in, since the query orders by name alone, and each page is a query
of its own. `Sync` is what a sync of `BankConnections` leaves of one row.

`Answers` is one request of the app on its way: `Hooks` (rate limit, build, access
token), `RequireSubscription`, `Handler`; `ToAppError`, `ToAuthAppError` and
`ErrorHandler` are the functions of the same names. The app is external and does what
`docs/ios-integration.md` tells it to with each status: sign in, buy, update, wait or
show a fault. Its token is `ahead` of PostgREST's clock by some ticks and has some
`left`. From outside the token ages, the signing key moves, the subscription lapses
and a minimum build is deployed.

`Money` has no state. Its two properties are an assumption of `MCUserData`, which TLC
evaluates, and theorems of `MoneyProofs`.

### Identity and credentials

`Identity` puts two parts side by side that share no state.

`Sessions` has GoTrue, external, and the handlers that relay it, each of them two
steps: the call at GoTrue, and the answer reaching the app, which may be lost.
`Verified` is the local check of an access token: its expiry and nothing else. A pair
of tokens remembers, as history, when its user last signed out since its session
began.

`Onboarding` stands on `Sessions`. A status request remembers the time it began and
the token that let it in; `ReadSubscription`, `ReadToken` and `ReadDevices` come in
any order, and between them the subscription row, the token row, the devices and the
clock change. A read made as the user fails when the token has expired meanwhile.
`Register` and `Revoke` are the two statements on `device_registrations`. The rows of
billing and banks are changed at will here: any behaviour of `Server` is one of these.

`ClientVersion` has the two decisions of the gate on builds, and the parsing of the
header and of a range that may be written the wrong way round.

`Credentials` has the secret store (`config`), the keyring each process parsed when it
started (`ring`) and the two tables of ciphertexts, a ciphertext being the version of
its key. `Exchange`, `Encrypt`, `Upsert` and `FailCapture` are a capture;
`PrependKey`, `Restart` and `DropKey` are the steps of `docs/key-runbook.md`. A request
that fails, times out or ends with its process may have sent its upsert: that write is
then `"adrift"`, and reaches the table later (`Land`) or never. `DropKey` has no guard
about what is stored. The runbook asks that nothing reference the old key, and to make
sure by decrypting every stored ciphertext "or simply" by waiting; neither looks at a
write under way or at a process that still encrypts with the old key, and waiting looks
at no row. `hasty` is the history of the versions dropped while something referenced
them (`References`).

### Instances and proofs

`MCBilling`, `MCBankConnections`, `MCServer`, `MCUserData` and `MCIdentity` hold the
definitions the configurations use: symmetry sets, views, starting states, bounds.
`BillingProofs`, `BankConnectionsProofs`, `ServerProofs`, `IdentityProofs`,
`AnswersProofs`, `ListProofs`, `RulesProofs` and `MoneyProofs` hold the theorems.

## 3. Runs

| Run | Instance | Shows |
|---|---|---|
| `billing_races` | 2 users, 2 subscriptions, 2 handlers, 1 submission, 3 notifications, of which one may lack its date, clock to 2; purchases, grace periods, refunds; every request may die at every await | `TypeOK`, `OneSubscriptionOneAccount`, `OwnersClaimed`, `CursorIsOwn`, `NoServiceBeyondPaidTerm`, `RegressOnlyOnStaleRead` |
| `billing_serial` | 2 users, 2 subscriptions, of which 1 claimed, 1 handler, 1 submission, all of Apple's events, 4 notifications, of which one may lack its transaction or expiry, clock to 4; the upsert may be rejected | `NoServiceBeyondPaidTerm`, `AppliedOnce`, `EveryNoticeAcked`, `LapseLeadsToRefusal`, `EndIsRevoked` under fairness |
| `bank_requests` | 2 users, 2 requests, 2 states, 2 tokens, plan limit 1; every await may be rejected | `TypeOK`, `TokenIsOwn`, `SingleUse`, `LiveTokenKept` |
| `bank_projection` | 1 user, 2 banks, 2 requests; every await may be rejected | `GoneForAReason`, `Converges` under fairness |
| `server` | 1 paying user, 2 subscriptions (one nobody submitted), 1 delivery, 1 submission, 1 bank request, 1 account; 2 notifications, refunds and grace periods, clock to 2; rejected upserts, reads, deletes and updates | `BankSpec`, `OnlyAppleEndsAccess`, `EndDisconnects` under fairness |
| `lists` | 2 users, 3 rules, 3 bodies, 1 patch, 2 transactions, pages of 1; 3 accounts of which 2 have one name, of 2 types and 2 connections, pages of 2; 2 builds, tokens of 4 ticks up to 2 ahead, 2 outside events a call | `RulesTypeOK`, `EvaluationAgrees`, `PagesTile`, `NoInterference`, `OnlyNamesakesSlip`, `RepliesSpeak`, `RightScreen`, `Resolved` under fairness, and the assumption on money up to 12.99 |
| `identity` | 2 devices, tokens of 2 ticks, clock to 4, 2 subscription rows, 1 phone, 2 configurations of the gate; 3 key versions, 7 keyrings, 2 processes, 2 captures | `SessionsTypeOK`, `SignOutBounds`, `StatusIsFresh`, `MoneyGate`, `NewestReads`, `GrantKept` |

### Bounds, and why they are enough

*Billing and banks alone.* A race needs two actors on one row, so two handlers and one
submission, or two requests, reach every overlap of a pair, and two users with two
subscriptions (or states, or tokens) reach every crossing of owners. Three
notifications are a purchase, what follows, and one to race it; four, with one handler,
are enough to enter a grace period, change auto-renewal in it, leave it and be
reordered throughout. `billing_serial` starts where any of the subscriptions have been
bought and one account has submitted one of them (`InitClaimed`), and tells two kinds
of stories (`Stories`): with one subscription bought, its whole life, reordered, under
the one handler, and nobody submits; with both bought, time and Apple stand still after
what was signed, and the accounts submit, change subscription and hand one over while a
notification is on its way. `OneGap`: at most one notification of a behaviour lacks a
field. In `billing_serial` that is its transaction or its expiry, in `billing_races`
its date, so that the properties about order and eventual answers are about dated
notifications and the missing date meets two handlers. Two accounts at two banks let a
report omit one and keep the other. `billing_races` and `bank_requests` identify states
that differ only in histories that none of their properties read (a `VIEW`), and users,
requests, states and tokens are interchangeable in them (`SYMMETRY`; both check safety
alone). In `bank_requests` a user who has lost entitlement does not pay again
(`EndsForGood`); `bank_projection` lets entitlement come and go.

*Server.* The run starts in `InitPaying`: the user has bought and submitted and has not
connected a bank. That state is reachable but for `sent`, which leaves out the
notification of the purchase: it would be one of the two the instance has. Two
notifications are one that ends the subscription and one that does not, or one of the
other subscription. One bank request next to the delivery, and the submission with
which the user pays again, make the three actors of the race; `PaysAgain` says that the
app submits only when it finds itself without entitlement, and only what the account
had bought. More of each is what `billing_races` and `bank_requests` have, and what the
theorems cover.

*Lists.* `ApartSpec`: of rules, accounts and answers only one moves in a behaviour; they
share nothing. `OneKindOfChange`: while a list is being read its owner only adds, only
patches or only removes, nobody else changes anything, and nothing changes between
the last page and the check of what was read. `FirstRuleIsMine`: the first rule is
always the same user's. The bodies of `SomeInputs` put a rule that stops before one
that does not, two tags twice, a disabled rule that a patch enables, a negative
condition on an absent field, and numbers as texts. Three rules in pages of one, and
three accounts in pages of two, make a boundary that a row can cross.

*Identity.* `Apart`: sessions and credentials likewise. `Asking`: the status is asked,
and devices registered, once the sessions have settled on one client with tokens, since
what onboarding needs of sessions is a token that may expire; sign-out against refresh
is what the rest of the instance explores. Two ticks of lifetime in a clock of four let
a token expire before, during and after a request. Three versions are a rotation and
the next; the keyrings include lists that do not parse.

Deadlock is checked for the bank runs and for `lists`, where a step is always
possible; elsewhere the clock, the notifications or the events are bounded, so the
system stops at the bound, and those configurations say `CHECK_DEADLOCK FALSE`.

### Fairness

- *Apple retries* whatever has no 2xx, so a notification not yet answered keeps being
  delivered: weak fairness of ignoring it, strong fairness of reading it, since
  a free handler comes and goes.
- *A handler that has started runs to its end*: strong fairness of its upsert and
  its revocation, because a rejected await may pre-empt each of them but not for
  ever. `EveryNoticeAcked` has as hypothesis that the accounts do not go on submitting
  for ever, since one that takes a subscription back and forth can have every delivery
  in between refused; and it is about notifications with a date, since of several
  without one the failures might single one out while the others are applied again and
  again. Where a run lets the revocation fail, the retry is exactly what does not
  happen (below).
- *A bank request advances or is rejected*: weak fairness of the two together. Calls
  to Akahu carry a timeout (`akahu.client.ts`), and database calls settle.
- *A revocation under way advances or throws* (`RevocationFairness`): weak fairness of
  the delivery's revoking steps together, for the same two reasons. Nothing obliges
  it to succeed: `EndDisconnects` excuses a revocation of which an await threw.
- *The server answers and the app does as it is told* (`AppFairness`): weak fairness
  of the app's steps and the server's together. Time, lapses and deployments have no
  fairness, and at most `MaxMoves` of them fall into one call.
- Nothing obliges a user to send a request, Apple's events to happen, or billing to
  revoke. `Converges` therefore has as a hypothesis that syncs keep completing. No
  property supposes that a revocation is tried again: the code does not do it (below).

## 4. What the code does otherwise than it says

Each is a run that expects a violation, and a finding of `PROJECT.json` with the line
quoted.

- `billing_revoke_retry`: the upsert records the notification's UUID before the
  revocation is awaited; if that fails, Apple's retry is taken for a replay, and the
  revocation of that notification never happens.
- `billing_refund`: a transaction signed before a refund, submitted after it,
  entitles the account again.
- `billing_auto_renew`: turning auto-renew off during a grace period sets the row to
  `active` with an expiry that has passed, and ends service.
- `billing_grace_race`: of two handlers that read the same row, the one with the
  older grace-period notification writes last; the end of the grace period is lost.
- `bank_token_race`: `forget` deletes by `user_id`: a token that a callback stored
  while the revocation was at Akahu is deleted live.

`RegressOnlyOnStaleRead` and `LiveTokenKept` are the strongest forms of the last two
that do hold: ordering is lost to a stale read or to a notification without a date, and
to nothing else; a live token is lost to such a race or to another token of the same
user, and to nothing else. `EndDisconnects` is what is left of the
first: the banks go unless an await of the revocation throws or a request let in
before is still writing.

The models contain further divergences that no run is spent on:

- PATCH of a rule resets what it does not name: `.partial()` keeps the defaults of the
  create schema, so priority, `isEnabled` and `stopProcessing` go back to 100, true
  and false, and `{}` passes for a body with a field (`Parsed`).
- `billing/plans.ts:23` asks that `maxRules` be kept enforced; no route reads it.
- `lib/token-crypto.ts:19-20` and the runbook say that a rotation has no window in
  which rows are unreadable. While it is deployed process by process, a process with
  the old keyring cannot read what one with the new has written (`Restart`, `ring`).
- A numeric comparison takes an empty text for 0, as `Number('')` does (`Number` of
  the instance).
- The runbook's step 3 verifies what is stored and nothing that is on its way there: a
  key dropped while a process still encrypts with it, or while an upsert under it is
  under way, leaves a row that nothing can read, although every stored ciphertext
  decrypted when it was checked (`DropKey`, `References`). `NewestReads` is what holds.
- A sync let in before entitlement ended may bring connections back after the one
  revocation has marked them, and nothing takes them down again (the second exception of
  `EndDisconnects`).
- A second callback stores its token over a live one, which Akahu goes on billing for
  (the first exception of `LiveTokenKept`).
- A notification without a date is applied whatever the row has taken before, and
  takes the date off the row, so that any older notification passes after it
  (`WritesUndated`).
- A sign-out leaves access tokens valid until they expire: `SignOutBounds` is the
  bound that holds.

## 5. Proofs

All theorems hold for every value of the constants under the assumptions named in the
modules: special values differ from the values they are told apart from
(`NullAssumption`, `BankNullAssumption`, `TokensAssumption`, `NoTokenAssumption`,
`AbsentAssumption`), bounds are naturals (`BoundsAssumption`, `LimitAssumption`,
`TTLAssumption`, `MoneyAssumption`), and the inputs have the shapes the code lets in
(`GapsAssumption`, `RowsAssumption`, `GatesAssumption`, `ConfigsAssumption`,
`SlotsAssumption`, `PagesAssumption`, `InputsAssumption`, `AccountsAssumption`).
`InputsAssumption` is `createRuleSchema` and `updateRuleSchema`: at least one condition
and one action, each action of one of five types, tags a list. `AccountsAssumption` is
that a table is finite, its names are ordered, and a page holds a row.
`AnswersAssumption` adds that the clocks differ by less than a token's lifetime: a
token that PostgREST never gets to accept helps nobody. Each theorem follows the usual
argument: the initial states satisfy an invariant, every step preserves it, it implies
the property.

### Billing (`BillingProofs`)

The properties are not inductive alone: a request in flight writes what it read a
step or more ago. `IInv` therefore adds to `TypeOK`, `OneSubscriptionOneAccount`,
`OwnersClaimed` and `CursorIsOwn`

- `DeliveryReads`: the user of a handler in flight has claimed the notification's
  subscription, and the notification applied over the row it read;
- `SubmissionReads`: the row a submission read is of the subscription it submits,
  with a cursor of that subscription, and a status `active` was not resolved from a
  refunded transaction;
- `SignedIsPaid`, `RowIsPaid`: nothing Apple signed, and so no row, goes beyond the
  paid term;
- `RowSays`: the status of an entitling row is the outcome of its last notification, or
  `active` by a submission of the account;
- `HeardInOrder`: whatever a row has heard is its last notification or was signed no
  later than it.

From it:

| Theorem | Property |
|---|---|
| `TypeCorrect` | `TypeOK` |
| `Inductive` | the invariant itself |
| `Unique` | `OneSubscriptionOneAccount` |
| `Claimed` | `OwnersClaimed` |
| `Cursor` | `CursorIsOwn` |
| `NoFreeService` | `NoServiceBeyondPaidTerm` |
| `Ordered` | `RegressOnlyOnStaleRead` |
| `Replays` | `AppliedOnce`, of a specification with distinct dates |

`NoFreeService` follows from `RowIsPaid` and `RowSays` for the term, and from
`HeardInOrder` for the ends of it: an end that is not superseded is the row's last
notification, whose outcome does not entitle, so the row must have been submitted since.

`Replays` has the hypothesis `~Ties`, since of two notifications of a subscription with
one date each replaces the other's UUID and either passes again. It holds for any number
of handlers and submissions; the property itself speaks of a write on a fresh read, over
a row that has not started afresh. A row remembers only its last UUID, so the argument is
about dates: a notification the row has heard is no newer than its cursor
(`HeardInOrder`), and notifications of one subscription have different dates
(`DatesDiffer`); so a replay is the cursor, which `shouldApply` refuses, or older, which
it refuses too (`FreshIsNew`).

### Bank connections (`BankConnectionsProofs`)

| Theorem | Property | Rests on |
|---|---|---|
| `TypeCorrect` | `TypeOK` | |
| `Single` | `SingleUse`, the refinement of `AuthorisationGrant` | `GrantInv`: a request about to exchange a code is the only one holding its state, which it has consumed, which is its own user's and has bought nothing |
| `OwnToken` | `TokenIsOwn` | `GrantInv` and `CustodyInv`: the tokens of requests and rows were bought for their user |
| `Kept` | `LiveTokenKept` | `CustodyInv`: a request about to forget has seen its token revoked |
| `Excused` | `GoneForAReason` | `ReasonInv`: a request about to disconnect something carries the reason, and reasons stay |

`Single` proves, for any number of users, states, tokens and requests, that every
step of the server is a step of the abstract grant or none: issuing grants, a
consume by the owner is no step (the capability is with the request), the exchange
spends, and expiry, a consume by somebody else or a failure in between voids.

### The composition (`ServerProofs`)

| Theorem | Property | Rests on |
|---|---|---|
| `BillingInside` | the server is a behaviour of `Billing` | every step of the server is a step of billing or leaves it alone |
| `ServerInvariant` | the invariant itself | `IInv` of billing, which holds by `BillingStep`; `Tables`; `RevokerIsAwaited`; `RevokesAnEnd` |
| `BanksInside` | `BankSpec` | `BankStep`: a step of billing changes who is entitled only as `GainEntitlement` and `LoseEntitlement` may, one user at most gaining at a time, and whoever is revoked is not entitled |
| `AppleAlone` | `OnlyAppleEndsAccess` | `TakenByRevocation`: a step that takes access is one of a revocation, whose delivery has applied a notification that ends (`RevokesAnEnd`) about a subscription the user claimed (`OwnersClaimed`) |

`RevokerIsAwaited` is the link between the halves: a revocation in a delivery's slot
belongs to that delivery, which is waiting for it, and to its user. By `BillingInside`
the theorems of `BillingProofs` hold of the server. By `BanksInside` so do those of
`BankConnectionsProofs`; that last inference is a reading of the two theorems
together, since the prover does not cite a theorem through an instance with
substitutions.

### Identity and credentials (`IdentityProofs`)

| Theorem | Property | Rests on |
|---|---|---|
| `IdentityInvariant` | the invariant itself | `SessionsInv`, `OnboardingInv`, `CredentialsInv` |
| `SessionsWellTyped` | `SessionsTypeOK` | |
| `SignOutIsBounded` | `SignOutBounds` | a pair whose user has signed out cannot be refreshed, and no pair lives beyond a lifetime from now |
| `StatusNeverStale` | `StatusIsFresh` | `Remembers`: what a request has read without entitlement or token, it has noted; entitlement now is entitlement at any earlier time under the same row (`EntitledEarlier`) |
| `MoneyIsGated` | `MoneyGate` | `LetThrough`: a request past the gate has a build the gate allows |
| `RotationLosesNothing` | `NewestReads` | whatever is referenced, by a row, a write on its way or a process, is in the secret store's list or was dropped while it was referenced (`Accounted`); nothing that is neither can come to be referenced again |
| `GrantIsKept` | `GrantKept` | |

### Refusals (`AnswersProofs`)

`AnswersInvariant` says what an answer on its way carries and why a screen was shown;
`EveryReplySpeaks` proves `RepliesSpeak`, by going through every error PostgREST,
GoTrue and Fastify may report, and `EveryScreenIsRight` proves `RightScreen`: a dead
token stays dead, nobody pays outside the purchase screen, and an old build is not
made supported by a later deployment.

### Lists and accounts (`ListProofs`)

The first half is about lists in general, with an order given as a set of pairs:
a finite set has a listing in any order that compares all its elements
(`CanBeListed`), listings by one order agree, position by position, on everything but
elements of one rank (`SameRank`, `OneListing`), and a page holds the elements of a
list between its bounds and says whether there are more (`PageHolds`). Statements
over positions are shown by the least position where they fail (`LeastNatural`, from
the well-foundedness of `<`), and a fold is turned into the run of a loop
(`FoldExists`, `LoopRuns`).

| Theorem | Property | Rests on |
|---|---|---|
| `ListingInvariant` | the invariant itself | `NamesSoFar`: with no sync in between, what was read has, position by position, the names of whatever listing the next query returns |
| `OnlyNamesakes` | `OnlyNamesakesSlip` | `ListingInvariant`; the ranks of what was read are those of a listing, so only rows of one rank can change places |

### Rules (`RulesProofs`)

| Theorem | Property | Rests on |
|---|---|---|
| `RulesInvariant` | the invariant itself | rows are well formed and have all their columns |
| `RulesWellFormed` | `RulesTypeOK` | |
| `RulesApart` | `NoInterference` | a create takes a place that was empty, a patch or a removal a row that was the user's own |
| `ReaderInvariant` | the invariant itself | `TilesSoFar`: undisturbed, the client has read the list up to its offset; while rules are only added, each rule of the beginning has been read or lies beyond the offset, since an insertion only moves rules further on |
| `PagesTileTheList` | `PagesTile` | `ReaderInvariant` |
| `Evaluation` | `EvaluationAgrees` | the three loops, below |

`Evaluation` goes from the inside out: `TagLoop` and `TagsAdded` (a tag is added once),
`ActionLoop` and `ActionsApplied` (the last action to set a field wins), `RuleLoop` and
`RulesPassed` (a rule is passed over when it does not match or one before it stopped),
each over the rounds of its loop. `OrderedAlready` shows that the engine's sort leaves
the query's order as it is, ids that share a millisecond included, and
`EvaluationFollows` puts the pieces next to the definition of the rules that fire.

These are theorems of `RulesSpec` and `AccountsSpec`, of which `UserData` runs one at
a time.

### Money (`MoneyProofs`)

`CentsComeBack` and `StringsComeBack` prove, for amounts of any size, that cents
written as a decimal are read back as themselves, and that an amount comes back with
two digits and the same value.

### Only model-checked

Liveness (`EveryNoticeAcked`, `LapseLeadsToRefusal`, `EndIsRevoked`, `Converges`,
`EndDisconnects`, `Resolved`): fairness is out of the prover's
reach. Every other property of a passing run is a theorem.

## 6. Not modelled, and why

- JWS verification and the cipher: cryptography, each step of which a model could only
  name and repeat. The models start from payloads that verified, and a ciphertext is
  the version of its key.
- HTTP, schemas, logging, error texts: a call is answered or rejected, and an answer
  is a status and a code.
- Row-level security and column grants of `supabase/migrations`: every statement is
  filtered by the user it runs as, in the code and again in the policies.
- Password reset and change: they go to GoTrue, keep nothing here and leave the
  sessions alone. Whether `POST /auth/password` reaches GoTrue with the caller's
  session depends on the client library, which is not part of the checkout.
- The page and script of `modules/auth/confirm.routes.ts`, but for the session they
  hand to the app.
- Deletion of a user, which cascades in Postgres, and the revocation of an Apple grant
  at deletion, which the code does not have yet.
- The plan catalogue: one constant plan, whose limit on connections is
  `MaxConnections`.
- The user profile: one row of two fields, read and patched by its owner in single
  statements, that nothing else reads.
- Akahu's request and response formats and the mapping of account types.
- Configuration, start-up, health and the emission of the contract: I/O without state
  of the domain.
- Housekeeping (`purgeExpired`), which nothing calls.
- The connection count is not a property: the limit is checked when a state is
  issued and nowhere else, and a callback may report several banks. The model
  contains the overshoot.
- The order of two registrations of one device, and of two captures of one grant: the
  last statement wins, and nothing in the repository promises more. `Onboarding` and
  `Credentials` contain both races.
- The precision of doubles in `lib/money.ts`: amounts of up to twelve digits and two
  decimals are exact.

## 7. Plan

1. Larger instances: two users in `server`, two deliveries of one subscription next to
   a revocation, with a view that leaves out the histories.
2. The projection's life cycle in one model: `Accounts` over the rows of
   `BankConnections` rather than over the outcome of a sync.
