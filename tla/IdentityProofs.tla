--------------------------- MODULE IdentityProofs ---------------------------
(***************************************************************************)
(* Proofs about Identity, one component after the other: the two share no  *)
(* variable, so an invariant of a component is one of the whole.           *)
(***************************************************************************)
EXTENDS Identity, TLAPS

-----------------------------------------------------------------------------
(* Sessions: a pair whose session the user has signed out of cannot be     *)
(* refreshed any more, and no pair lives longer than a lifetime from now.  *)

MaybePair == Pair \cup {NoToken}

PairOK(pair, t) ==
  pair # NoToken =>
    /\ pair.expires <= t + TTL
    /\ pair.out # Never => pair.alive = FALSE /\ pair.expires <= pair.out + TTL

SessionsInv ==
  /\ SessionsTypeOK
  /\ \A c \in Clients :
       PairOK(holds[c], clock) /\ PairOK(answer[c], clock) /\ PairOK(leaving[c], clock)

(* A new session's pair is in order.                                       *)
LEMMA NewSessionOK ==
  ASSUME clock \in Nat
  PROVE  NewSession \in Pair /\ PairOK(NewSession, clock)
BY TTLAssumption DEF NewSession, Pair, PairOK

(* A refreshed pair of a living session is in order.                       *)
LEMMA RefreshedOK ==
  ASSUME clock \in Nat, NEW pair \in Pair, PairOK(pair, clock), pair.alive
  PROVE  /\ [pair EXCEPT !.expires = clock + TTL] \in Pair
         /\ PairOK([pair EXCEPT !.expires = clock + TTL], clock)
BY TTLAssumption, NoTokenAssumption DEF Pair, PairOK

(* Signing out leaves every pair in order, with its session ended.         *)
LEMMA SignedOutOK ==
  ASSUME clock \in Nat, NEW pairs \in [Clients -> MaybePair], NEW c \in Clients,
         \A d \in Clients : PairOK(pairs[d], clock)
  PROVE  /\ SignedOut(pairs, c) \in [Clients -> MaybePair]
         /\ \A d \in Clients : PairOK(SignedOut(pairs, c)[d], clock)
<1> SUFFICES ASSUME NEW d \in Clients
             PROVE  /\ SignedOut(pairs, c)[d] \in MaybePair
                    /\ PairOK(SignedOut(pairs, c)[d], clock)
  BY DEF SignedOut
<1>1. CASE pairs[d] = NoToken
  BY <1>1 DEF SignedOut, MaybePair, PairOK
<1>2. CASE pairs[d] # NoToken
  <2> DEFINE ended == [pairs[d] EXCEPT !.out = clock, !.alive = FALSE]
  <2>1. pairs[d] \in Pair
    BY <1>2 DEF MaybePair
  <2>2. SignedOut(pairs, c)[d] = ended
    BY <1>2 DEF SignedOut, EndedWith
  <2>3. /\ ended \in Pair /\ ended.out = clock /\ ended.alive = FALSE
        /\ ended.expires = pairs[d].expires
    BY <2>1 DEF Pair
  <2>4. pairs[d].expires <= clock + TTL
    BY <1>2 DEF PairOK
  <2> QED
    BY <2>2, <2>3, <2>4 DEF MaybePair, PairOK
<1> QED
  BY <1>1, <1>2

(* Before the sign-up nobody holds a token.                                *)
LEMMA SessionsInvInit == SessionsInit => SessionsInv
BY NoTokenAssumption DEF SessionsInit, SessionsInv, SessionsTypeOK, PairOK

(* As the clock moves on, a pair in order stays in order.                  *)
LEMMA TickOK ==
  ASSUME SessionsInv, Tick
  PROVE  SessionsInv'
<1> USE TTLAssumption DEF SessionsInv
<1>1. SessionsTypeOK'
  BY DEF Tick, SessionsTypeOK
<1>2. ASSUME NEW pair \in MaybePair, PairOK(pair, clock)
      PROVE  PairOK(pair, clock')
  BY <1>2 DEF Tick, SessionsTypeOK, PairOK, Pair, MaybePair
<1>3. ASSUME NEW c \in Clients
      PROVE  PairOK(holds[c], clock') /\ PairOK(answer[c], clock') /\ PairOK(leaving[c], clock')
  <2>1. holds[c] \in MaybePair /\ answer[c] \in MaybePair /\ leaving[c] \in MaybePair
    BY DEF SessionsTypeOK, MaybePair
  <2> QED
    BY <1>2, <2>1
<1> QED
  BY <1>1, <1>3 DEF Tick

(* Every step of a client keeps its pairs and everybody's in order.        *)
LEMMA SessionStepOK ==
  ASSUME SessionsInv, NEW c \in Clients, SessionStep(c)
  PROVE  SessionsInv'
<1> USE DEF SessionsInv
<1>1. /\ clock \in Nat /\ holds \in [Clients -> MaybePair]
      /\ answer \in [Clients -> MaybePair] /\ leaving \in [Clients -> MaybePair]
  BY DEF SessionsTypeOK, MaybePair
<1>2. NewSession \in Pair /\ PairOK(NewSession, clock)
  BY <1>1, NewSessionOK
<1>3. PairOK(NoToken, clock)
  BY DEF PairOK
<1>4. CASE SignUp(c) \/ Confirm(c) \/ SignIn(c)
  BY <1>1, <1>2, <1>4 DEF SignUp, Confirm, SignIn, SessionsTypeOK, MaybePair
<1>5. CASE Refresh(c)
  <2>1. holds[c] \in Pair /\ holds[c].alive /\ PairOK(holds[c], clock)
    BY <1>1, <1>5 DEF Refresh, MaybePair
  <2>2. LET pair == [holds[c] EXCEPT !.expires = clock + TTL]
        IN pair \in Pair /\ PairOK(pair, clock)
    BY <1>1, <2>1, RefreshedOK
  <2> QED
    BY <1>1, <1>5, <2>2 DEF Refresh, SessionsTypeOK, MaybePair
<1>6. CASE Receive(c)
  BY <1>1, <1>3, <1>6 DEF Receive, SessionsTypeOK, MaybePair
<1>7. CASE LoseAnswer(c)
  BY <1>1, <1>3, <1>7 DEF LoseAnswer, SessionsTypeOK, MaybePair
<1>8. CASE AskSignOut(c)
  BY <1>1, <1>8 DEF AskSignOut, SessionsTypeOK, MaybePair
<1>9. CASE SignOut(c)
  <2>1. /\ SignedOut(holds, c) \in [Clients -> MaybePair]
        /\ \A d \in Clients : PairOK(SignedOut(holds, c)[d], clock)
    BY <1>1, SignedOutOK
  <2>2. /\ SignedOut(answer, c) \in [Clients -> MaybePair]
        /\ \A d \in Clients : PairOK(SignedOut(answer, c)[d], clock)
    BY <1>1, SignedOutOK
  <2>3. /\ SignedOut(leaving, c) \in [Clients -> MaybePair]
        /\ \A d \in Clients : PairOK(SignedOut(leaving, c)[d], clock)
    BY <1>1, SignedOutOK
  <2>4. /\ leaving' \in [Clients -> MaybePair]
        /\ \A d \in Clients : PairOK(leaving'[d], clock)
    BY <1>3, <1>9, <2>3 DEF SignOut, MaybePair
  <2> QED
    BY <1>1, <1>9, <2>1, <2>2, <2>4 DEF SignOut, SessionsTypeOK, MaybePair
<1>10. CASE SignOutRefused(c)
  BY <1>1, <1>3, <1>10 DEF SignOutRefused, SessionsTypeOK, MaybePair
<1> QED
  BY <1>4, <1>5, <1>6, <1>7, <1>8, <1>9, <1>10 DEF SessionStep

-----------------------------------------------------------------------------
(* Onboarding: a status request remembers every moment without entitlement *)
(* or a token that it may have read, and the verdict on its client.        *)

DeviceAsk == [pc : {"register", "revoke"}, device : Phones, pair : Pair]
StatusAsk ==
  [pc : {"status"}, pair : Pair, now : Nat, header : Headers, clientBuild : Nat \cup {None},
   subscription : Rows \cup {Null, Unread}, bank : BOOLEAN \cup {Unread},
   push : BOOLEAN \cup {Unread}, unpaid : BOOLEAN, unlinked : BOOLEAN]
Answered ==
  [pc : {"answered"}, step : {"billing", "bank", "ready"}, unpaid : BOOLEAN, unlinked : BOOLEAN]

OnboardingTypeOK ==
  /\ gate \in Gates
  /\ row \in Rows \cup {Null}
  /\ linked \in BOOLEAN
  /\ phones \in [Phones -> {"absent", "active", "revoked"}]
  /\ ask \in [Clients -> {Resting} \cup DeviceAsk \cup StatusAsk \cup Answered]

(* What a status request knows, when the row, the token and the clock are  *)
(* r, l and t.                                                             *)
Remembers(request, r, l, t) ==
  /\ request.now <= t
  /\ ~Entitled(r, t) => request.unpaid = TRUE
  /\ ~l => request.unlinked = TRUE
  /\ request.subscription # Unread /\ ~Entitled(request.subscription, request.now)
       => request.unpaid = TRUE
  /\ request.bank # Unread /\ ~request.bank => request.unlinked = TRUE

LetThrough(request) ==
  /\ EvaluateClientBuild(request.header, Options).allowed
  /\ request.clientBuild = EvaluateClientBuild(request.header, Options).build

OnboardingInv ==
  /\ OnboardingTypeOK
  /\ \A c \in Clients : ask[c].pc = "status" =>
       Remembers(ask[c], row, linked, clock) /\ LetThrough(ask[c])
  /\ StatusIsFresh

(* Who is entitled was so before, under the same row.                      *)
LEMMA EntitledEarlier ==
  ASSUME NEW r \in Rows \cup {Null}, NEW t \in Nat, NEW u \in Nat, t <= u, Entitled(r, u)
  PROVE  Entitled(r, t)
BY RowsAssumption, NullAssumption DEF Entitled, IsCurrentlyEntitled

(* A request under way goes on remembering while the facts change.         *)
LEMMA WatchedOK ==
  ASSUME clock \in Nat, OnboardingInv,
         NEW r \in Rows \cup {Null}, NEW l \in BOOLEAN, NEW t \in Nat, clock <= t
  PROVE  /\ Watched(r, l, t) \in [Clients -> {Resting} \cup DeviceAsk \cup StatusAsk \cup Answered]
         /\ \A c \in Clients :
              /\ Watched(r, l, t)[c].pc = ask[c].pc
              /\ ask[c].pc = "status" =>
                   Remembers(Watched(r, l, t)[c], r, l, t) /\ LetThrough(Watched(r, l, t)[c])
              /\ ask[c].pc # "status" => Watched(r, l, t)[c] = ask[c]
<1> SUFFICES ASSUME NEW c \in Clients
             PROVE  /\ Watched(r, l, t)[c] \in {Resting} \cup DeviceAsk \cup StatusAsk \cup Answered
                    /\ Watched(r, l, t)[c].pc = ask[c].pc
                    /\ ask[c].pc = "status" =>
                         Remembers(Watched(r, l, t)[c], r, l, t) /\ LetThrough(Watched(r, l, t)[c])
                    /\ ask[c].pc # "status" => Watched(r, l, t)[c] = ask[c]
  BY DEF Watched
<1>1. CASE ask[c].pc # "status"
  BY <1>1 DEF Watched, OnboardingInv, OnboardingTypeOK
<1>2. CASE ask[c].pc = "status"
  <2> DEFINE unpaid == ask[c].unpaid \/ ~Entitled(r, t)
             unlinked == ask[c].unlinked \/ ~l
             request == [ask[c] EXCEPT !.unpaid = unpaid, !.unlinked = unlinked]
  <2>1. ask[c] \in StatusAsk
    BY <1>2 DEF OnboardingInv, OnboardingTypeOK, Resting, DeviceAsk, StatusAsk, Answered
  <2>2. Watched(r, l, t)[c] = request
    BY <1>2 DEF Watched
  <2>3. unpaid \in BOOLEAN /\ unlinked \in BOOLEAN
    OBVIOUS
  <2> HIDE DEF unpaid, unlinked
  <2>4. /\ request \in StatusAsk
        /\ request.now = ask[c].now /\ request.header = ask[c].header
        /\ request.clientBuild = ask[c].clientBuild
        /\ request.subscription = ask[c].subscription /\ request.bank = ask[c].bank
        /\ request.unpaid = unpaid /\ request.unlinked = unlinked
    BY <2>1, <2>3 DEF StatusAsk
  <2> HIDE DEF request
  <2>5. Remembers(ask[c], row, linked, clock) /\ LetThrough(ask[c])
    BY <1>2 DEF OnboardingInv
  <2>6. LetThrough(request)
    BY <2>4, <2>5 DEF LetThrough
  <2>7. request.now <= t
    BY <2>1, <2>4, <2>5 DEF Remembers, StatusAsk
  <2>8. ask[c].unpaid = TRUE => unpaid = TRUE
    BY DEF unpaid
  <2>9. ask[c].unlinked = TRUE => unlinked = TRUE
    BY DEF unlinked
  <2>10. ~Entitled(r, t) => unpaid = TRUE
    BY DEF unpaid
  <2>11. ~l => unlinked = TRUE
    BY DEF unlinked
  <2>12. Remembers(request, r, l, t)
    BY <2>4, <2>5, <2>7, <2>8, <2>9, <2>10, <2>11 DEF Remembers
  <2> QED
    BY <1>2, <2>2, <2>4, <2>6, <2>12 DEF StatusAsk
<1> QED
  BY <1>1, <1>2

(* The facts and the clock may change next to any request.                 *)
LEMMA EnvironmentOK ==
  ASSUME SessionsInv, OnboardingInv,
         TimePasses \/ StoreOrForgetToken \/ \E r \in Rows \cup {Null} : WriteSubscription(r)
  PROVE  OnboardingInv'
<1>1. /\ clock \in Nat /\ clock + 1 \in Nat /\ clock <= clock /\ clock <= clock + 1
      /\ row \in Rows \cup {Null} /\ linked \in BOOLEAN
  BY DEF SessionsInv, SessionsTypeOK, OnboardingInv, OnboardingTypeOK
<1>2. ASSUME NEW r \in Rows \cup {Null}, NEW l \in BOOLEAN, NEW t \in Nat, clock <= t,
             row' = r, linked' = l, clock' = t, ask' = Watched(r, l, t),
             UNCHANGED <<gate, phones>>
      PROVE  OnboardingInv'
  <2>1. /\ ask' \in [Clients -> {Resting} \cup DeviceAsk \cup StatusAsk \cup Answered]
        /\ \A c \in Clients :
             /\ ask'[c].pc = ask[c].pc
             /\ ask[c].pc = "status" => Remembers(ask'[c], r, l, t) /\ LetThrough(ask'[c])
             /\ ask[c].pc # "status" => ask'[c] = ask[c]
    BY <1>1, <1>2, WatchedOK
  <2>2. OnboardingTypeOK'
    BY <1>2, <2>1 DEF OnboardingInv, OnboardingTypeOK
  <2>3. ASSUME NEW c \in Clients, ask'[c].pc = "status"
        PROVE  Remembers(ask'[c], row', linked', clock') /\ LetThrough(ask[c])'
    BY <1>2, <2>1, <2>3 DEF LetThrough, Options
  <2>4. StatusIsFresh'
    BY <2>1 DEF OnboardingInv, StatusIsFresh
  <2> QED
    BY <2>2, <2>3, <2>4 DEF OnboardingInv, Remembers, Entitled
<1>3. CASE TimePasses
  <2>1. /\ row' = row /\ linked' = linked /\ clock' = clock + 1
        /\ ask' = Watched(row, linked, clock + 1) /\ UNCHANGED <<gate, phones>>
    BY <1>3 DEF TimePasses, Tick
  <2> QED
    BY <1>1, <1>2, <2>1
<1>4. CASE StoreOrForgetToken
  <2>1. PICK l \in BOOLEAN :
          /\ row' = row /\ linked' = l /\ clock' = clock
          /\ ask' = Watched(row, l, clock) /\ UNCHANGED <<gate, phones>>
    BY <1>4 DEF StoreOrForgetToken, sessionVars
  <2> QED
    BY <1>1, <1>2, <2>1
<1>5. CASE \E r \in Rows \cup {Null} : WriteSubscription(r)
  <2>1. PICK r \in Rows \cup {Null} :
          /\ row' = r /\ linked' = linked /\ clock' = clock
          /\ ask' = Watched(r, linked, clock) /\ UNCHANGED <<gate, phones>>
    BY <1>5 DEF WriteSubscription, sessionVars
  <2> QED
    BY <1>1, <1>2, <2>1
<1> QED
  BY <1>3, <1>4, <1>5

(* What an answered request says of the moments it has lived through.      *)
LEMMA AnswerOK ==
  ASSUME OnboardingInv, NEW c \in Clients, AnswerStatus(c)
  PROVE  /\ ask'[c] \in Answered
         /\ ask'[c].step = "billing" => ask'[c].unpaid
         /\ ask'[c].step = "bank" => ask'[c].unlinked
<1> DEFINE active == Entitled(ask[c].subscription, ask[c].now)
<1>1. ask[c].pc = "status" /\ ask[c].subscription # Unread /\ ask[c].bank # Unread
  BY DEF AnswerStatus
<1>2. ask[c] \in StatusAsk
  BY <1>1 DEF OnboardingInv, OnboardingTypeOK, Resting, DeviceAsk, StatusAsk, Answered
<1>3. Remembers(ask[c], row, linked, clock)
  BY <1>1 DEF OnboardingInv
<1>4. ask' = [ask EXCEPT ![c] =
        [pc |-> "answered", step |-> ResolveStep(active, ask[c].bank, ask[c].push),
         unpaid |-> ask[c].unpaid, unlinked |-> ask[c].unlinked]]
  BY DEF AnswerStatus
<1>5. ask'[c] = [pc |-> "answered", step |-> ResolveStep(active, ask[c].bank, ask[c].push),
                 unpaid |-> ask[c].unpaid, unlinked |-> ask[c].unlinked]
  BY <1>4 DEF OnboardingInv, OnboardingTypeOK
<1>6. ~active => ask[c].unpaid = TRUE
  BY <1>1, <1>3 DEF Remembers
<1>7. ~ask[c].bank => ask[c].unlinked = TRUE
  BY <1>1, <1>3 DEF Remembers
<1> HIDE DEF active
<1>8. /\ ResolveStep(active, ask[c].bank, ask[c].push) \in {"billing", "bank", "ready"}
      /\ ResolveStep(active, ask[c].bank, ask[c].push) = "billing" => ~active
      /\ ResolveStep(active, ask[c].bank, ask[c].push) = "bank" => ~ask[c].bank
  BY DEF ResolveStep
<1>9. ask[c].unpaid \in BOOLEAN /\ ask[c].unlinked \in BOOLEAN
  BY <1>2 DEF StatusAsk
<1> QED
  BY <1>5, <1>6, <1>7, <1>8, <1>9 DEF Answered

(* Every step of a request keeps it within what it has seen.               *)
LEMMA OnboardingStepOK ==
  ASSUME SessionsInv, OnboardingInv, NEW c \in Clients, OnboardingStep(c)
  PROVE  OnboardingInv'
<1> DEFINE Asks == {Resting} \cup DeviceAsk \cup StatusAsk \cup Answered
<1>1. /\ clock \in Nat /\ holds \in [Clients -> MaybePair]
      /\ ask \in [Clients -> Asks] /\ gate \in Gates
      /\ row \in Rows \cup {Null} /\ linked \in BOOLEAN
      /\ phones \in [Phones -> {"absent", "active", "revoked"}]
  BY DEF SessionsInv, SessionsTypeOK, OnboardingInv, OnboardingTypeOK, MaybePair
<1>2. SUFFICES
        /\ UNCHANGED <<sessionVars, gate, row, linked>>
        /\ phones' \in [Phones -> {"absent", "active", "revoked"}]
        /\ \A d \in Clients \ {c} : ask'[d] = ask[d]
        /\ ask' \in [Clients -> Asks]
        /\ ask'[c].pc = "status" => Remembers(ask'[c], row, linked, clock) /\ LetThrough(ask'[c])
        /\ ask'[c].pc = "answered" =>
             /\ ask'[c].step = "billing" => ask'[c].unpaid
             /\ ask'[c].step = "bank" => ask'[c].unlinked
  <2>1. OnboardingTypeOK'
    BY <1>1, <1>2 DEF OnboardingTypeOK
  <2>2. ASSUME NEW d \in Clients, ask'[d].pc = "status"
        PROVE  Remembers(ask'[d], row, linked, clock) /\ LetThrough(ask'[d])
    BY <1>2, <2>2 DEF OnboardingInv
  <2>3. StatusIsFresh'
    BY <1>2 DEF OnboardingInv, StatusIsFresh
  <2> QED
    BY <1>2, <2>1, <2>2, <2>3
       DEF OnboardingInv, Remembers, LetThrough, Entitled, Options, sessionVars
<1>3. ASSUME NEW header \in Headers, AskStatus(c, header)
      PROVE  /\ ask'[c] \in StatusAsk
             /\ Remembers(ask'[c], row, linked, clock) /\ LetThrough(ask'[c])
  <2> DEFINE verdict == EvaluateClientBuild(header, Options)
             unpaid == ~Entitled(row, clock)
             unlinked == ~linked
             request == [pc |-> "status", pair |-> holds[c], now |-> clock,
                         header |-> header, clientBuild |-> verdict.build,
                         subscription |-> Unread, bank |-> Unread, push |-> Unread,
                         unpaid |-> unpaid, unlinked |-> unlinked]
  <2>1. ask'[c] = request /\ verdict.allowed
    BY <1>1, <1>3 DEF AskStatus, Admitted
  <2>2. verdict.build \in Nat \cup {None}
    BY DEF EvaluateClientBuild, ParseBuild
  <2>3. holds[c] \in Pair
    BY <1>1, <1>3 DEF AskStatus, Admitted, Verified, MaybePair
  <2>4. /\ unpaid \in BOOLEAN /\ unlinked \in BOOLEAN
        /\ ~Entitled(row, clock) => unpaid = TRUE
        /\ ~linked => unlinked = TRUE
    OBVIOUS
  <2> HIDE DEF unpaid, unlinked, verdict
  <2>5. request \in StatusAsk
    BY <1>1, <2>2, <2>3, <2>4 DEF StatusAsk
  <2>6. Remembers(request, row, linked, clock)
    BY <1>1, <2>4 DEF Remembers
  <2>7. LetThrough(request)
    BY <2>1 DEF LetThrough, verdict
  <2> QED
    BY <2>1, <2>5, <2>6, <2>7
<1>4. CASE \E header \in Headers : AskStatus(c, header)
  BY <1>1, <1>3, <1>4 DEF AskStatus, StatusAsk
<1>5. CASE \E header \in Headers : \E operation \in {"register", "revoke"}, d \in Phones :
             AskDevices(c, header, operation, d)
  <2>1. PICK header \in Headers, operation \in {"register", "revoke"}, d \in Phones :
          AskDevices(c, header, operation, d)
    BY <1>5
  <2>2. ask'[c] \in DeviceAsk /\ ask' \in [Clients -> Asks]
    BY <1>1, <2>1 DEF AskDevices, Admitted, Verified, MaybePair, DeviceAsk
  <2> QED
    BY <1>1, <2>1, <2>2 DEF AskDevices, DeviceAsk
<1>6. ASSUME NEW field \in {"subscription", "bank", "push"}, NEW value,
             ask[c].pc = "status", ask' = [ask EXCEPT ![c] = [@ EXCEPT ![field] = value]],
             field = "subscription" => value \in Rows \cup {Null},
             field # "subscription" => value \in BOOLEAN,
             field = "subscription" /\ ~Entitled(value, ask[c].now) => ask[c].unpaid = TRUE,
             field = "bank" /\ ~value => ask[c].unlinked = TRUE
      PROVE  /\ ask' \in [Clients -> Asks]
             /\ ask'[c].pc = "status"
             /\ Remembers(ask'[c], row, linked, clock) /\ LetThrough(ask'[c])
  <2>1. ask[c] \in StatusAsk
    BY <1>1, <1>6 DEF Resting, DeviceAsk, StatusAsk, Answered
  <2>2. ask'[c] = [ask[c] EXCEPT ![field] = value]
    BY <1>1, <1>6
  <2>3. ask'[c] \in StatusAsk
    BY <1>6, <2>1, <2>2 DEF StatusAsk
  <2>4. Remembers(ask[c], row, linked, clock) /\ LetThrough(ask[c])
    BY <1>6 DEF OnboardingInv
  <2>5. LetThrough(ask'[c])
    BY <2>1, <2>2, <2>4 DEF LetThrough, StatusAsk
  <2>6. /\ ask'[c].now = ask[c].now /\ ask'[c].unpaid = ask[c].unpaid
        /\ ask'[c].unlinked = ask[c].unlinked
        /\ ask'[c].subscription = IF field = "subscription" THEN value ELSE ask[c].subscription
        /\ ask'[c].bank = IF field = "bank" THEN value ELSE ask[c].bank
    BY <2>1, <2>2 DEF StatusAsk
  <2>7. Remembers(ask'[c], row, linked, clock)
    BY <1>6, <2>4, <2>6 DEF Remembers
  <2> QED
    BY <1>1, <1>6, <2>3, <2>5, <2>7 DEF StatusAsk
<1>7. CASE ReadSubscription(c)
  <2>1. ask[c].pc = "status" /\ ask' = [ask EXCEPT ![c] = [@ EXCEPT !["subscription"] = row]]
    BY <1>7 DEF ReadSubscription
  <2>2. ask[c] \in StatusAsk
    BY <1>1, <2>1 DEF Resting, DeviceAsk, StatusAsk, Answered
  <2>3. Remembers(ask[c], row, linked, clock)
    BY <2>1 DEF OnboardingInv
  <2>4. ~Entitled(row, ask[c].now) => ~Entitled(row, clock)
    BY <1>1, <2>2, <2>3, EntitledEarlier DEF Remembers, StatusAsk
  <2>5. ~Entitled(row, ask[c].now) => ask[c].unpaid = TRUE
    BY <2>3, <2>4 DEF Remembers
  <2> QED
    BY <1>1, <1>6, <1>7, <2>1, <2>5 DEF ReadSubscription
<1>8. CASE ReadToken(c)
  <2>1. ask[c].pc = "status" /\ ask' = [ask EXCEPT ![c] = [@ EXCEPT !["bank"] = linked]]
    BY <1>8 DEF ReadToken
  <2>2. ~linked => ask[c].unlinked = TRUE
    BY <2>1 DEF OnboardingInv, Remembers
  <2> QED
    BY <1>1, <1>6, <1>8, <2>1, <2>2 DEF ReadToken
<1>9. CASE ReadDevices(c)
  <2>1. ask[c].pc = "status" /\ ask' = [ask EXCEPT ![c] = [@ EXCEPT !["push"] = HasActiveDevice]]
    BY <1>9 DEF ReadDevices
  <2>2. HasActiveDevice \in BOOLEAN
    BY DEF HasActiveDevice
  <2> QED
    BY <1>1, <1>6, <1>9, <2>1, <2>2 DEF ReadDevices
<1>10. CASE AnswerStatus(c)
  <2>1. /\ ask'[c] \in Answered
        /\ ask'[c].step = "billing" => ask'[c].unpaid
        /\ ask'[c].step = "bank" => ask'[c].unlinked
    BY <1>10, AnswerOK
  <2>2. ask' \in [Clients -> Asks]
    BY <1>1, <1>10, <2>1 DEF AnswerStatus
  <2> QED
    BY <1>1, <1>10, <2>1, <2>2 DEF AnswerStatus, Answered
<1>11. CASE Register(c) \/ Revoke(c) \/ EndRequest(c)
  BY <1>1, <1>11 DEF Register, Revoke, EndRequest, Resting
<1> QED
  BY <1>4, <1>5, <1>7, <1>8, <1>9, <1>10, <1>11 DEF OnboardingStep

-----------------------------------------------------------------------------
(* Credentials: what is stored, what is on its way to a table and what     *)
(* each process encrypts with is under a key of the configuration, or one  *)
(* that was dropped too early.                                             *)

Keyring == [activeVersion : Versions, keys : SUBSET Versions]
Exchanging == [pc : {"exchange"}, process : Processes, slot : Slots]
Upserting == [pc : {"upsert"}, process : Processes, slot : Slots, ciphertext : Versions]
Adrift == [pc : {"adrift"}, slot : Slots, ciphertext : Versions]
CaptureStates == {Waiting} \cup Exchanging \cup Upserting \cup Adrift

CredentialsTypeOK ==
  /\ config \in Seq(Versions)
  /\ ring \in [Processes -> Keyring]
  /\ stored \in [Slots -> Versions \cup {Absent}]
  /\ capture \in [Captures -> CaptureStates]
  /\ hasty \subseteq Versions

Accounted == Listed(config) \cup hasty

CredentialsInv ==
  /\ CredentialsTypeOK
  /\ \A p \in Processes : ring[p].activeVersion \in Accounted
  /\ \A q \in Captures : OnItsWay(q) => capture[q].ciphertext \in Accounted
  /\ NewestReads
  /\ GrantKept

(* The first deployment: one key, and nothing stored.                      *)
LEMMA CredentialsInvInit == CredentialsInit => CredentialsInv
<1> SUFFICES ASSUME CredentialsInit
             PROVE  CredentialsInv
  OBVIOUS
<1>1. config \in Seq(Versions) /\ FirstKey \in Listed(config)
  BY ConfigsAssumption DEF CredentialsInit, Listed
<1> QED
  BY <1>1, ConfigsAssumption
     DEF CredentialsInit, CredentialsInv, CredentialsTypeOK, Keyring, CaptureStates, OnItsWay,
         Accounted, Waiting, NewestReads, GrantKept, Slots

(* What a keyring that parses encrypts with, and what it holds.            *)
LEMMA ParsedOK ==
  ASSUME NEW list \in Seq(Versions), ParseKeyring(list) # Invalid
  PROVE  /\ ParseKeyring(list) \in Keyring
         /\ ParseKeyring(list).activeVersion \in Listed(list)
<1>1. list # <<>> /\ ParseKeyring(list) = [activeVersion |-> list[1], keys |-> Listed(list)]
  BY DEF ParseKeyring
<1>2. list[1] \in Listed(list) /\ Listed(list) \subseteq Versions
  BY <1>1 DEF Listed
<1> QED
  BY <1>1, <1>2 DEF Keyring

(* Putting a key first leaves the others listed.                           *)
LEMMA PrependedOK ==
  ASSUME NEW list \in Seq(Versions), list # <<>>
  PROVE  Listed(Tail(list)) \subseteq Listed(list)
<1> SUFFICES ASSUME NEW i \in DOMAIN Tail(list)
             PROVE  Tail(list)[i] \in Listed(list)
  BY DEF Listed
<1>1. i + 1 \in DOMAIN list /\ Tail(list)[i] = list[i + 1]
  OBVIOUS
<1> QED
  BY <1>1 DEF Listed

(* A record says by its pc what else it holds.                             *)
LEMMA CaptureForms ==
  ASSUME CredentialsTypeOK, NEW q \in Captures
  PROVE  /\ capture[q].pc = "exchange" => capture[q] \in Exchanging
         /\ capture[q].pc = "upsert" => capture[q] \in Upserting
         /\ capture[q].pc = "adrift" => capture[q] \in Adrift
BY DEF CredentialsTypeOK, CaptureStates, Exchanging, Upserting, Adrift, Waiting

(* What a write on its way carries is stored by Upsert and by Land.        *)
LEMMA WrittenOK ==
  ASSUME CredentialsInv, NEW q \in Captures, OnItsWay(q),
         stored' = [stored EXCEPT ![capture[q].slot] = capture[q].ciphertext],
         capture' = [capture EXCEPT ![q] = Waiting],
         promised' \in {promised, promised \/ capture[q].slot = "apple_grants"},
         UNCHANGED <<config, ring, hasty>>
  PROVE  CredentialsInv'
<1> USE DEF CredentialsInv, CredentialsTypeOK
<1>1. /\ capture[q].ciphertext \in Versions /\ capture[q].ciphertext \in Accounted
      /\ capture[q].slot \in Slots
  BY CaptureForms DEF OnItsWay, Upserting, Adrift
<1>2. capture[q].ciphertext # Absent
  BY <1>1, AbsentAssumption
<1>3. capture' \in [Captures -> CaptureStates]
  BY DEF CaptureStates
<1>4. \A r \in Captures : OnItsWay(r)' => capture'[r].ciphertext \in Accounted'
  BY DEF OnItsWay, Accounted, Waiting
<1>5. NewestReads' /\ stored' \in [Slots -> Versions \cup {Absent}]
  BY <1>1 DEF NewestReads, Accounted
<1>6. GrantKept'
  BY <1>1, <1>2 DEF GrantKept, Slots
<1> QED
  BY <1>3, <1>4, <1>5, <1>6 DEF Accounted

(* A request that ends leaves at most its own write on its way.            *)
LEMMA EndedOK ==
  ASSUME CredentialsTypeOK, NEW q \in Captures, NEW rest \in Ended(capture[q])
  PROVE  /\ rest \in CaptureStates
         /\ rest.pc \in {"upsert", "adrift"} =>
              OnItsWay(q) /\ rest.ciphertext = capture[q].ciphertext
BY CaptureForms DEF Ended, OnItsWay, CaptureStates, Waiting, Upserting, Adrift

(* A step of a request stores, if anything, under a key accounted for.     *)
LEMMA CaptureOK ==
  ASSUME CredentialsInv, NEW q \in Captures,
         \/ \E p \in Processes, s \in Slots : Exchange(q, p, s)
         \/ Encrypt(q) \/ Upsert(q) \/ FailCapture(q) \/ Land(q)
  PROVE  CredentialsInv'
<1> USE DEF CredentialsInv, CredentialsTypeOK
<1>1. CASE \E p \in Processes, s \in Slots : Exchange(q, p, s)
  BY <1>1 DEF Exchange, CaptureStates, Exchanging, OnItsWay, Accounted, NewestReads, GrantKept
<1>2. CASE Encrypt(q)
  <2>1. capture[q] \in Exchanging
    BY <1>2, CaptureForms DEF Encrypt
  <2> DEFINE p == capture[q].process
             v == ring[p].activeVersion
             upsert == [pc |-> "upsert", process |-> p, slot |-> capture[q].slot,
                        ciphertext |-> v]
  <2>2. p \in Processes /\ v \in Versions /\ v \in Accounted
    BY <2>1 DEF Exchanging, Keyring
  <2>3. capture' = [capture EXCEPT ![q] = upsert]
    BY <1>2 DEF Encrypt, EncryptToken
  <2>4. upsert \in CaptureStates
    BY <2>1, <2>2 DEF Exchanging, Upserting, CaptureStates
  <2>5. upsert.ciphertext \in Accounted
    BY <2>2
  <2>6. capture' \in [Captures -> CaptureStates]
    BY <2>3, <2>4
  <2>7. \A r \in Captures : OnItsWay(r)' => capture'[r].ciphertext \in Accounted
    BY <2>3, <2>5 DEF OnItsWay
  <2> HIDE DEF upsert, v, p
  <2> QED
    BY <1>2, <2>6, <2>7 DEF Encrypt, Accounted, NewestReads, GrantKept
<1>3. CASE Upsert(q) \/ Land(q)
  BY <1>3, WrittenOK DEF Upsert, Land, OnItsWay
<1>4. CASE FailCapture(q)
  <2>1. PICK rest \in Ended(capture[q]) : capture' = [capture EXCEPT ![q] = rest]
    BY <1>4 DEF FailCapture
  <2>2. /\ capture' \in [Captures -> CaptureStates]
        /\ \A r \in Captures : OnItsWay(r)' =>
             OnItsWay(r) /\ capture'[r].ciphertext = capture[r].ciphertext
    BY <2>1, EndedOK DEF OnItsWay
  <2> QED
    BY <1>4, <2>2 DEF FailCapture, Accounted, NewestReads, GrantKept
<1> QED
  BY <1>1, <1>2, <1>3, <1>4

(* A process takes the configured keyring, and no request gains anything.  *)
LEMMA RestartOK ==
  ASSUME CredentialsInv, NEW p \in Processes, Restart(p)
  PROVE  CredentialsInv'
<1> USE DEF CredentialsInv, CredentialsTypeOK
<1>1. /\ ParseKeyring(config) \in Keyring
      /\ ParseKeyring(config).activeVersion \in Listed(config)
  BY ParsedOK DEF Restart
<1>2. PICK landing \in SUBSET {q \in RunBy(p) : capture[q].pc = "upsert"} :
        capture' = [q \in Captures |->
          IF q \in landing
          THEN [pc |-> "adrift", slot |-> capture[q].slot, ciphertext |-> capture[q].ciphertext]
          ELSE IF q \in RunBy(p) THEN Waiting ELSE capture[q]]
  BY DEF Restart
<1>3. ASSUME NEW q \in Captures
      PROVE  capture'[q] = capture[q] \/ capture'[q] \in Ended(capture[q])
  BY <1>2, <1>3 DEF Ended
<1>4. /\ capture' \in [Captures -> CaptureStates]
      /\ \A r \in Captures : OnItsWay(r)' =>
           OnItsWay(r) /\ capture'[r].ciphertext = capture[r].ciphertext
  <2>1. \A q \in Captures : capture'[q] \in CaptureStates
    BY <1>3, EndedOK
  <2>2. \A q \in Captures : OnItsWay(q)' =>
          OnItsWay(q) /\ capture'[q].ciphertext = capture[q].ciphertext
    BY <1>3, EndedOK DEF OnItsWay
  <2>3. capture' = [q \in Captures |-> capture'[q]]
    BY <1>2
  <2> QED BY <2>1, <2>2, <2>3
<1> QED
  BY <1>1, <1>4 DEF Restart, Accounted, NewestReads, GrantKept

(* What is referenced is accounted for, and stays so: what a drop takes    *)
(* off the list while it is referenced, it adds to hasty.                  *)
LEMMA RotationOK ==
  ASSUME CredentialsInv, NEW list \in Configs, PrependKey(list) \/ DropKey(list)
  PROVE  CredentialsInv'
<1> USE DEF CredentialsInv, CredentialsTypeOK
<1>1. /\ list \in Seq(Versions) /\ list # <<>> /\ config' = list
      /\ UNCHANGED <<ring, stored, capture, promised>>
  BY ConfigsAssumption DEF PrependKey, DropKey
<1>2. Listed(list) \subseteq Versions /\ list[1] \in Listed(list)
  BY <1>1 DEF Listed
<1>3. Listed(config) \subseteq Versions
  BY DEF Listed
<1>4. hasty' \subseteq Versions
  BY <1>3 DEF PrependKey, DropKey
<1>5. \A v \in Accounted : References(v) => v \in Accounted'
  <2>1. CASE PrependKey(list)
    <3>1. Listed(config) \subseteq Listed(list)
      BY <1>1, <2>1, PrependedOK DEF PrependKey
    <3> QED BY <1>2, <2>1, <3>1 DEF PrependKey, Accounted
  <2>2. CASE DropKey(list)
    BY <2>2 DEF DropKey, Accounted
  <2> QED BY <2>1, <2>2
<1>6. \A p \in Processes : ring'[p].activeVersion \in Accounted'
  BY <1>1, <1>5 DEF References
<1>7. \A q \in Captures : OnItsWay(q)' => capture'[q].ciphertext \in Accounted'
  BY <1>1, <1>5 DEF References, OnItsWay
<1>8. NewestReads'
  BY <1>1, <1>5 DEF NewestReads, References, Accounted
<1> QED
  BY <1>1, <1>4, <1>6, <1>7, <1>8 DEF GrantKept

(* Every step of Credentials keeps the invariant.                          *)
LEMMA CredentialsNextOK ==
  ASSUME CredentialsInv, CredentialsNext
  PROVE  CredentialsInv'
<1>1. CASE \E p \in Processes : Forget(p)
  BY <1>1 DEF Forget, CredentialsInv, CredentialsTypeOK, OnItsWay, Accounted, NewestReads,
              GrantKept, Slots
<1> QED
  BY <1>1, CaptureOK, RestartOK, RotationOK DEF CredentialsNext

-----------------------------------------------------------------------------
(* The whole                                                               *)

IdentityInv == SessionsInv /\ OnboardingInv /\ CredentialsInv

(* Onboarding's steps keep the invariants of the sessions and its own.     *)
LEMMA OnboardingNextOK ==
  ASSUME SessionsInv, OnboardingInv, OnboardingNext
  PROVE  SessionsInv' /\ OnboardingInv'
<1>1. ASSUME UNCHANGED sessionVars
      PROVE  SessionsInv'
  BY <1>1 DEF sessionVars, SessionsInv, SessionsTypeOK, PairOK
<1>2. ASSUME UNCHANGED <<clock, onboardingVars>>
      PROVE  OnboardingInv'
  BY <1>2 DEF onboardingVars, OnboardingInv, OnboardingTypeOK, Remembers, LetThrough,
              Entitled, Options, StatusIsFresh
<1>3. CASE TimePasses
  BY <1>3, TickOK, EnvironmentOK DEF TimePasses
<1>4. CASE \E c \in Clients : SessionStep(c) /\ UNCHANGED onboardingVars
  <2>1. PICK c \in Clients : SessionStep(c) /\ UNCHANGED onboardingVars
    BY <1>4
  <2>2. clock' = clock
    BY <2>1 DEF SessionStep, SignUp, Confirm, SignIn, Refresh, Receive, LoseAnswer,
                AskSignOut, SignOut, SignOutRefused
  <2> QED
    BY <1>2, <2>1, <2>2, SessionStepOK
<1>5. CASE (\E r \in Rows \cup {Null} : WriteSubscription(r)) \/ StoreOrForgetToken
  <2>1. UNCHANGED sessionVars
    BY <1>5 DEF WriteSubscription, StoreOrForgetToken
  <2> QED
    BY <1>1, <1>5, <2>1, EnvironmentOK
<1>6. CASE \E c \in Clients : OnboardingStep(c)
  <2>1. PICK c \in Clients : OnboardingStep(c)
    BY <1>6
  <2>2. UNCHANGED sessionVars
    BY <2>1 DEF OnboardingStep, AskStatus, ReadSubscription, ReadToken, ReadDevices,
                AnswerStatus, AskDevices, Register, Revoke, EndRequest
  <2> QED
    BY <1>1, <2>1, <2>2, OnboardingStepOK
<1> QED
  BY <1>3, <1>4, <1>5, <1>6 DEF OnboardingNext

(* The invariant holds of every reachable state, for any number of devices *)
(* of the user, processes, requests and keys.                              *)
THEOREM IdentityInvariant == Spec => []IdentityInv
<1>1. Init => IdentityInv
  <2> SUFFICES ASSUME Init
               PROVE  IdentityInv
    OBVIOUS
  <2>1. SessionsInv /\ CredentialsInv
    BY SessionsInvInit, CredentialsInvInit DEF Init
  <2>2. OnboardingInv
    BY DEF Init, OnboardingInit, OnboardingInv, OnboardingTypeOK, StatusIsFresh, Resting
  <2> QED
    BY <2>1, <2>2 DEF IdentityInv
<1>2. IdentityInv /\ [Next]_<<identityVars, credentialVars>> => IdentityInv'
  <2> SUFFICES ASSUME IdentityInv, [Next]_<<identityVars, credentialVars>>
               PROVE  IdentityInv'
    OBVIOUS
  <2>1. ASSUME UNCHANGED identityVars
        PROVE  SessionsInv' /\ OnboardingInv'
    BY <2>1 DEF identityVars, sessionVars, onboardingVars, IdentityInv, SessionsInv,
                SessionsTypeOK, PairOK, OnboardingInv, OnboardingTypeOK, Remembers,
                LetThrough, Entitled, Options, StatusIsFresh
  <2>2. ASSUME UNCHANGED credentialVars
        PROVE  CredentialsInv'
    BY <2>2 DEF credentialVars, IdentityInv, CredentialsInv, CredentialsTypeOK, OnItsWay,
                Accounted, NewestReads, GrantKept
  <2>3. CASE OnboardingNext /\ UNCHANGED credentialVars
    BY <2>2, <2>3, OnboardingNextOK DEF IdentityInv
  <2>4. CASE CredentialsNext /\ UNCHANGED identityVars
    BY <2>1, <2>4, CredentialsNextOK DEF IdentityInv
  <2>5. CASE UNCHANGED <<identityVars, credentialVars>>
    BY <2>1, <2>2, <2>5 DEF IdentityInv
  <2> QED
    BY <2>3, <2>4, <2>5 DEF Next
<1> QED
  BY <1>1, <1>2, PTL DEF Spec

(* Token pairs are well-formed in every reachable state                    *)
(* (auth.service.ts:7-20).                                                 *)
THEOREM SessionsWellTyped == Spec => []SessionsTypeOK
<1>1. IdentityInv => SessionsTypeOK
  BY DEF IdentityInv, SessionsInv
<1> QED
  BY <1>1, IdentityInvariant, PTL

(* A sign-out anywhere bounds every token of the sessions begun before it  *)
(* (auth.service.ts:84), however many devices the user has.                *)
THEOREM SignOutIsBounded == Spec => []SignOutBounds
<1>1. IdentityInv => SignOutBounds
  BY DEF IdentityInv, SessionsInv, PairOK, SignOutBounds
<1> QED
  BY <1>1, IdentityInvariant, PTL

(* Nobody who was entitled and linked throughout is held at a step         *)
(* (onboarding.service.ts:59-67).                                          *)
THEOREM StatusNeverStale == Spec => []StatusIsFresh
<1>1. IdentityInv => StatusIsFresh
  BY DEF IdentityInv, OnboardingInv
<1> QED
  BY <1>1, IdentityInvariant, PTL

(* The two gates of the client version let only identified, supported and  *)
(* unblocked builds through to money (client-version.ts:70-102).           *)
THEOREM MoneyIsGated == Spec => []MoneyGate
<1>1. IdentityInv => MoneyGate
  <2> SUFFICES ASSUME IdentityInv, NEW c \in Clients, ask[c].pc = "status",
                      ~IsMoneyMovementBlocked(ask[c].clientBuild, Options)
               PROVE  /\ gate.minimum # None =>
                           ask[c].header \in Nat /\ ask[c].header >= gate.minimum
                      /\ gate.range # None =>
                           /\ ask[c].header \in Nat
                           /\ \A i, j \in 1..2 : ~(gate.range[i] <= ask[c].header
                                                   /\ ask[c].header <= gate.range[j])
    BY DEF MoneyGate
  <2>1. LetThrough(ask[c]) /\ gate \in Gates
    BY DEF IdentityInv, OnboardingInv, OnboardingTypeOK
  <2>2. gate.minimum # None => ask[c].header \in Nat /\ ask[c].header >= gate.minimum
    BY <2>1, GatesAssumption
       DEF LetThrough, EvaluateClientBuild, ParseBuild, Options, ClientGateOptions
  <2>3. ASSUME gate.range # None
        PROVE  /\ ask[c].header \in Nat
               /\ \A i, j \in 1..2 : ~(gate.range[i] <= ask[c].header
                                       /\ ask[c].header <= gate.range[j])
    <3>1. gate.range \in Nat \X Nat
      BY <2>1, <2>3, GatesAssumption
    <3>2. PICK from \in Nat, to \in Nat :
            /\ Options.blockedMoneyBuilds = [from |-> from, to |-> to]
            /\ \A i \in 1..2 : from <= gate.range[i] /\ gate.range[i] <= to
      BY <2>3, <3>1 DEF Options, ClientGateOptions, ParseBuildRange
    <3>3. Options.blockedMoneyBuilds # None
      BY <3>2, GatesAssumption
    <3>4. ask[c].clientBuild # None
          /\ ~(ask[c].clientBuild >= from /\ ask[c].clientBuild <= to)
      BY <3>2, <3>3 DEF IsMoneyMovementBlocked
    <3>5. ask[c].header \in Nat /\ ask[c].clientBuild = ask[c].header
      BY <2>1, <3>4 DEF LetThrough, EvaluateClientBuild, ParseBuild
    <3> QED
      BY <3>1, <3>2, <3>4, <3>5
  <2> QED
    BY <2>2, <2>3
<1> QED
  BY <1>1, IdentityInvariant, PTL

(* A stored credential is under a key of the configuration, or under one   *)
(* that was dropped while a row, a write on its way or a running process   *)
(* still referenced it (docs/key-runbook.md:84-89, token-crypto.ts:119-131)*)
THEOREM RotationLosesNothing == Spec => []NewestReads
<1>1. IdentityInv => NewestReads
  BY DEF IdentityInv, CredentialsInv
<1> QED
  BY <1>1, IdentityInvariant, PTL

(* A grant reported as stored stays stored (apple.service.ts:31-55).       *)
THEOREM GrantIsKept == Spec => []GrantKept
<1>1. IdentityInv => GrantKept
  BY DEF IdentityInv, CredentialsInv
<1> QED
  BY <1>1, IdentityInvariant, PTL
=============================================================================
