----------------------------- MODULE MCIdentity -----------------------------
(***************************************************************************)
(* Instances of Identity for TLC.                                          *)
(***************************************************************************)
EXTENDS Identity, FiniteSets, TLC

SomeRows == {[status |-> "active", expiresAt |-> 2], [status |-> "grace_period", expiresAt |-> 1]}
SomeHeaders == {Missing, 1, 2}
(* With and without a minimum, and a range written the wrong way round.    *)
SomeGates == {[minimum |-> 2, range |-> None], [minimum |-> None, range |-> <<3, 2>>]}
SomeLists == {<<1>>, <<1, 1>>, <<2, 1>>, <<2>>, <<3, 2, 1>>, <<3, 2>>, <<3, 3, 2>>}

Symmetry == Permutations(Clients) \cup Permutations(Processes) \cup Permutations(Captures)

(* Bound: sessions with onboarding and credentials, which share nothing,   *)
(* do not both move.                                                       *)
Apart ==
  \/ CredentialsInit'
  \/ SessionsInit' /\ OnboardingInit'

(* Bound: the status is asked for, and devices registered, from the only   *)
(* client with tokens, none of them under way; from then on the sessions   *)
(* rest but for the clock.                                                 *)
Settled ==
  /\ \A c \in Clients : answer[c] = NoToken /\ leaving[c] = NoToken
  /\ Cardinality({c \in Clients : holds[c] # NoToken}) <= 1
Asking ==
  ~OnboardingInit' =>
    /\ Settled
    /\ UNCHANGED <<account, holds, answer, leaving>>
    /\ OnboardingInit => ask' # ask
=============================================================================
