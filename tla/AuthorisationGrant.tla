------------------------- MODULE AuthorisationGrant -------------------------
(***************************************************************************)
(* What an authorisation state promises, whatever the server does with it: *)
(* it is granted to one user, leads to at most one exchange of a code, and *)
(* that exchange is made for the user it was granted to.                   *)
(***************************************************************************)
CONSTANTS
  States,      \* the random states a server may hand out
  Holders,     \* the users they may be granted to
  Nobody       \* the holder of a state that was never granted

VARIABLES
  phase,       \* "unissued", "granted", "spent" on an exchange, or "void"
  holder       \* whom the state was granted to

grantVars == <<phase, holder>>

Init ==
  /\ phase = [s \in States |-> "unissued"]
  /\ holder = [s \in States |-> Nobody]

Grant(s) ==
  /\ phase[s] = "unissued"
  /\ phase' = [phase EXCEPT ![s] = "granted"]
  /\ \E u \in Holders : holder' = [holder EXCEPT ![s] = u]

Spend(s) ==
  /\ phase[s] = "granted"
  /\ phase' = [phase EXCEPT ![s] = "spent"]
  /\ UNCHANGED holder

Void(s) ==
  /\ phase[s] = "granted"
  /\ phase' = [phase EXCEPT ![s] = "void"]
  /\ UNCHANGED holder

Next == \E s \in States : Grant(s) \/ Spend(s) \/ Void(s)

Spec == Init /\ [][Next]_grantVars
=============================================================================
