------------------------------ MODULE Identity ------------------------------
(***************************************************************************)
(* What the server knows of a user and a client: sessions with onboarding  *)
(* and devices on top of them, and the custody of provider credentials.    *)
(* The two share no table, so a step is a step of one of them; that a row  *)
(* of akahu_tokens comes and goes is left open in Onboarding.              *)
(***************************************************************************)
EXTENDS Onboarding, Credentials

Init == SessionsInit /\ OnboardingInit /\ CredentialsInit

Next ==
  \/ OnboardingNext /\ UNCHANGED credentialVars
  \/ CredentialsNext /\ UNCHANGED identityVars

Spec == Init /\ [][Next]_<<identityVars, credentialVars>>
=============================================================================
