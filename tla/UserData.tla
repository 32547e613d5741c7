------------------------------ MODULE UserData ------------------------------
(***************************************************************************)
(* A user's requests for their own data: the hooks a request passes and    *)
(* the refusals it may meet (Answers), then the plain CRUD modules, rules  *)
(* and accounts.  They share no state, so a step is a step of one of them. *)
(***************************************************************************)
EXTENDS Rules, Accounts, Answers

Init == RulesInit /\ AccountsInit /\ AnswersInit

Next ==
  \/ RulesNext /\ UNCHANGED <<accountVars, answerVars>>
  \/ AccountsNext /\ UNCHANGED <<ruleVars, answerVars>>
  \/ AnswersNext /\ UNCHANGED <<ruleVars, accountVars>>

Spec == Init /\ [][Next]_<<ruleVars, accountVars, answerVars>> /\ AppFairness
=============================================================================
