-------------------------- MODULE MCBankConnections --------------------------
(***************************************************************************)
(* Instances of BankConnections for TLC.                                   *)
(***************************************************************************)
EXTENDS BankConnections, TLC

(* Every account at a bank of its own: the account stands for its bank.    *)
OwnBank == [a \in Accts |-> <<"bank", a>>]

(* All accounts at one bank.                                               *)
OneBank == [a \in Accts |-> "bank"]

(* Every step a request waits at.                                          *)
AllSteps ==
  {"count", "issue", "consume", "exchange", "store", "token", "list", "banks",
   "accounts", "missing", "closeBank", "closeBankAccounts", "secret", "akahu",
   "forget", "closeAll", "closeAllAccounts"}

(* No guard reads entitlement's history of reasons: the run that does not  *)
(* check GoneForAReason identifies states that differ in it.               *)
RequestView == <<entitled, ended, states, tables, req, live, minted>>

(* Bound: a user who has lost entitlement does not pay again.              *)
EndsForGood == entitled' \subseteq entitled

Symmetry ==
  Permutations(Users) \cup Permutations(Requests)
  \cup Permutations(AuthStates) \cup Permutations(Tokens)
=============================================================================
