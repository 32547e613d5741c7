----------------------------- MODULE MCUserData -----------------------------
(***************************************************************************)
(* Instances of UserData for TLC.                                          *)
(***************************************************************************)
EXTENDS UserData, Money, TLC

Texts == {"", "Cafe", "cafe", "caf", "fe", "12", "12.0", "5", "GBP", "gbp", "("}
LowerOf == [v \in Texts |-> CASE v = "Cafe" -> "cafe" [] v = "GBP" -> "gbp" [] OTHER -> v]
NumberOf == [v \in Texts |->
  CASE v = "" -> 0 [] v \in {"12", "12.0"} -> 12 [] v = "5" -> 5 [] OTHER -> NaN]
Pairs == {<<v, v>> : v \in Texts} \cup {<<v, "">> : v \in Texts}
OpensAll == Pairs \cup {<<"cafe", "caf">>, <<"12.0", "12">>}
ClosesAll == Pairs \cup {<<"cafe", "fe">>}
InsideAll == OpensAll \cup ClosesAll
MatchingAll == {<<"Cafe", "caf", FALSE>>, <<"cafe", "caf", FALSE>>, <<"cafe", "caf", TRUE>>}

Cond(field, operator, value) ==
  [field |-> field, operator |-> operator, value |-> value, caseSensitive |-> FALSE]
Set(type, value) == [type |-> type, value |-> value]

Body(priority, isEnabled, stop, conditions, actions) ==
  [priority |-> priority, isEnabled |-> isEnabled, stopProcessing |-> stop,
   conditions |-> conditions, actions |-> actions]

Food == Body(Absent, Absent, Absent, {Cond("description", "matches", "caf")},
             <<Set("set_category", "food"), Set("add_tags", <<"x", "x">>)>>)
Large == Body(5, Absent, TRUE, {Cond("amount", "gt", "5"), Cond("merchant", "not_contains", "fe")},
              <<Set("add_tags", <<"y", "x">>), Set("set_category", "large")>>)
Small == Body(100, FALSE, FALSE, {Cond("amount", "lte", "12.0"), Cond("currency", "equals", "gbp")},
              <<Set("ignore", Absent), Set("set_account", "12"), Set("set_note", "x")>>)
SomeInputs == {Food, Large, Small}

(* The patch names one field, and resets the priority and isEnabled.       *)
SomePatches == {Body(Absent, Absent, TRUE, Absent, Absent)}

Candidate(description, merchant, amount) ==
  [description |-> description, merchant |-> merchant, amount |-> amount,
   accountId |-> Absent, currency |-> Absent, reference |-> Absent]
SomeCandidates ==
  {Candidate("Cafe", Absent, "12"), Candidate("cafe", "12", "12")}

(* Two of the three accounts have one name.                                *)
Names == [a \in AccountIds |-> IF a = 3 THEN 2 ELSE 1]
Types == [a \in AccountIds |-> IF a = 1 THEN "savings" ELSE "checking"]
Connections == [a \in AccountIds |-> IF a = 2 THEN "first" ELSE "second"]

(* Bound: while a list of rules is being read, its owner makes changes of  *)
(* one kind, nobody else makes any, and none is made before a finished     *)
(* reader rests.                                                           *)
OneKindOfChange ==
  /\ reader.at = "next" /\ rules' # rules => Cardinality(reader'.changes) = 1
  /\ reader.at = "done" => rules' = rules

(* Bound: of rules, accounts and the app's requests, which share nothing,   *)
(* only one moves in a behaviour.                                          *)
ApartNext ==
  \/ AccountsInit /\ AnswersInit /\ RulesNext /\ UNCHANGED <<accountVars, answerVars>>
  \/ RulesInit /\ AnswersInit /\ AccountsNext /\ UNCHANGED <<ruleVars, answerVars>>
  \/ RulesInit /\ AccountsInit /\ AnswersNext /\ UNCHANGED <<ruleVars, accountVars>>

ApartSpec ==
  Init /\ [][ApartNext]_<<ruleVars, accountVars, answerVars>> /\ AppFairness

(* Bound: it is always the same user who writes the first rule; the other  *)
(* way round nothing differs.                                              *)
FirstRuleIsMine ==
  created' = 1 /\ rules'[1] # Absent => rules'[1].user = CHOOSE u \in Users : TRUE

(* The conversions of money, which keep no state.                          *)
ASSUME MoneyAgrees == CentsSurvive /\ StringsSurvive
=============================================================================
