----------------------------- MODULE RulesEngine -----------------------------
(***************************************************************************)
(* The rules engine of src/modules/rules/rules.engine.ts: which rules a    *)
(* transaction fires, and what their actions fold into.                    *)
(*                                                                         *)
(* A value is what JavaScript's String() makes of it, so a number and its  *)
(* decimal text are one value.  What the engine asks of values (lower      *)
(* case, substring, prefix, suffix, regular expression, number) is given   *)
(* by constants over a small set.  A rule's conditions are a set, for they *)
(* are only conjoined; its actions are a sequence.                         *)
(***************************************************************************)
EXTENDS Integers, SequencesExt

CONSTANTS
  Values,     \* texts and numbers of transactions and conditions
  Lower,      \* toLowerCase: a function on Values
  Number,     \* Number(value) when that is finite, else NaN
  Inside,     \* pairs <<x, y>>: text x contains y
  Opens,      \* pairs <<x, y>>: text x starts with y
  Closes,     \* pairs <<x, y>>: text x ends with y
  Matching,   \* triples <<x, p, cs>>: p is a valid pattern that finds x
  NaN,
  Absent      \* null, or a field that is not there

(* A field the transaction does not have satisfies no condition, not even  *)
(* a negative one.  Case folding is for the text operators: a pattern has  *)
(* its own flag, and numbers compare only when both sides are numbers.     *)
MatchesCondition(t, c) ==
  LET actual == t[c.field]
      fold(v) == IF c.caseSensitive THEN v ELSE Lower[v]
      left == fold(actual)
      right == fold(c.value)
      numeric == Number[actual] # NaN /\ Number[c.value] # NaN
  IN /\ actual # Absent
     /\ CASE c.operator = "equals"       -> left = right
          [] c.operator = "not_equals"   -> left # right
          [] c.operator = "contains"     -> <<left, right>> \in Inside
          [] c.operator = "not_contains" -> <<left, right>> \notin Inside
          [] c.operator = "starts_with"  -> <<left, right>> \in Opens
          [] c.operator = "ends_with"    -> <<left, right>> \in Closes
          [] c.operator = "matches"      -> <<actual, c.value, c.caseSensitive>> \in Matching
          [] c.operator = "gt"  -> numeric /\ Number[actual] > Number[c.value]
          [] c.operator = "gte" -> numeric /\ Number[actual] >= Number[c.value]
          [] c.operator = "lt"  -> numeric /\ Number[actual] < Number[c.value]
          [] c.operator = "lte" -> numeric /\ Number[actual] <= Number[c.value]

MatchesRule(t, rule) ==
  /\ rule.isEnabled
  /\ rule.conditions # {}
  /\ \A c \in rule.conditions : MatchesCondition(t, c)

NoOutcome ==
  [category |-> Absent, tags |-> <<>>, account |-> Absent, note |-> Absent,
   ignored |-> FALSE]

AddTag(tags, tag) == IF Contains(tags, tag) THEN tags ELSE Append(tags, tag)

AddTags(tags, more) == FoldLeft(AddTag, tags, more)

ApplyAction(outcome, action) ==
  CASE action.type = "set_category" -> [outcome EXCEPT !.category = action.value]
    [] action.type = "set_account"  -> [outcome EXCEPT !.account = action.value]
    [] action.type = "set_note"     -> [outcome EXCEPT !.note = action.value]
    [] action.type = "ignore"       -> [outcome EXCEPT !.ignored = TRUE]
    [] action.type = "add_tags"     -> [outcome EXCEPT !.tags = AddTags(@, action.value)]

ApplyActions(outcome, actions) == FoldLeft(ApplyAction, outcome, actions)

(* Array.prototype.sort is stable: ties keep the order of the query.       *)
Ordered(rules) ==
  LET before(i, j) ==
        \/ rules[i].priority < rules[j].priority
        \/ rules[i].priority = rules[j].priority /\ rules[i].createdAt < rules[j].createdAt
      tied(i, j) == ~before(i, j) /\ ~before(j, i)
      order == CHOOSE order \in SetToSeqs(DOMAIN rules) :
                 IsSorted(order, LAMBDA i, j : before(i, j) \/ (tied(i, j) /\ i < j))
  IN [k \in DOMAIN order |-> rules[order[k]]]

(* mutation: the break is not inside the branch of a rule that matched     *)
PassRule_StopsUnmatched(t, acc, rule) ==
  CASE acc.stopped -> acc
    [] ~acc.stopped /\ ~MatchesRule(t, rule) -> [acc EXCEPT !.stopped = rule.stopProcessing]
    [] OTHER -> [matched |-> Append(acc.matched, rule.id),
                 outcome |-> ApplyActions(acc.outcome, rule.actions),
                 stopped |-> rule.stopProcessing]

(* The loop over the ordered rules; once a matching rule stops processing, *)
(* the rest is passed over.                                                *)
PassRule(t, acc, rule) ==
  IF acc.stopped \/ ~MatchesRule(t, rule) THEN acc
  ELSE [matched |-> Append(acc.matched, rule.id),
        outcome |-> ApplyActions(acc.outcome, rule.actions),
        stopped |-> rule.stopProcessing]

PassRules(t, rules) ==
  FoldLeft(LAMBDA acc, rule : PassRule(t, acc, rule),
           [matched |-> <<>>, outcome |-> NoOutcome, stopped |-> FALSE], rules)

EvaluateRules(t, rules) ==
  LET run == PassRules(t, Ordered(rules))
  IN [matched |-> run.matched, outcome |-> run.outcome]
=============================================================================
