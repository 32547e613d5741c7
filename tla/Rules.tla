-------------------------------- MODULE Rules --------------------------------
(***************************************************************************)
(* The rules of a user, from src/modules/rules: the table, the routes that *)
(* create, patch, remove, list and evaluate, and a client that reads the   *)
(* list page by page while all that goes on.                               *)
(*                                                                         *)
(* Every route makes one statement, so it is one step.  Rules are created  *)
(* in the order of their ids; the database keeps microseconds, of which    *)
(* toRule passes on milliseconds, two ids to the millisecond here.  Names  *)
(* and descriptions decide nothing and are left out.                       *)
(***************************************************************************)
EXTENDS RulesEngine, Paging

CONSTANTS
  Users,
  MaxRules,    \* bound: the rules ever created
  Inputs,      \* the bodies POST receives
  Patches,     \* the bodies PATCH receives, at least one field each
  Candidates,  \* the transactions that POST /evaluate receives
  Limit        \* the page size of the client that reads the list

ASSUME PagesAssumption == MaxRules \in Nat /\ Limit \in Nat \ {0}

(* What the schemas let in: a field may be Absent, but for those that a new *)
(* rule must have.                                                         *)
Fields == {"priority", "isEnabled", "stopProcessing", "conditions", "actions"}
ActionTypes == {"set_category", "set_account", "set_note", "ignore", "add_tags"}

AreActions(actions) ==
  /\ Len(actions) \in Nat \ {0} /\ DOMAIN actions = 1..Len(actions)
  /\ \A k \in 1..Len(actions) :
       LET a == actions[k]
       IN a.type \in ActionTypes /\ (a.type = "add_tags" => a.value \in Seq(ToSet(a.value)))

IsBody(body) ==
  /\ body = [f \in Fields |-> body[f]]
  /\ body.priority \in Nat \cup {Absent}
  /\ {body.isEnabled, body.stopProcessing} \subseteq BOOLEAN \cup {Absent}
  /\ body.conditions # {} /\ (body.actions = Absent \/ AreActions(body.actions))

ASSUME InputsAssumption ==
  /\ \A body \in Inputs \cup Patches : IsBody(body)
  /\ \A body \in Inputs : body.conditions # Absent /\ body.actions # Absent

VARIABLES
  rules,       \* the table: id -> row, or Absent
  created,     \* how many rules have been created
  reader       \* the client paging through a list

ruleVars == <<rules, created, reader>>

Ids == 1..MaxRules
Resting == [at |-> "rest"]

RulesInit ==
  /\ rules = [id \in Ids |-> Absent]
  /\ created = 0
  /\ reader = Resting

-----------------------------------------------------------------------------
(* The schemas                                                             *)

Default == [priority |-> 100, isEnabled |-> TRUE, stopProcessing |-> FALSE]

(* mutation: fields that are not sent stay undefined                       *)
Parsed_NoDefaults(body) == body

(* What parsing leaves of a body: the fields with a default are filled in. *)
(* This is so of a PATCH too, for partial() keeps the defaults: a patch    *)
(* resets what it does not name, and even the empty object passes for one  *)
(* that provides a field.                                                  *)
Parsed(body) ==
  [f \in DOMAIN body |->
     IF body[f] = Absent /\ f \in DOMAIN Default THEN Default[f] ELSE body[f]]

(* The candidate transaction, with its own two defaults.                   *)
ParsedCandidate(t) ==
  [t EXCEPT !.description = IF @ = Absent THEN "" ELSE @,
            !.currency = IF @ = Absent THEN "GBP" ELSE @]

-----------------------------------------------------------------------------
(* The repository                                                          *)

Mine(u, id) == rules[id] # Absent /\ rules[id].user = u

(* order by priority, created_at: the one listing of these rows in which   *)
(* each comes before the next.                                             *)
Listed(ids) ==
  CHOOSE list \in SetToSeqs(ids) :
    IsSorted(list, LAMBDA i, j :
      \/ rules[i].priority < rules[j].priority
      \/ rules[i].priority = rules[j].priority /\ i < j)

List(u, enabledOnly) ==
  Listed({id \in Ids : Mine(u, id) /\ (enabledOnly => rules[id].isEnabled)})

ToRule(id) ==
  [id |-> id, createdAt |-> id \div 2, priority |-> rules[id].priority,
   isEnabled |-> rules[id].isEnabled, stopProcessing |-> rules[id].stopProcessing,
   conditions |-> rules[id].conditions, actions |-> rules[id].actions]

(* POST /evaluate, over all the enabled rules and not a page of them.      *)
Evaluate(u, t) ==
  LET ids == List(u, TRUE)
  IN EvaluateRules(ParsedCandidate(t), [k \in DOMAIN ids |-> ToRule(ids[k])])

-----------------------------------------------------------------------------
(* The routes                                                              *)

(* A write of u next to u's own reader is noted in the reader's history.   *)
Disturb(u, how) ==
  reader' = IF reader # Resting /\ reader.user = u
            THEN [reader EXCEPT !.changes = @ \cup {how}] ELSE reader

Create(u, input) ==
  /\ created < MaxRules
  /\ created' = created + 1
  /\ LET body == Parsed(input)
     IN rules' = [rules EXCEPT ![created + 1] =
          [user |-> u, priority |-> body.priority, isEnabled |-> body.isEnabled,
           stopProcessing |-> body.stopProcessing, conditions |-> body.conditions,
           actions |-> body.actions]]
  /\ Disturb(u, "insert")

(* mutation: the row is found by its id alone                              *)
Update_AnyOwner(u, id, patch) ==
  /\ rules[id] # Absent
  /\ LET body == Parsed(patch)
     IN rules' = [rules EXCEPT ![id] =
          [f \in DOMAIN @ |-> IF f \in DOMAIN body /\ body[f] # Absent THEN body[f] ELSE @[f]]]
  /\ Disturb(u, "update")
  /\ UNCHANGED created

(* PATCH: every field that parsing left defined is written; somebody       *)
(* else's rule is a 404.                                                   *)
Update(u, id, patch) ==
  /\ Mine(u, id)
  /\ LET body == Parsed(patch)
     IN rules' = [rules EXCEPT ![id] =
          [f \in DOMAIN @ |-> IF f \in DOMAIN body /\ body[f] # Absent THEN body[f] ELSE @[f]]]
  /\ Disturb(u, "update")
  /\ UNCHANGED created

Delete(u, id) ==
  /\ Mine(u, id)
  /\ rules' = [rules EXCEPT ![id] = Absent]
  /\ Disturb(u, "delete")
  /\ UNCHANGED created

-----------------------------------------------------------------------------
(* A client reads the list from the first page until hasMore is false.     *)

StartReading(u, enabledOnly) ==
  /\ reader = Resting
  /\ reader' = [at |-> "next", user |-> u, enabledOnly |-> enabledOnly, offset |-> 0,
                seen |-> <<>>, changes |-> {}, began |-> ToSet(List(u, enabledOnly))]
  /\ UNCHANGED <<rules, created>>

ReadPage ==
  /\ reader.at = "next"
  /\ LET page == Paginate(List(reader.user, reader.enabledOnly), reader.offset, Limit)
     IN reader' = [reader EXCEPT !.at = IF page.hasMore THEN "next" ELSE "done",
                                 !.seen = @ \o page.data,
                                 !.offset = @ + Limit]
  /\ UNCHANGED <<rules, created>>

StopReading ==
  /\ reader.at = "done"
  /\ reader' = Resting
  /\ UNCHANGED <<rules, created>>

-----------------------------------------------------------------------------
RuleStep(u) ==
  \/ \E input \in Inputs : Create(u, input)
  \/ \E id \in Ids : Delete(u, id) \/ \E patch \in Patches : Update(u, id, patch)

RulesNext ==
  \/ \E u \in Users : RuleStep(u) \/ \E enabledOnly \in BOOLEAN : StartReading(u, enabledOnly)
  \/ ReadPage \/ StopReading

RulesSpec == RulesInit /\ [][RulesNext]_ruleVars

-----------------------------------------------------------------------------
(* Properties                                                              *)

(* What the enabled rules of u are, and which of them come before which,   *)
(* said without sorting: by priority, then by age.                         *)
Enabled(u) == {id \in Ids : Mine(u, id) /\ rules[id].isEnabled}

Precedes(i, j) ==
  \/ rules[i].priority < rules[j].priority
  \/ rules[i].priority = rules[j].priority /\ i < j

Matches(id, t) == \A c \in rules[id].conditions : MatchesCondition(ParsedCandidate(t), c)

(* The rules that fire: those that match, down to the first that stops.    *)
Firing(u, t) ==
  LET matching == {id \in Enabled(u) : Matches(id, t)}
  IN {id \in matching :
        \A j \in matching : Precedes(j, id) => ~rules[j].stopProcessing}

Has(id, type) == \E k \in DOMAIN rules[id].actions : rules[id].actions[k].type = type

(* What the last of these rules to have an action of this type says in it. *)
LastSet(firing, type) ==
  LET setters == {id \in firing : Has(id, type)}
  IN IF setters = {} THEN Absent
     ELSE LET id == CHOOSE i \in setters : \A j \in setters : j = i \/ Precedes(j, i)
              k == SelectLastInSeq(rules[id].actions, LAMBDA a : a.type = type)
          IN rules[id].actions[k].value

TagsOf(id) ==
  UNION {ToSet(rules[id].actions[k].value) :
           k \in {n \in DOMAIN rules[id].actions : rules[id].actions[n].type = "add_tags"}}

(* The type invariant: rows keep what the schemas let in.                  *)
RulesTypeOK ==
  /\ created \in 0..MaxRules
  /\ \A id \in Ids : rules[id] # Absent =>
       /\ id <= created /\ rules[id].user \in Users
       /\ rules[id].priority \in Nat
       /\ {rules[id].isEnabled, rules[id].stopProcessing} \subseteq BOOLEAN
       /\ rules[id].conditions # {} /\ AreActions(rules[id].actions)
  /\ reader.at \in {"rest", "next", "done"}

(* Whatever was created, patched and removed, evaluation answers by the    *)
(* rules as they stand: a rule counts exactly when it matches and no       *)
(* matching rule before it stops processing; the last one to set a field   *)
(* wins; a tag appears once (rules.engine.ts:115-146).                     *)
EvaluationAgrees ==
  \A u \in Users, t \in Candidates :
    LET result == Evaluate(u, t)
        out == result.outcome
        firing == Firing(u, t)
    IN /\ ToSet(result.matched) = firing /\ IsSorted(result.matched, Precedes)
       /\ out.category = LastSet(firing, "set_category")
       /\ out.account = LastSet(firing, "set_account")
       /\ out.note = LastSet(firing, "set_note")
       /\ out.ignored <=> \E id \in firing : Has(id, "ignore")
       /\ ToSet(out.tags) = UNION {TagsOf(id) : id \in firing}
       /\ Len(out.tags) = Cardinality(ToSet(out.tags))

(* A client that follows hasMore to the end has read each of the user's    *)
(* rules once, in order, if the user changed nothing meanwhile; and if     *)
(* rules were only added, it has missed none that was there when it began  *)
(* (pagination.ts:32-37, rules.repository.ts:27-29).                       *)
PagesTile ==
  reader.at = "done" =>
    /\ reader.changes = {} => reader.seen = List(reader.user, reader.enabledOnly)
    /\ reader.changes \subseteq {"insert"} => reader.began \subseteq ToSet(reader.seen)

(* No request of one user touches the rules of another, and so none shows  *)
(* in what they list or what their transactions are evaluated to           *)
(* (accounts.repository.ts:19-22, which rules.repository.ts:14 refers to). *)
NoInterference ==
  [][\A u, v \in Users : u # v /\ RuleStep(v) =>
       \A id \in Ids : Mine(u, id) \/ Mine(u, id)' => rules'[id] = rules[id]]_ruleVars
=============================================================================
