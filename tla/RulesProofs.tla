----------------------------- MODULE RulesProofs -----------------------------
(***************************************************************************)
(* What the rule routes keep for any users, rules, bodies and patches: rows *)
(* stay well formed, nobody reaches the rules of somebody else, pages tile *)
(* the list, and evaluation answers by the rules that fire.                *)
(*                                                                         *)
(* Evaluation is three loops, over rules, actions and tags.  A fold is the *)
(* last state of a run of its loop (FoldExists and LoopRuns of ListProofs), *)
(* so what a loop has done after k of n rounds is shown over the rounds.   *)
(***************************************************************************)
EXTENDS Rules, ListProofs

(* The table has a place for every id, a row all its columns, and a client *)
(* is somewhere.                                                           *)
Columns ==
  /\ "at" \in DOMAIN reader
  /\ rules = [id \in Ids |-> rules[id]]
  /\ \A id \in Ids : rules[id] # Absent => DOMAIN rules[id] = Fields \cup {"user"}

RulesInv == RulesTypeOK /\ Columns

(* What parsing leaves of a body has every field, with a value of its own  *)
(* or the default.                                                         *)
LEMMA ParsedOK ==
  ASSUME NEW body, IsBody(body)
  PROVE  /\ DOMAIN Parsed(body) = Fields
         /\ Parsed(body).priority \in Nat
         /\ {Parsed(body).isEnabled, Parsed(body).stopProcessing} \subseteq BOOLEAN
         /\ Parsed(body).conditions # {}
         /\ Parsed(body).actions = body.actions
         /\ Parsed(body).actions = Absent \/ AreActions(Parsed(body).actions)
<1>1. DOMAIN body = Fields
  BY DEF IsBody
<1>2. \A f \in Fields :
        Parsed(body)[f] = IF body[f] = Absent /\ f \in DOMAIN Default THEN Default[f] ELSE body[f]
  BY <1>1 DEF Parsed
<1> QED BY <1>1, <1>2 DEF Parsed, IsBody, Fields, Default

(* A new rule is well formed, and nobody else's.                           *)
LEMMA CreateOK ==
  ASSUME RulesInv, NEW u \in Users, NEW input \in Inputs, Create(u, input)
  PROVE  /\ RulesInv'
         /\ \A id \in Ids : rules'[id] = rules[id]
                            \/ (rules[id] = Absent /\ rules'[id].user = u)
<1> DEFINE body == Parsed(input)
           row == [user |-> u, priority |-> body.priority, isEnabled |-> body.isEnabled,
                   stopProcessing |-> body.stopProcessing, conditions |-> body.conditions,
                   actions |-> body.actions]
<1>1. /\ body.priority \in Nat /\ {body.isEnabled, body.stopProcessing} \subseteq BOOLEAN
      /\ body.conditions # {} /\ AreActions(body.actions)
  BY ParsedOK, InputsAssumption
<1>2. created + 1 \in Ids /\ created' = created + 1 /\ created' \in 0..MaxRules
  BY PagesAssumption DEF RulesInv, RulesTypeOK, Create, Ids
<1>3. rules' = [rules EXCEPT ![created + 1] = row] /\ Disturb(u, "insert")
  BY DEF Create
<1>4. rules' = [id \in Ids |-> IF id = created + 1 THEN row ELSE rules[id]]
  BY <1>3 DEF RulesInv, Columns, Ids, Fields
<1>5. reader'.at = reader.at /\ "at" \in DOMAIN reader'
  BY <1>3 DEF Disturb, RulesInv, Columns
<1> HIDE DEF body
<1>6. DOMAIN row = Fields \cup {"user"}
  BY DEF Fields
<1>7. \A id \in Ids : rules[id] # Absent => id <= created
  BY DEF RulesInv, RulesTypeOK
<1>8. rules[created + 1] = Absent
  BY <1>2, <1>7, PagesAssumption DEF RulesInv, RulesTypeOK
<1>9. RulesTypeOK'
  BY <1>1, <1>2, <1>4, <1>5, <1>7, PagesAssumption DEF RulesInv, RulesTypeOK, Ids
<1>10. Columns'
  BY <1>4, <1>5, <1>6 DEF RulesInv, Columns, Ids, Fields
<1> QED BY <1>4, <1>8, <1>9, <1>10 DEF RulesInv

(* A patch leaves a well-formed row with its owner.                        *)
LEMMA UpdateOK ==
  ASSUME RulesInv, NEW u \in Users, NEW i \in Ids, NEW patch \in Patches, Update(u, i, patch)
  PROVE  /\ RulesInv'
         /\ \A id \in Ids : rules'[id] = rules[id]
                            \/ (Mine(u, id) /\ rules'[id].user = u)
<1> DEFINE body == Parsed(patch)
           row == [f \in DOMAIN rules[i] |->
                     IF f \in DOMAIN body /\ body[f] # Absent THEN body[f] ELSE rules[i][f]]
<1>1. /\ DOMAIN body = Fields
      /\ body.priority \in Nat /\ {body.isEnabled, body.stopProcessing} \subseteq BOOLEAN
      /\ body.conditions # {} /\ (body.actions = Absent \/ AreActions(body.actions))
  BY ParsedOK, InputsAssumption
<1>2. Mine(u, i) /\ created' = created /\ Disturb(u, "update")
      /\ rules' = [rules EXCEPT ![i] = row]
  BY DEF Update
<1>3. rules' = [id \in Ids |-> IF id = i THEN row ELSE rules[id]]
  BY <1>1, <1>2 DEF RulesInv, Columns, Ids, Fields
<1>4. reader'.at = reader.at /\ "at" \in DOMAIN reader'
  BY <1>2 DEF Disturb, RulesInv, Columns
<1>5. rules[i] # Absent /\ rules[i].user = u /\ DOMAIN rules[i] = Fields \cup {"user"}
  BY <1>2 DEF Mine, RulesInv, Columns
<1> HIDE DEF body
<1>6. DOMAIN row = Fields \cup {"user"} /\ row.user = u
  BY <1>1, <1>5 DEF Fields
<1>7. /\ row.priority \in Nat /\ {row.isEnabled, row.stopProcessing} \subseteq BOOLEAN
      /\ row.conditions # {} /\ AreActions(row.actions)
  BY <1>1, <1>5 DEF RulesInv, RulesTypeOK, Fields
<1> HIDE DEF row
<1>8. RulesTypeOK'
  BY <1>2, <1>3, <1>4, <1>5, <1>6, <1>7 DEF RulesInv, RulesTypeOK, Ids
<1>9. Columns'
  BY <1>3, <1>4, <1>6 DEF RulesInv, Columns, Ids, Fields
<1> QED BY <1>2, <1>3, <1>6, <1>8, <1>9 DEF RulesInv

(* A removal empties a place of the user's own.                            *)
LEMMA DeleteOK ==
  ASSUME RulesInv, NEW u \in Users, NEW i \in Ids, Delete(u, i)
  PROVE  /\ RulesInv'
         /\ \A id \in Ids : rules'[id] = rules[id]
                            \/ (Mine(u, id) /\ rules'[id] = Absent)
<1>1. Mine(u, i) /\ created' = created /\ rules' = [rules EXCEPT ![i] = Absent]
      /\ reader'.at = reader.at /\ "at" \in DOMAIN reader'
  BY DEF Delete, Disturb, RulesInv, Columns
<1>2. rules' = [id \in Ids |-> IF id = i THEN Absent ELSE rules[id]]
  BY <1>1 DEF RulesInv, Columns, Ids, Fields
<1>3. RulesTypeOK'
  BY <1>1, <1>2 DEF RulesInv, RulesTypeOK, Ids
<1>4. Columns'
  BY <1>1, <1>2 DEF RulesInv, Columns, Ids, Fields
<1> QED BY <1>1, <1>2, <1>3, <1>4 DEF RulesInv

(* A client that reads writes nothing.                                     *)
LEMMA ReadersOK ==
  ASSUME RulesInv, UNCHANGED <<rules, created>>,
         "at" \in DOMAIN reader', reader'.at \in {"rest", "next", "done"}
  PROVE  RulesInv'
BY DEF RulesInv, RulesTypeOK, Columns, Ids, Fields

(* Every step keeps the rows well formed, and one that writes changes only *)
(* what its user owns, or a place that was empty.                          *)
LEMMA RulesStep ==
  ASSUME RulesInv, [RulesNext]_ruleVars
  PROVE  RulesInv'
<1>1. CASE \E u \in Users : RuleStep(u)
  BY <1>1, CreateOK, UpdateOK, DeleteOK DEF RuleStep
<1>2. CASE \E u \in Users, enabledOnly \in BOOLEAN : StartReading(u, enabledOnly)
  BY <1>2, ReadersOK DEF StartReading
<1>3. CASE ReadPage
  <2>1. "at" \in DOMAIN reader' /\ reader'.at \in {"rest", "next", "done"}
    <3> DEFINE page == Paginate(List(reader.user, reader.enabledOnly), reader.offset, Limit)
    <3>1. reader' = [reader EXCEPT !.at = IF page.hasMore THEN "next" ELSE "done",
                                   !.seen = @ \o page.data, !.offset = @ + Limit]
      BY <1>3 DEF ReadPage
    <3> HIDE DEF page
    <3> QED BY <3>1 DEF RulesInv, Columns
  <2> QED BY <1>3, <2>1, ReadersOK DEF ReadPage
<1>4. CASE StopReading
  BY <1>4, ReadersOK DEF StopReading, Resting
<1>5. CASE UNCHANGED ruleVars
  BY <1>5, ReadersOK DEF ruleVars, RulesInv, RulesTypeOK, Columns
<1> QED BY <1>1, <1>2, <1>3, <1>4, <1>5 DEF RulesNext

(* The rows and their columns are well formed in every reachable state.    *)
THEOREM RulesInvariant == RulesSpec => []RulesInv
<1>1. RulesInit => RulesInv
  BY PagesAssumption DEF RulesInit, RulesInv, RulesTypeOK, Columns, Resting, Ids
<1> QED BY <1>1, RulesStep, PTL DEF RulesSpec

(* Rows keep what the schemas let in, whatever is created and patched, the *)
(* defaults that a patch writes over what was there included               *)
(* (rules.types.ts:62-78).                                                 *)
THEOREM RulesWellFormed == RulesSpec => []RulesTypeOK
<1>1. RulesInv => RulesTypeOK
  BY DEF RulesInv
<1> QED BY <1>1, RulesInvariant, PTL

(* No request of one user changes, adds or removes a rule of another       *)
(* (rules.repository.ts:48-91).                                            *)
THEOREM RulesApart == RulesSpec => NoInterference
<1> DEFINE Apart ==
      \A u, v \in Users : u # v /\ RuleStep(v) =>
        \A id \in Ids : Mine(u, id) \/ Mine(u, id)' => rules'[id] = rules[id]
<1>1. ASSUME RulesInv, NEW u \in Users, NEW v \in Users, u # v, RuleStep(v), NEW id \in Ids,
             Mine(u, id) \/ Mine(u, id)'
      PROVE  rules'[id] = rules[id]
  <2>1. \/ rules'[id] = rules[id]
        \/ rules[id] = Absent /\ rules'[id].user = v
        \/ Mine(v, id) /\ (rules'[id].user = v \/ rules'[id] = Absent)
    BY <1>1, CreateOK, UpdateOK, DeleteOK DEF RuleStep
  <2> QED BY <1>1, <2>1 DEF Mine
<1>2. RulesInv => Apart
  BY <1>1
<1> QED BY <1>2, RulesInvariant, PTL DEF RulesSpec, NoInterference

-----------------------------------------------------------------------------
(* The list, and a client that reads it page by page                       *)

Rows(u, enabledOnly) == {id \in Ids : Mine(u, id) /\ (enabledOnly => rules[id].isEnabled)}

(* By priority, then by age; a rule stands next to itself.                 *)
ByRank == {p \in Ids \X Ids : Precedes(p[1], p[2]) \/ p[1] = p[2]}

(* The list is the one listing of the rows in that order.                  *)
Orderly(u, enabledOnly) ==
  /\ IsFiniteSet(Rows(u, enabledOnly))
  /\ Ranks(ByRank, Rows(u, enabledOnly))
  /\ \A i, j \in Rows(u, enabledOnly) : <<i, j>> \in ByRank /\ <<j, i>> \in ByRank => i = j
  /\ List(u, enabledOnly) \in SetToSeqs(Rows(u, enabledOnly))
  /\ InOrder(List(u, enabledOnly), ByRank)

ListsOrderly == \A u \in Users, enabledOnly \in BOOLEAN : Orderly(u, enabledOnly)

LEMMA ListOrderly == RulesInv => ListsOrderly
<1> SUFFICES ASSUME RulesInv, NEW u \in Users, NEW enabledOnly \in BOOLEAN
             PROVE  Orderly(u, enabledOnly)
  BY DEF ListsOrderly
<1> DEFINE S == Rows(u, enabledOnly)
<1>1. S \subseteq Ids /\ IsFiniteSet(S)
  <2>1. IsFiniteSet(Ids)
    BY PagesAssumption, FS_Interval DEF Ids
  <2>2. S \in SUBSET Ids
    BY DEF Rows
  <2> QED BY <2>1, <2>2, FS_Subset
<1>2. \A i \in S : i \in Nat /\ rules[i].priority \in Nat
  BY DEF Rows, Mine, RulesInv, RulesTypeOK, Ids
<1>3. List(u, enabledOnly) = Listed(S)
  BY DEF List, Rows
<1> HIDE DEF S
<1>4. \A i, j \in S : <<i, j>> \in ByRank <=> Precedes(i, j) \/ i = j
  BY <1>1 DEF ByRank
<1>5. /\ \A i, j \in S : Precedes(i, j) \/ Precedes(j, i) \/ i = j
      /\ \A i, j \in S : ~(Precedes(i, j) /\ Precedes(j, i)) /\ ~Precedes(i, i)
      /\ \A i, j, k \in S : Precedes(i, j) /\ Precedes(j, k) => Precedes(i, k)
  BY <1>2 DEF Precedes
<1>6. Ranks(ByRank, S)
  BY <1>4, <1>5 DEF Ranks
<1>7. \A i, j \in S : <<i, j>> \in ByRank /\ <<j, i>> \in ByRank => i = j
  BY <1>4, <1>5
<1>8. ASSUME NEW list \in SetToSeqs(S)
      PROVE  InOrder(list, ByRank) <=> \A i, j \in 1..Len(list) : i < j => Precedes(list[i], list[j])
  <2>1. /\ DOMAIN list = 1..Len(list) /\ \A i \in 1..Len(list) : list[i] \in S
        /\ \A i, j \in 1..Len(list) : list[i] = list[j] => i = j
        /\ Len(list) \in Nat
    BY <1>1, ListingShowsAll
  <2>2. \A i, j \in 1..Len(list) :
          i < j => (<<list[i], list[j]>> \in ByRank <=> Precedes(list[i], list[j]))
    <3> SUFFICES ASSUME NEW i \in 1..Len(list), NEW j \in 1..Len(list), i < j
                 PROVE  <<list[i], list[j]>> \in ByRank <=> Precedes(list[i], list[j])
      OBVIOUS
    <3>1. list[i] \in S /\ list[j] \in S /\ list[i] # list[j]
      BY <2>1
    <3> QED BY <1>4, <3>1
  <2> QED BY <2>1, <2>2 DEF InOrder
<1>9. Listed(S) = CHOOSE list \in SetToSeqs(S) :
                    \A i, j \in 1..Len(list) : i < j => Precedes(list[i], list[j])
  BY DEF Listed, IsSorted, Precedes
<1>10. \E list \in SetToSeqs(S) : \A i, j \in 1..Len(list) : i < j => Precedes(list[i], list[j])
  <2>1. PICK list \in SetToSeqs(S) : InOrder(list, ByRank)
    BY <1>1, <1>6, CanBeListed
  <2> QED BY <1>8, <2>1
<1>11. Listed(S) \in SetToSeqs(S) /\ InOrder(Listed(S), ByRank)
  BY <1>8, <1>9, <1>10
<1> QED BY <1>1, <1>3, <1>6, <1>7, <1>11 DEF Orderly, S
(* When rows of a list stay as they are and others may be added, no row    *)
(* moves to an earlier place; when none is added, the list is the same.    *)
LEMMA ListGrows ==
  ASSUME RulesInv, RulesInv', NEW u \in Users, NEW enabledOnly \in BOOLEAN,
         Rows(u, enabledOnly) \subseteq Rows(u, enabledOnly)',
         \A id \in Rows(u, enabledOnly) : rules'[id] = rules[id]
  PROVE  /\ Len(List(u, enabledOnly)) <= Len(List(u, enabledOnly)')
         /\ \A i \in 1..Len(List(u, enabledOnly)) :
              \E j \in i..Len(List(u, enabledOnly)') :
                List(u, enabledOnly)'[j] = List(u, enabledOnly)[i]
         /\ Rows(u, enabledOnly)' = Rows(u, enabledOnly)
              => List(u, enabledOnly)' = List(u, enabledOnly)
<1> DEFINE S == Rows(u, enabledOnly)
           list == List(u, enabledOnly)
           n == Cardinality(S)
<1>1. Orderly(u, enabledOnly) /\ Orderly(u, enabledOnly)'
  <2>1. (RulesInv => ListsOrderly)'
    BY ListOrderly, PTL
  <2> QED BY <2>1, ListOrderly DEF ListsOrderly
<1>2. /\ IsFiniteSet(S) /\ Ranks(ByRank, S)
      /\ \A i, j \in S : <<i, j>> \in ByRank /\ <<j, i>> \in ByRank => i = j
      /\ list \in SetToSeqs(S) /\ InOrder(list, ByRank)
  BY <1>1 DEF Orderly
<1>3. /\ IsFiniteSet(S') /\ Ranks(ByRank', S')
      /\ \A i, j \in S' : <<i, j>> \in ByRank' /\ <<j, i>> \in ByRank' => i = j
      /\ list' \in SetToSeqs(S') /\ InOrder(list', ByRank')
  BY <1>1 DEF Orderly
<1>4. \A i, j \in S : <<i, j>> \in ByRank' <=> <<i, j>> \in ByRank
  BY DEF ByRank, Precedes, Rows, Ids
<1>5. /\ n \in Nat /\ Len(list) = n /\ DOMAIN list = 1..n
      /\ \A i \in 1..n : list[i] \in S
  BY <1>2, ListingShowsAll
<1>6. /\ n' \in Nat /\ Len(list') = n' /\ DOMAIN list' = 1..n'
      /\ \A i \in 1..n' : list'[i] \in S'
      /\ \A a \in S' : \E j \in 1..n' : list'[j] = a
  BY <1>3, ListingShowsAll
<1> HIDE DEF S, list
<1>7. S \in SUBSET S'
  BY DEF S
<1>8. n <= n'
  BY <1>3, <1>7, FS_Subset
<1>9. ASSUME NEW i \in 1..n
      PROVE  \E j \in i..n' : list'[j] = list[i]
  <2>1. PICK j \in 1..n' : list'[j] = list[i]
    BY <1>5, <1>6, <1>7
  <2> DEFINE before == {a \in S : <<a, list[i]>> \in ByRank}
             after == {a \in S' : <<a, list'[j]>> \in ByRank'}
  <2>2. Cardinality(before) = i
    BY <1>2, OneListing
  <2>3. Cardinality(after) = j
    BY <1>3, OneListing
  <2>4. before \in SUBSET after
    BY <1>4, <1>5, <1>7, <2>1
  <2>5. IsFiniteSet(after)
    <3>1. after \in SUBSET S'
      OBVIOUS
    <3> QED BY <1>3, <3>1, FS_Subset
  <2>6. i <= j
    <3> HIDE DEF before, after
    <3> QED BY <2>2, <2>3, <2>4, <2>5, FS_Subset
  <2> QED BY <1>6, <2>1, <2>6
<1>10. ASSUME S' = S
       PROVE  list' = list
  <2>1. InOrder(list', ByRank)
    BY <1>3, <1>4, <1>6, <1>10 DEF InOrder
  <2> QED BY <1>2, <1>3, <1>10, <2>1, OneListing
<1> QED BY <1>5, <1>6, <1>8, <1>9, <1>10 DEF S, list

(* The client in the middle of a list.                                     *)
MidReading ==
  reader = [at |-> reader.at, user |-> reader.user, enabledOnly |-> reader.enabledOnly,
            offset |-> reader.offset, seen |-> reader.seen, changes |-> reader.changes,
            began |-> reader.began]

(* What was read is the list up to the offset, while its owner changes     *)
(* nothing; while rules are only added, those of the beginning were read   *)
(* or are yet to come.                                                     *)
TilesSoFar ==
  LET list == List(reader.user, reader.enabledOnly)
      seen == reader.seen
  IN /\ reader.offset \in Nat /\ seen \in Seq(Ids)
     /\ reader.at = "next" => reader.offset <= Len(list)
     /\ reader.changes = {} =>
          /\ reader.at = "next" => /\ Len(seen) = reader.offset
                                   /\ \A i \in 1..Len(seen) : seen[i] = list[i]
          /\ reader.at = "done" => seen = list
     /\ \A a \in reader.began :
          \/ a \in ToSet(seen)
          \/ reader.at = "next" /\ \E i \in (reader.offset + 1)..Len(list) : list[i] = a

ReaderInv ==
  \/ reader = Resting
  \/ /\ reader.at \in {"next", "done"} /\ MidReading
     /\ reader.user \in Users /\ reader.enabledOnly \in BOOLEAN
     /\ reader.changes \subseteq {"insert"} => TilesSoFar

(* A write keeps the reader's promise: one of somebody else because the    *)
(* list stays, an insert of its owner because rows only move further on,   *)
(* any other of its owner because nothing is promised after it.            *)
LEMMA ReaderKeeps ==
  ASSUME RulesInv, RulesInv', ReaderInv, reader # Resting, MidReading',
         NEW u \in Users, NEW enabledOnly \in BOOLEAN, NEW changes,
         u = reader.user /\ u = reader'.user,
         enabledOnly = reader.enabledOnly /\ enabledOnly = reader'.enabledOnly,
         reader'.at = reader.at /\ reader'.offset = reader.offset,
         reader'.seen = reader.seen /\ reader'.began = reader.began,
         changes = reader'.changes,
         changes \subseteq {"insert"} =>
           /\ reader.changes \subseteq {"insert"}
           /\ Rows(u, enabledOnly) \subseteq Rows(u, enabledOnly)'
           /\ \A id \in Rows(u, enabledOnly) : rules'[id] = rules[id],
         changes = {} =>
           reader.changes = {} /\ Rows(u, enabledOnly)' = Rows(u, enabledOnly)
  PROVE  ReaderInv'
<1>1. reader.at \in {"next", "done"} /\ (reader.changes \subseteq {"insert"} => TilesSoFar)
  BY DEF ReaderInv
<1>2. ASSUME changes \subseteq {"insert"}
      PROVE  TilesSoFar'
  <2> DEFINE list == List(u, enabledOnly)
  <2>1. /\ Len(list) <= Len(list')
        /\ \A i \in 1..Len(list) : \E j \in i..Len(list') : list'[j] = list[i]
        /\ Rows(u, enabledOnly)' = Rows(u, enabledOnly) => list' = list
    BY <1>2, ListGrows
  <2>2. Len(list) \in Nat /\ Len(list') \in Nat
    <3>1. Orderly(u, enabledOnly) /\ Orderly(u, enabledOnly)'
      <4>1. (RulesInv => ListsOrderly)'
        BY ListOrderly, PTL
      <4> QED BY <4>1, ListOrderly DEF ListsOrderly
    <3> QED BY <3>1, ListingShowsAll DEF Orderly
  <2>3. TilesSoFar
    BY <1>1, <1>2
  <2>4. /\ reader.offset \in Nat /\ reader.seen \in Seq(Ids)
        /\ reader.at = "next" => reader.offset <= Len(list)
        /\ reader.changes = {} =>
             /\ reader.at = "next" => /\ Len(reader.seen) = reader.offset
                                      /\ \A i \in 1..Len(reader.seen) : reader.seen[i] = list[i]
             /\ reader.at = "done" => reader.seen = list
        /\ \A a \in reader.began :
             \/ a \in ToSet(reader.seen)
             \/ reader.at = "next" /\ \E i \in (reader.offset + 1)..Len(list) : list[i] = a
    BY <2>3 DEF TilesSoFar
  <2>5. List(reader.user, reader.enabledOnly)' = list'
    OBVIOUS
  <2> HIDE DEF list
  <2>6. reader.at = "next" => reader.offset <= Len(list')
    BY <2>1, <2>2, <2>4
  <2>7. changes = {} => list' = list /\ reader.changes = {}
    BY <2>1
  <2>8. ASSUME NEW a \in reader.began
        PROVE  \/ a \in ToSet(reader.seen)
               \/ reader.at = "next" /\ \E i \in (reader.offset + 1)..Len(list') : list'[i] = a
    <3>1. ASSUME NEW i \in (reader.offset + 1)..Len(list), list[i] = a
          PROVE  \E j \in (reader.offset + 1)..Len(list') : list'[j] = a
      <4>1. i \in 1..Len(list)
        BY <2>2, <2>4
      <4>2. PICK j \in i..Len(list') : list'[j] = list[i]
        BY <2>1, <4>1
      <4>3. j \in (reader.offset + 1)..Len(list')
        BY <2>2, <2>4, <4>1
      <4> QED BY <3>1, <4>2, <4>3
    <3> QED BY <2>4, <3>1
  <2> QED BY <2>4, <2>5, <2>6, <2>7, <2>8 DEF TilesSoFar
<1> QED BY <1>1, <1>2 DEF ReaderInv

(* What a note in the reader's history does to the reader.                 *)
LEMMA Noted ==
  ASSUME ReaderInv, reader # Resting, NEW v \in Users, NEW how, Disturb(v, how)
  PROVE  /\ MidReading'
         /\ reader'.at = reader.at /\ reader'.user = reader.user
         /\ reader'.enabledOnly = reader.enabledOnly /\ reader'.offset = reader.offset
         /\ reader'.seen = reader.seen /\ reader'.began = reader.began
         /\ reader'.changes = reader.changes \cup (IF v = reader.user THEN {how} ELSE {})
<1>1. MidReading
  BY DEF ReaderInv
<1>2. CASE v = reader.user
  <2>1. reader' = [reader EXCEPT !.changes = @ \cup {how}]
    BY <1>2 DEF Disturb
  <2>2. reader' = [at |-> reader.at, user |-> reader.user, enabledOnly |-> reader.enabledOnly,
                   offset |-> reader.offset, seen |-> reader.seen,
                   changes |-> reader.changes \cup {how}, began |-> reader.began]
    BY <1>1, <2>1 DEF MidReading
  <2> QED BY <1>2, <2>2 DEF MidReading
<1>3. CASE v # reader.user
  BY <1>1, <1>3 DEF Disturb, MidReading
<1> QED BY <1>2, <1>3

(* A write of any user, next to the reader.                                *)
LEMMA ReaderNextToWrite ==
  ASSUME RulesInv, RulesInv', ReaderInv, NEW v \in Users, RuleStep(v)
  PROVE  ReaderInv'
<1>1. PICK how : /\ Disturb(v, how)
                 /\ how # "insert" \/ \A id \in Ids : rules'[id] = rules[id] \/ rules[id] = Absent
  <2>1. ASSUME NEW input \in Inputs, Create(v, input)
        PROVE  /\ Disturb(v, "insert")
               /\ \A id \in Ids : rules'[id] = rules[id] \/ rules[id] = Absent
    BY <2>1, CreateOK DEF Create
  <2>2. ASSUME NEW id \in Ids, NEW patch \in Patches, Update(v, id, patch)
        PROVE  Disturb(v, "update") /\ "update" # "insert"
    BY <2>2 DEF Update
  <2>3. ASSUME NEW id \in Ids, Delete(v, id)
        PROVE  Disturb(v, "delete") /\ "delete" # "insert"
    BY <2>3 DEF Delete
  <2> QED BY <2>1, <2>2, <2>3 DEF RuleStep
<1>2. \A id \in Ids : \/ rules'[id] = rules[id]
                      \/ rules[id] = Absent /\ rules'[id].user = v
                      \/ Mine(v, id) /\ (rules'[id].user = v \/ rules'[id] = Absent)
  BY CreateOK, UpdateOK, DeleteOK DEF RuleStep
<1>3. CASE reader = Resting
  BY <1>1, <1>3 DEF Disturb, ReaderInv
<1>4. CASE reader # Resting
  <2>1. reader.user \in Users /\ reader.enabledOnly \in BOOLEAN
    BY <1>4 DEF ReaderInv
  <2>2. PICK u \in Users, enabledOnly \in BOOLEAN :
          u = reader.user /\ enabledOnly = reader.enabledOnly
    BY <2>1
  <2>3. /\ MidReading'
        /\ reader'.at = reader.at /\ reader'.user = reader.user
        /\ reader'.enabledOnly = reader.enabledOnly /\ reader'.offset = reader.offset
        /\ reader'.seen = reader.seen /\ reader'.began = reader.began
        /\ reader'.changes = reader.changes \cup (IF v = u THEN {how} ELSE {})
    BY <1>1, <1>4, <2>2, Noted
  <2> DEFINE S == Rows(u, enabledOnly)
  <2>4. ASSUME v # u
        PROVE  S' = S /\ \A id \in S : rules'[id] = rules[id]
    <3>1. \A id \in Ids : Mine(u, id) \/ Mine(u, id)' => rules'[id] = rules[id]
      BY <1>2, <2>4 DEF Mine
    <3> QED BY <3>1 DEF Rows, Mine
  <2>5. ASSUME how = "insert"
        PROVE  S \subseteq S' /\ \A id \in S : rules'[id] = rules[id]
    BY <1>1, <2>5 DEF Rows, Mine
  <2>6. ASSUME reader'.changes \subseteq {"insert"}
        PROVE  reader.changes \subseteq {"insert"} /\ (v = u => how = "insert")
    BY <2>3, <2>6
  <2>7. ASSUME reader'.changes = {}
        PROVE  reader.changes = {} /\ v # u
    BY <2>3, <2>7
  <2> HIDE DEF S
  <2>8. reader'.changes \subseteq {"insert"} =>
           /\ reader.changes \subseteq {"insert"}
           /\ S \subseteq S' /\ \A id \in S : rules'[id] = rules[id]
    BY <2>4, <2>5, <2>6
  <2>9. reader'.changes = {} => reader.changes = {} /\ S' = S
    BY <2>4, <2>7
  <2> QED BY <1>4, <2>2, <2>3, <2>8, <2>9, ReaderKeeps DEF S
<1> QED BY <1>3, <1>4

(* A client that starts has everything yet to read.                        *)
LEMMA ReaderStarts ==
  ASSUME RulesInv, NEW u \in Users, NEW enabledOnly \in BOOLEAN, StartReading(u, enabledOnly)
  PROVE  ReaderInv'
<1> DEFINE list == List(u, enabledOnly)
<1>1. reader' = [at |-> "next", user |-> u, enabledOnly |-> enabledOnly, offset |-> 0,
                 seen |-> <<>>, changes |-> {}, began |-> ToSet(list)]
      /\ rules' = rules
  BY DEF StartReading
<1>2. list' = list
  BY <1>1 DEF List, Listed, IsSorted, Mine
<1>3. list \in Seq(Ids) /\ Len(list) \in Nat
  <2>1. Orderly(u, enabledOnly)
    BY ListOrderly DEF ListsOrderly
  <2>2. list \in Seq(Rows(u, enabledOnly)) /\ Rows(u, enabledOnly) \subseteq Ids
    BY <2>1, ListingShowsAll DEF Orderly, Rows
  <2> QED BY <2>2
<1> HIDE DEF list
<1>4. MidReading' /\ reader'.at = "next" /\ reader'.user = u /\ reader'.enabledOnly = enabledOnly
      /\ reader'.offset = 0 /\ reader'.seen = <<>> /\ reader'.began = ToSet(list)
  BY <1>1 DEF MidReading
<1>5. \A a \in ToSet(list) : \E i \in (0 + 1)..Len(list) : list[i] = a
  BY <1>3 DEF ToSet
<1>6. List(reader.user, reader.enabledOnly)' = list
  BY <1>2, <1>4 DEF list
<1>7. TilesSoFar'
  BY <1>3, <1>4, <1>5, <1>6 DEF TilesSoFar
<1> QED BY <1>4, <1>7 DEF ReaderInv

(* A page continues the list where the last one ended.                     *)
LEMMA ReaderReads ==
  ASSUME RulesInv, ReaderInv, ReadPage
  PROVE  ReaderInv'
<1>1. /\ reader.at = "next" /\ MidReading /\ rules' = rules
      /\ reader.user \in Users /\ reader.enabledOnly \in BOOLEAN
      /\ reader.changes \subseteq {"insert"} => TilesSoFar
  BY DEF ReadPage, ReaderInv, Resting
<1> DEFINE list == List(reader.user, reader.enabledOnly)
           off == reader.offset
           seen == reader.seen
           n == Len(list)
           page == Paginate(list, off, Limit)
           data == page.data
           more == seen \o data
           end == EndOfPage(off, Limit, n)
<1>2. reader' = [reader EXCEPT !.at = IF page.hasMore THEN "next" ELSE "done",
                               !.seen = @ \o page.data, !.offset = @ + Limit]
  BY DEF ReadPage
<1>3. reader' = [at |-> IF page.hasMore THEN "next" ELSE "done",
                 user |-> reader.user, enabledOnly |-> reader.enabledOnly,
                 offset |-> off + Limit, seen |-> more, changes |-> reader.changes,
                 began |-> reader.began]
  <2> HIDE DEF page
  <2> QED BY <1>1, <1>2 DEF MidReading
<1>4. /\ MidReading' /\ reader'.at = (IF page.hasMore THEN "next" ELSE "done")
      /\ reader'.user = reader.user /\ reader'.enabledOnly = reader.enabledOnly
      /\ reader'.offset = off + Limit /\ reader'.seen = more
      /\ reader'.changes = reader.changes /\ reader'.began = reader.began
  <2> HIDE DEF page, more
  <2> QED BY <1>3 DEF MidReading
<1>5. List(reader.user, reader.enabledOnly)' = list
  <2>1. PICK u, enabledOnly : u = reader.user /\ enabledOnly = reader.enabledOnly
    OBVIOUS
  <2>2. List(u, enabledOnly)' = List(u, enabledOnly)
    BY <1>1 DEF List, Listed, IsSorted, Mine
  <2>3. reader'.user = u /\ reader'.enabledOnly = enabledOnly
    BY <1>4, <2>1
  <2> QED BY <2>1, <2>2, <2>3
<1>6. list \in Seq(Ids) /\ n \in Nat
  <2>1. Orderly(reader.user, reader.enabledOnly)
    BY <1>1, ListOrderly DEF ListsOrderly
  <2>2. list \in Seq(Rows(reader.user, reader.enabledOnly))
        /\ Rows(reader.user, reader.enabledOnly) \subseteq Ids
    BY <2>1, ListingShowsAll DEF Orderly, Rows
  <2> QED BY <2>2
<1> HIDE DEF list, page
<1>7. ASSUME reader.changes \subseteq {"insert"}
      PROVE  TilesSoFar'
  <2>1. off \in 0..n /\ seen \in Seq(Ids)
    BY <1>1, <1>6, <1>7 DEF TilesSoFar, list
  <2>2. /\ end \in off..n
        /\ data \in Seq(Ids) /\ Len(data) = end - off
        /\ \A k \in 1..(end - off) : data[k] = list[off + k]
        /\ page.hasMore <=> end < n
    BY <1>6, <2>1, PagesAssumption, PageHolds DEF page
  <2>3. /\ reader.changes = {} => Len(seen) = off /\ \A i \in 1..off : seen[i] = list[i]
        /\ \A a \in reader.began :
             a \in ToSet(seen) \/ \E i \in (off + 1)..n : list[i] = a
    BY <1>1, <1>7 DEF TilesSoFar, list
  <2>4. /\ reader'.at = "next" => end = off + Limit /\ end < n
        /\ reader'.at = "done" => end = n
        /\ off + Limit \in Nat /\ reader'.at \in {"next", "done"}
        /\ off \in Nat /\ end \in Nat
    BY <1>4, <1>6, <2>1, <2>2, PagesAssumption DEF EndOfPage
  <2> HIDE DEF end, data, off, seen, n
  <2>5. /\ more \in Seq(Ids) /\ Len(more) = Len(seen) + Len(data)
        /\ \A i \in 1..Len(seen) : more[i] = seen[i]
        /\ \A i \in 1..Len(data) : more[Len(seen) + i] = data[i]
    <3>1. Len(seen) \in Nat /\ Len(data) \in Nat
      BY <2>1, <2>2
    <3>2. more \in Seq(Ids) /\ Len(more) = Len(seen) + Len(data)
      BY <2>1, <2>2
    <3>3. \A i \in 1..Len(seen) : more[i] = seen[i]
      BY <2>1, <2>2, <3>1
    <3>4. \A i \in 1..Len(data) : more[Len(seen) + i] = data[i]
      BY <2>1, <2>2, <3>1
    <3> QED BY <3>2, <3>3, <3>4
  <2>6. ASSUME reader.changes = {}
        PROVE  Len(more) = end /\ \A i \in 1..end : more[i] = list[i]
    <3>1. Len(seen) = off /\ Len(more) = end
      <4>1. Len(seen) = off /\ Len(data) = end - off
        BY <2>2, <2>3, <2>6
      <4> HIDE DEF more
      <4>2. Len(more) = off + (end - off)
        BY <2>5, <4>1
      <4> QED BY <2>4, <4>1, <4>2
    <3>2. ASSUME NEW i \in 1..end
          PROVE  more[i] = list[i]
      <4>1. CASE i <= off
        BY <2>3, <2>4, <2>5, <2>6, <3>1, <4>1
      <4>2. CASE ~(i <= off)
        <5>1. i - off \in 1..(end - off) /\ off + (i - off) = i
          BY <2>4, <4>2
        <5> QED BY <2>2, <2>5, <3>1, <5>1
      <4> QED BY <4>1, <4>2
    <3> QED BY <3>1, <3>2
  <2>7. ToSet(seen) \subseteq ToSet(more) /\ ToSet(data) \subseteq ToSet(more)
    <3>1. /\ Len(seen) \in Nat /\ Len(data) \in Nat /\ DOMAIN seen = 1..Len(seen)
          /\ DOMAIN data = 1..Len(data) /\ DOMAIN more = 1..Len(more)
      BY <2>1, <2>2, <2>5
    <3>2. \A i \in 1..Len(seen) : i \in DOMAIN more
      BY <2>5, <3>1
    <3>3. \A i \in 1..Len(data) : Len(seen) + i \in DOMAIN more
      BY <2>5, <3>1
    <3> HIDE DEF more
    <3> QED BY <2>5, <3>1, <3>2, <3>3 DEF ToSet
  <2>8. ASSUME NEW a \in reader.began
        PROVE  a \in ToSet(more) \/ \E i \in (end + 1)..n : list[i] = a
    <3>1. ASSUME NEW i \in (off + 1)..n, list[i] = a
          PROVE  a \in ToSet(more) \/ \E j \in (end + 1)..n : list[j] = a
      <4>1. CASE i <= end
        <5>1. i - off \in 1..(end - off) /\ off + (i - off) = i
          BY <1>6, <2>4, <4>1 DEF n
        <5>2. data[i - off] = a /\ i - off \in DOMAIN data
          BY <2>2, <3>1, <5>1
        <5> QED BY <2>7, <5>2 DEF ToSet
      <4>2. CASE ~(i <= end)
        <5>1. i \in (end + 1)..n
          BY <2>4, <4>2
        <5> QED BY <3>1, <5>1
      <4> QED BY <4>1, <4>2
    <3> QED BY <2>3, <2>7, <3>1
  <2> HIDE DEF more
  <2>9. reader.changes = {} => (reader'.at = "done" => more = list)
    <3>1. reader'.at = "done" => end = Len(list)
      BY <2>4 DEF n
    <3> QED BY <1>6, <2>5, <2>6, <3>1
  <2>10. reader'.at = "next" => off + Limit <= n
    BY <1>6, <2>4 DEF n
  <2>11. \A a \in reader.began :
           \/ a \in ToSet(more)
           \/ reader'.at = "next" /\ \E i \in (off + Limit + 1)..n : list[i] = a
    <3>1. reader'.at = "done" => (end + 1)..n = {}
      BY <1>6, <2>4 DEF n
    <3> QED BY <2>4, <2>8, <3>1
  <2>12. reader.changes = {} => (reader'.at = "next" => /\ Len(more) = off + Limit
                                                        /\ \A i \in 1..Len(more) : more[i] = list[i])
    BY <2>4, <2>6
  <2> QED BY <1>4, <1>5, <2>4, <2>5, <2>9, <2>10, <2>11, <2>12 DEF TilesSoFar, n
<1> QED BY <1>1, <1>4, <1>7 DEF ReaderInv

LEMMA ReaderStep ==
  ASSUME RulesInv, RulesInv', ReaderInv, [RulesNext]_ruleVars
  PROVE  ReaderInv'
<1>1. CASE \E u \in Users : RuleStep(u)
  BY <1>1, ReaderNextToWrite
<1>2. CASE \E u \in Users, enabledOnly \in BOOLEAN : StartReading(u, enabledOnly)
  BY <1>2, ReaderStarts
<1>3. CASE ReadPage
  BY <1>3, ReaderReads
<1>4. CASE StopReading
  BY <1>4 DEF StopReading, ReaderInv
<1>5. CASE UNCHANGED ruleVars
  <2>1. List(reader.user, reader.enabledOnly)' = List(reader.user, reader.enabledOnly)
    BY <1>5 DEF ruleVars, List, Listed, IsSorted, Mine
  <2> QED BY <1>5, <2>1 DEF ruleVars, ReaderInv, TilesSoFar, MidReading
<1> QED BY <1>1, <1>2, <1>3, <1>4, <1>5 DEF RulesNext

(* What a client has read is the list so far, in every reachable state.    *)
THEOREM ReaderInvariant == RulesSpec => []ReaderInv
<1>1. RulesInit => ReaderInv
  BY DEF RulesInit, ReaderInv
<1>2. RulesInv /\ RulesInv' /\ ReaderInv /\ [RulesNext]_ruleVars => ReaderInv'
  BY ReaderStep
<1> QED BY <1>1, <1>2, RulesInvariant, PTL DEF RulesSpec

(* Whatever the rules, the users who write them and the page size: pages   *)
(* tile the list while its owner changes nothing, and miss none of the     *)
(* rules that were there while they are only added to (pagination.ts:32-37, *)
(* rules.repository.ts:27-29).                                             *)
THEOREM PagesTileTheList == RulesSpec => []PagesTile
<1>1. ReaderInv => PagesTile
  BY DEF ReaderInv, PagesTile, TilesSoFar, Resting
<1> QED BY <1>1, ReaderInvariant, PTL

-----------------------------------------------------------------------------
(* What the actions of one rule do to an outcome                           *)

(* The loop over the tags of one action, tag by tag.                       *)
LEMMA TagLoop ==
  ASSUME NEW T, NEW tags \in Seq(T), NEW more \in Seq(T)
  PROVE  \E g \in [0..Len(more) -> Seq(T)] :
           /\ g[0] = tags
           /\ \A k \in 1..Len(more) : g[k] = AddTag(g[k - 1], more[k])
           /\ AddTags(tags, more) = g[Len(more)]
<1> DEFINE n == Len(more)
           A == Seq(T)
           step == [k \in 1..n |-> [a \in A |-> AddTag(a, more[k])]]
           iter == CHOOSE f : f = [s \in SUBSET DOMAIN more |->
                     IF s = {} THEN tags ELSE AddTag(f[s \ {Max(s)}], more[Max(s)])]
<1>1. n \in Nat /\ DOMAIN more = 1..n /\ \A k \in 1..n : more[k] \in T
  OBVIOUS
<1>2. step \in [1..n -> [A -> A]]
  BY <1>1 DEF AddTag
<1>3. PICK f : Solves(f, n, A, tags, step)
  <2>1. tags \in A
    OBVIOUS
  <2> HIDE DEF step, n, A
  <2> QED BY <1>1, <1>2, <2>1, FoldExists
<1>4. ASSUME NEW s \in SUBSET (1..n), s # {}
      PROVE  step[Max(s)][f[s \ {Max(s)}]] = AddTag(f[s \ {Max(s)}], more[Max(s)])
  <2>1. Max(s) \in 1..n
    BY <1>1, <1>4, GreatestPosition
  <2> QED BY <1>3, <2>1 DEF Solves
<1>5. f = [s \in SUBSET DOMAIN more |->
             IF s = {} THEN tags ELSE AddTag(f[s \ {Max(s)}], more[Max(s)])]
  <2> HIDE DEF step
  <2> QED BY <1>1, <1>3, <1>4 DEF Solves
<1>6. iter = [s \in SUBSET DOMAIN more |->
                IF s = {} THEN tags ELSE AddTag(iter[s \ {Max(s)}], more[Max(s)])]
  BY <1>5
<1>7. AddTags(tags, more) = iter[1..n]
  <2>1. AddTags(tags, more) = iter[DOMAIN more]
    BY DEF AddTags, FoldLeft, MapThenFoldSet, iter
  <2> QED BY <1>1, <2>1
<1> HIDE DEF iter
<1>8. iter[{}] = tags
  BY <1>6
<1>9. ASSUME NEW k \in 1..n, iter[1..(k - 1)] \in A
      PROVE  iter[1..k] = step[k][iter[1..(k - 1)]]
  <2>1. 1..k \in SUBSET DOMAIN more /\ k \in Nat \ {0}
    BY <1>1
  <2>2. Max(1..k) = k /\ (1..k) \ {Max(1..k)} = 1..(k - 1) /\ 1..k # {}
    BY <2>1, LastPosition
  <2>3. iter[1..k] = AddTag(iter[1..(k - 1)], more[k])
    BY <1>6, <2>1, <2>2
  <2> QED BY <1>9, <2>3
<1>10. PICK g : Runs(g, n, A, tags, step) /\ g[n] = iter[1..n]
  <2>1. tags \in A
    OBVIOUS
  <2> HIDE DEF step, n, A
  <2> QED BY <1>1, <1>2, <1>8, <1>9, <2>1, LoopRuns
<1>11. \A k \in 1..n : g[k] = AddTag(g[k - 1], more[k])
  <2> SUFFICES ASSUME NEW k \in 1..n PROVE g[k] = AddTag(g[k - 1], more[k])
    OBVIOUS
  <2>1. g[k - 1] \in A
    BY <1>1, <1>10 DEF Runs
  <2> QED BY <1>10, <2>1 DEF Runs
<1> HIDE DEF step
<1> QED BY <1>7, <1>10, <1>11 DEF Runs

Distinct(list) == \A i, j \in 1..Len(list) : list[i] = list[j] => i = j

(* The tags that are there stay, the others come, and none comes twice.    *)
LEMMA TagsAdded ==
  ASSUME NEW T, NEW tags \in Seq(T), NEW more \in Seq(T), Distinct(tags),
         NEW result, result = AddTags(tags, more)
  PROVE  /\ result \in Seq(T) /\ Distinct(result)
         /\ ToSet(result) = ToSet(tags) \cup ToSet(more)
<1> DEFINE n == Len(more)
<1>1. PICK g \in [0..n -> Seq(T)] :
        g[0] = tags /\ (\A k \in 1..n : g[k] = AddTag(g[k - 1], more[k])) /\ result = g[n]
  BY TagLoop
<1>2. n \in Nat /\ \A k \in 1..n : more[k] \in T
  OBVIOUS
<1> DEFINE Good == {k \in 0..n : /\ Distinct(g[k])
                                 /\ ToSet(g[k]) = ToSet(tags) \cup {more[i] : i \in 1..k}}
<1>3. 0 \in Good
  <2>1. {more[i] : i \in 1..0} = {}
    OBVIOUS
  <2> QED BY <1>1, <1>2, <2>1
<1>4. ASSUME NEW k \in 1..n, k - 1 \in Good
      PROVE  k \in Good
  <2>1. k - 1 \in 0..n /\ k \in 0..n
    BY <1>2
  <2>2. /\ g[k - 1] \in Seq(T) /\ Distinct(g[k - 1])
        /\ ToSet(g[k - 1]) = ToSet(tags) \cup {more[i] : i \in 1..(k - 1)}
    BY <1>1, <1>4, <2>1
  <2>3. {more[i] : i \in 1..k} = {more[i] : i \in 1..(k - 1)} \cup {more[k]}
    <3>1. 1..k = 1..(k - 1) \cup {k}
      BY <1>2
    <3> QED BY <3>1
  <2>4. Distinct(g[k]) /\ ToSet(g[k]) = ToSet(g[k - 1]) \cup {more[k]}
    <3>1. Contains(g[k - 1], more[k]) <=> more[k] \in ToSet(g[k - 1])
      <4>1. DOMAIN g[k - 1] = 1..Len(g[k - 1])
        BY <2>2
      <4> QED BY <4>1 DEF Contains, ToSet
    <3>2. g[k] = AddTag(g[k - 1], more[k])
      BY <1>1
    <3>3. CASE more[k] \in ToSet(g[k - 1])
      <4>1. g[k] = g[k - 1]
        BY <3>3, <3>1, <3>2 DEF AddTag
      <4> QED BY <2>2, <3>3, <4>1
    <3>4. CASE more[k] \notin ToSet(g[k - 1])
      <4>1. g[k] = Append(g[k - 1], more[k])
        BY <3>4, <3>1, <3>2 DEF AddTag
      <4> DEFINE old == g[k - 1]
                 new == g[k]
                 m == Len(old)
      <4>2. /\ m \in Nat /\ Len(new) = m + 1 /\ DOMAIN old = 1..m /\ DOMAIN new = 1..(m + 1)
            /\ new[m + 1] = more[k] /\ \A i \in 1..m : new[i] = old[i]
        BY <1>2, <2>2, <4>1
      <4>3. \A i \in 1..m : old[i] # more[k]
        BY <3>4, <4>2 DEF ToSet
      <4>4. \A i, j \in 1..m : old[i] = old[j] => i = j
        BY <2>2 DEF Distinct
      <4> HIDE DEF old, new, m
      <4>5. Distinct(new)
        BY <4>2, <4>3, <4>4 DEF Distinct
      <4>6. ToSet(new) = ToSet(old) \cup {more[k]}
        <5>1. \A i \in 1..(m + 1) : i = m + 1 \/ i \in 1..m
          BY <4>2
        <5>2. \A i \in 1..m : i \in 1..(m + 1)
          BY <4>2
        <5>3. m + 1 \in 1..(m + 1)
          BY <4>2
        <5>4. \A x \in ToSet(new) : x \in ToSet(old) \cup {more[k]}
          BY <4>2, <5>1 DEF ToSet
        <5>5. \A x \in ToSet(old) \cup {more[k]} : x \in ToSet(new)
          BY <4>2, <5>2, <5>3 DEF ToSet
        <5> QED BY <5>4, <5>5
      <4> QED BY <4>5, <4>6 DEF new, old
    <3> QED BY <3>3, <3>4
  <2> QED BY <2>1, <2>2, <2>3, <2>4
<1>5. n \in Good
  <2>1. \A k \in 1..n : k - 1 \in Good => k \in Good
    BY <1>4
  <2> HIDE DEF Good
  <2>2. 0..n \subseteq Good
    BY <1>2, <1>3, <2>1, IntervalInduction
  <2> QED BY <1>2, <2>2
<1>6. {more[i] : i \in 1..n} = ToSet(more)
  BY DEF ToSet
<1> QED BY <1>1, <1>2, <1>5, <1>6

(* Outcomes whose values are in V and whose tags, each once, are in T, and *)
(* actions that keep an outcome among them.                                *)
Outcomes(V, T) ==
  {o \in [category : V, tags : Seq(T), account : V, note : V, ignored : BOOLEAN] :
     Distinct(o.tags)}

FieldSetBy == [set_category |-> "category", set_account |-> "account", set_note |-> "note"]
Setters == {"set_category", "set_account", "set_note"}

Acts(action, V, T) ==
  /\ action.type \in ActionTypes
  /\ action.type \in Setters => action.value \in V
  /\ action.type = "add_tags" => action.value \in Seq(T)

TagsIn(action) == IF action.type = "add_tags" THEN ToSet(action.value) ELSE {}

(* What one action makes of an outcome.                                    *)
Effect(old, action, new) ==
  /\ \A type \in Setters :
       new[FieldSetBy[type]] = IF action.type = type THEN action.value ELSE old[FieldSetBy[type]]
  /\ new.ignored <=> old.ignored \/ action.type = "ignore"
  /\ ToSet(new.tags) = ToSet(old.tags) \cup TagsIn(action)

(* One action sets its own field, or adds its tags, and nothing else.      *)
LEMMA OneAction ==
  ASSUME NEW V, NEW T, NEW old \in Outcomes(V, T),
         NEW action, Acts(action, V, T), NEW new, new = ApplyAction(old, action)
  PROVE  new \in Outcomes(V, T) /\ Effect(old, action, new)
<1>1. CASE action.type \in Setters
  <2>1. new = [old EXCEPT ![FieldSetBy[action.type]] = action.value] /\ action.value \in V
    BY <1>1 DEF ApplyAction, Setters, FieldSetBy, Acts
  <2>2. TagsIn(action) = {}
    BY <1>1 DEF TagsIn, Setters
  <2>3. new \in Outcomes(V, T) /\ new.tags = old.tags /\ new.ignored = old.ignored
    BY <1>1, <2>1 DEF Outcomes, Setters, FieldSetBy
  <2>4. ASSUME NEW type \in Setters
        PROVE  new[FieldSetBy[type]] =
                 IF action.type = type THEN action.value ELSE old[FieldSetBy[type]]
    BY <1>1, <2>1 DEF Outcomes, Setters, FieldSetBy
  <2> QED BY <1>1, <2>2, <2>3, <2>4 DEF Setters, Effect
<1>2. CASE action.type = "ignore"
  <2>1. new = [old EXCEPT !.ignored = TRUE] /\ TagsIn(action) = {}
    BY <1>2 DEF ApplyAction, TagsIn
  <2>2. new \in Outcomes(V, T) /\ new.tags = old.tags /\ new.ignored
    BY <2>1 DEF Outcomes
  <2>3. \A type \in Setters : new[FieldSetBy[type]] = old[FieldSetBy[type]] /\ action.type # type
    BY <1>2, <2>1 DEF Outcomes, Setters, FieldSetBy
  <2> QED BY <1>2, <2>1, <2>2, <2>3 DEF Effect
<1>3. CASE action.type = "add_tags"
  <2> DEFINE tags == AddTags(old.tags, action.value)
  <2>1. old.tags \in Seq(T) /\ Distinct(old.tags) /\ action.value \in Seq(T)
    BY <1>3 DEF Outcomes, Acts
  <2>2. new = [old EXCEPT !.tags = tags]
    BY <1>3 DEF ApplyAction
  <2>3. tags \in Seq(T) /\ Distinct(tags) /\ ToSet(tags) = ToSet(old.tags) \cup TagsIn(action)
    BY <1>3, <2>1, TagsAdded DEF TagsIn
  <2> HIDE DEF tags
  <2>4. new \in Outcomes(V, T) /\ new.tags = tags /\ new.ignored = old.ignored
    BY <2>2, <2>3 DEF Outcomes
  <2>5. \A type \in Setters : new[FieldSetBy[type]] = old[FieldSetBy[type]] /\ action.type # type
    BY <1>3, <2>2 DEF Outcomes, Setters, FieldSetBy
  <2> QED BY <1>3, <2>3, <2>4, <2>5 DEF Effect
<1> QED BY <1>1, <1>2, <1>3 DEF Acts, ActionTypes, Setters

(* The outcomes of the loop over the actions of a rule, action by action.  *)
Applying(g, n, V, T, old, actions) ==
  /\ g \in [0..n -> Outcomes(V, T)]
  /\ g[0] = old
  /\ \A k \in 1..n : g[k] = ApplyAction(g[k - 1], actions[k])

LEMMA ActionLoop ==
  ASSUME NEW V, NEW T, NEW old \in Outcomes(V, T), NEW n \in Nat, NEW actions,
         DOMAIN actions = 1..n, \A k \in 1..n : Acts(actions[k], V, T)
  PROVE  \E g : Applying(g, n, V, T, old, actions) /\ ApplyActions(old, actions) = g[n]
<1> DEFINE A == Outcomes(V, T)
           step == [k \in 1..n |-> [a \in A |-> ApplyAction(a, actions[k])]]
           iter == CHOOSE f : f = [s \in SUBSET DOMAIN actions |->
                     IF s = {} THEN old ELSE ApplyAction(f[s \ {Max(s)}], actions[Max(s)])]
<1>1. step \in [1..n -> [A -> A]]
  <2>1. \A k \in 1..n, a \in A : ApplyAction(a, actions[k]) \in A
    BY OneAction
  <2> QED BY <2>1
<1>2. PICK f : Solves(f, n, A, old, step)
  <2>1. old \in A
    OBVIOUS
  <2> HIDE DEF step, A
  <2> QED BY <1>1, <2>1, FoldExists
<1>3. ASSUME NEW s \in SUBSET (1..n), s # {}
      PROVE  step[Max(s)][f[s \ {Max(s)}]] = ApplyAction(f[s \ {Max(s)}], actions[Max(s)])
  <2>1. Max(s) \in 1..n
    BY <1>3, GreatestPosition
  <2> QED BY <1>2, <2>1 DEF Solves
<1>4. f = [s \in SUBSET DOMAIN actions |->
             IF s = {} THEN old ELSE ApplyAction(f[s \ {Max(s)}], actions[Max(s)])]
  <2> HIDE DEF step
  <2> QED BY <1>2, <1>3 DEF Solves
<1>5. iter = [s \in SUBSET DOMAIN actions |->
                IF s = {} THEN old ELSE ApplyAction(iter[s \ {Max(s)}], actions[Max(s)])]
  BY <1>4
<1>6. ApplyActions(old, actions) = iter[1..n]
  <2>1. ApplyActions(old, actions) = iter[DOMAIN actions]
    BY DEF ApplyActions, FoldLeft, MapThenFoldSet, iter
  <2> QED BY <2>1
<1> HIDE DEF iter
<1>7. iter[{}] = old
  BY <1>5
<1>8. ASSUME NEW k \in 1..n, iter[1..(k - 1)] \in A
      PROVE  iter[1..k] = step[k][iter[1..(k - 1)]]
  <2>1. 1..k \in SUBSET DOMAIN actions /\ k \in Nat \ {0}
    OBVIOUS
  <2>2. Max(1..k) = k /\ (1..k) \ {Max(1..k)} = 1..(k - 1) /\ 1..k # {}
    BY <2>1, LastPosition
  <2>3. iter[1..k] = ApplyAction(iter[1..(k - 1)], actions[k])
    BY <1>5, <2>1, <2>2
  <2> QED BY <1>8, <2>3
<1>9. PICK g : Runs(g, n, A, old, step) /\ g[n] = iter[1..n]
  <2>1. old \in A
    OBVIOUS
  <2> HIDE DEF step, A
  <2> QED BY <1>1, <1>7, <1>8, <2>1, LoopRuns
<1>10. \A k \in 1..n : g[k] = ApplyAction(g[k - 1], actions[k])
  <2> SUFFICES ASSUME NEW k \in 1..n PROVE g[k] = ApplyAction(g[k - 1], actions[k])
    OBVIOUS
  <2>1. g[k - 1] \in A
    BY <1>9 DEF Runs
  <2> QED BY <1>9, <2>1 DEF Runs
<1> HIDE DEF step
<1> QED BY <1>6, <1>9, <1>10 DEF Runs, Applying

(* What the last of the first k actions to be of this type says; old when  *)
(* none is.                                                                *)
LastSays(actions, k, type, old, new) ==
  \/ new = old /\ \A i \in 1..k : actions[i].type # type
  \/ \E i \in 1..k : /\ actions[i].type = type /\ new = actions[i].value
                     /\ \A j \in (i + 1)..k : actions[j].type # type

(* What n actions make of an outcome.                                      *)
Applied(old, actions, n, new) ==
  /\ \A type \in Setters :
       LastSays(actions, n, type, old[FieldSetBy[type]], new[FieldSetBy[type]])
  /\ new.ignored <=> old.ignored \/ \E k \in 1..n : actions[k].type = "ignore"
  /\ \A x : x \in ToSet(new.tags)
              <=> x \in ToSet(old.tags) \/ \E k \in 1..n : x \in TagsIn(actions[k])

(* The last action to set a field wins, whatever else is among them, and   *)
(* the tags of all of them are added.                                      *)
LEMMA ActionsApplied ==
  ASSUME NEW V, NEW T, NEW old \in Outcomes(V, T), NEW n \in Nat, NEW actions,
         DOMAIN actions = 1..n, \A k \in 1..n : Acts(actions[k], V, T),
         NEW new, new = ApplyActions(old, actions)
  PROVE  /\ new \in Outcomes(V, T)
         /\ Applied(old, actions, n, new)
<1>1. PICK g : Applying(g, n, V, T, old, actions) /\ new = g[n]
  BY ActionLoop
<1> DEFINE Good ==
      {k \in 0..n :
         /\ \A type \in Setters :
              LastSays(actions, k, type, old[FieldSetBy[type]], g[k][FieldSetBy[type]])
         /\ g[k].ignored <=> old.ignored \/ \E i \in 1..k : actions[i].type = "ignore"
         /\ \A x : x \in ToSet(g[k].tags)
                   <=> x \in ToSet(old.tags) \/ \E i \in 1..k : x \in TagsIn(actions[i])}
<1>2. 0 \in Good
  <2>1. 1..0 = {} /\ 0 \in 0..n
    OBVIOUS
  <2> QED BY <1>1, <2>1 DEF LastSays, Applying
<1>3. ASSUME NEW k \in 1..n, k - 1 \in Good
      PROVE  k \in Good
  <2>1. k - 1 \in 0..n /\ k \in 0..n /\ 1..k = 1..(k - 1) \cup {k}
    OBVIOUS
  <2>2. Effect(g[k - 1], actions[k], g[k])
    <3>1. /\ g[k - 1] \in Outcomes(V, T) /\ Acts(actions[k], V, T)
          /\ g[k] = ApplyAction(g[k - 1], actions[k])
      BY <1>1, <2>1 DEF Applying
    <3> QED BY <3>1, OneAction
  <2>3. ASSUME NEW type \in Setters
        PROVE  LastSays(actions, k, type, old[FieldSetBy[type]], g[k][FieldSetBy[type]])
    <3>1. LastSays(actions, k - 1, type, old[FieldSetBy[type]], g[k - 1][FieldSetBy[type]])
      BY <1>3
    <3>2. CASE actions[k].type = type
      <4>1. g[k][FieldSetBy[type]] = actions[k].value /\ (k + 1)..k = {} /\ k \in 1..k
        BY <2>2, <3>2 DEF Effect
      <4> QED BY <3>2, <4>1 DEF LastSays
    <3>3. CASE actions[k].type # type
      <4>1. g[k][FieldSetBy[type]] = g[k - 1][FieldSetBy[type]]
        BY <2>2, <3>3 DEF Effect
      <4>2. CASE /\ g[k - 1][FieldSetBy[type]] = old[FieldSetBy[type]]
                 /\ \A i \in 1..(k - 1) : actions[i].type # type
        BY <2>1, <3>3, <4>1, <4>2 DEF LastSays
      <4>3. CASE \E i \in 1..(k - 1) :
                   /\ actions[i].type = type /\ g[k - 1][FieldSetBy[type]] = actions[i].value
                   /\ \A j \in (i + 1)..(k - 1) : actions[j].type # type
        <5>1. PICK i \in 1..(k - 1) :
                /\ actions[i].type = type /\ g[k - 1][FieldSetBy[type]] = actions[i].value
                /\ \A j \in (i + 1)..(k - 1) : actions[j].type # type
          BY <4>3
        <5>2. i \in 1..k /\ \A j \in (i + 1)..k : j = k \/ j \in (i + 1)..(k - 1)
          OBVIOUS
        <5>3. \A j \in (i + 1)..k : actions[j].type # type
          BY <3>3, <5>1, <5>2
        <5> QED BY <4>1, <5>1, <5>2, <5>3 DEF LastSays
      <4> QED BY <3>1, <4>2, <4>3 DEF LastSays
    <3> QED BY <3>2, <3>3
  <2>4. g[k].ignored <=> old.ignored \/ \E i \in 1..k : actions[i].type = "ignore"
    BY <1>3, <2>1, <2>2 DEF Effect
  <2>5. ASSUME NEW x
        PROVE  x \in ToSet(g[k].tags)
                 <=> x \in ToSet(old.tags) \/ \E i \in 1..k : x \in TagsIn(actions[i])
    <3>1. x \in ToSet(g[k - 1].tags)
            <=> x \in ToSet(old.tags) \/ \E i \in 1..(k - 1) : x \in TagsIn(actions[i])
      BY <1>3
    <3>2. x \in ToSet(g[k].tags) <=> x \in ToSet(g[k - 1].tags) \/ x \in TagsIn(actions[k])
      BY <2>2 DEF Effect
    <3> QED BY <2>1, <3>1, <3>2
  <2> QED BY <2>1, <2>3, <2>4, <2>5
<1>4. n \in Good
  <2>1. \A k \in 1..n : k - 1 \in Good => k \in Good
    BY <1>3
  <2> HIDE DEF Good
  <2>2. 0..n \subseteq Good
    BY <1>2, <2>1, IntervalInduction
  <2> QED BY <2>2
<1>5. new \in Outcomes(V, T)
  BY <1>1 DEF Applying
<1> QED BY <1>1, <1>4, <1>5 DEF Applied

-----------------------------------------------------------------------------
(* What the rules, one after the other, do to the outcome                  *)

(* A rule whose id is in I and whose actions say what is in V and T.       *)
Ruling(rule, I, V, T) ==
  /\ rule.id \in I /\ rule.stopProcessing \in BOOLEAN
  /\ Len(rule.actions) \in Nat /\ DOMAIN rule.actions = 1..Len(rule.actions)
  /\ \A k \in 1..Len(rule.actions) : Acts(rule.actions[k], V, T)

Rulings(list, n, I, V, T) ==
  DOMAIN list = 1..n /\ \A k \in 1..n : Ruling(list[k], I, V, T)

Passes(I, V, T) ==
  [matched : Seq(I), outcome : Outcomes(V, T), stopped : BOOLEAN]

NoPass == [matched |-> <<>>, outcome |-> NoOutcome, stopped |-> FALSE]

Silent(actions, type) == \A i \in 1..Len(actions) : actions[i].type # type

Answer(actions, type, value) ==
  \E i \in 1..Len(actions) : /\ actions[i].type = type /\ value = actions[i].value
                             /\ \A j \in (i + 1)..Len(actions) : actions[j].type # type

HasTag(actions, x) == \E i \in 1..Len(actions) : x \in TagsIn(actions[i])

(* What a rule that fires makes of the loop's variables.                   *)
Fired(old, rule, new) ==
  /\ new.matched = Append(old.matched, rule.id)
  /\ new.stopped = rule.stopProcessing
  /\ \A type \in Setters :
       \/ /\ new.outcome[FieldSetBy[type]] = old.outcome[FieldSetBy[type]]
          /\ Silent(rule.actions, type)
       \/ Answer(rule.actions, type, new.outcome[FieldSetBy[type]])
  /\ new.outcome.ignored <=> old.outcome.ignored \/ ~Silent(rule.actions, "ignore")
  /\ \A x : x \in ToSet(new.outcome.tags)
              <=> x \in ToSet(old.outcome.tags) \/ HasTag(rule.actions, x)

LEMMA OneRule ==
  ASSUME NEW I, NEW V, NEW T, NEW t, NEW old \in Passes(I, V, T),
         NEW rule, Ruling(rule, I, V, T), NEW new, new = PassRule(t, old, rule)
  PROVE  /\ new \in Passes(I, V, T)
         /\ old.stopped \/ ~MatchesRule(t, rule) => new = old
         /\ ~old.stopped /\ MatchesRule(t, rule) => Fired(old, rule, new)
<1>1. CASE old.stopped \/ ~MatchesRule(t, rule)
  BY <1>1 DEF PassRule
<1>2. CASE ~(old.stopped \/ ~MatchesRule(t, rule))
  <2> DEFINE actions == rule.actions
             outcome == ApplyActions(old.outcome, actions)
  <2>1. new = [matched |-> Append(old.matched, rule.id), outcome |-> outcome,
               stopped |-> rule.stopProcessing]
    BY <1>2 DEF PassRule
  <2>2. old.outcome \in Outcomes(V, T) /\ old.matched \in Seq(I)
    BY DEF Passes
  <2>3. outcome \in Outcomes(V, T) /\ Applied(old.outcome, actions, Len(actions), outcome)
    <3>1. /\ Len(actions) \in Nat /\ DOMAIN actions = 1..Len(actions)
          /\ \A k \in 1..Len(actions) : Acts(actions[k], V, T)
      BY DEF Ruling
    <3> HIDE DEF actions
    <3> QED BY <2>2, <3>1, ActionsApplied
  <2> HIDE DEF outcome
  <2>4. new \in Passes(I, V, T)
    BY <2>1, <2>2, <2>3 DEF Passes, Ruling
  <2>5. new.outcome = outcome /\ new.matched = Append(old.matched, rule.id)
        /\ new.stopped = rule.stopProcessing
    BY <2>1
  <2>6. \A type \in Setters :
          \/ outcome[FieldSetBy[type]] = old.outcome[FieldSetBy[type]] /\ Silent(actions, type)
          \/ Answer(actions, type, outcome[FieldSetBy[type]])
    BY <2>3 DEF Applied, LastSays, Silent, Answer
  <2>7. outcome.ignored <=> old.outcome.ignored \/ ~Silent(actions, "ignore")
    BY <2>3 DEF Applied, Silent
  <2>8. \A x : x \in ToSet(outcome.tags)
                 <=> x \in ToSet(old.outcome.tags) \/ HasTag(actions, x)
    BY <2>3 DEF Applied, HasTag
  <2>9. Fired(old, rule, new)
    BY <2>5, <2>6, <2>7, <2>8 DEF Fired
  <2> QED BY <1>2, <2>4, <2>9
<1> QED BY <1>1, <1>2

(* The loop over the rules, rule by rule.                                  *)
Passing(g, n, I, V, T, t, list) ==
  /\ g \in [0..n -> Passes(I, V, T)]
  /\ g[0] = NoPass
  /\ \A k \in 1..n : g[k] = PassRule(t, g[k - 1], list[k])

LEMMA RuleLoop ==
  ASSUME NEW I, NEW V, NEW T, Absent \in V, NEW t, NEW n \in Nat, NEW list,
         Rulings(list, n, I, V, T)
  PROVE  \E g : Passing(g, n, I, V, T, t, list) /\ PassRules(t, list) = g[n]
<1> DEFINE A == Passes(I, V, T)
           step == [k \in 1..n |-> [a \in A |-> PassRule(t, a, list[k])]]
           iter == CHOOSE f : f = [s \in SUBSET DOMAIN list |->
                     IF s = {} THEN NoPass ELSE PassRule(t, f[s \ {Max(s)}], list[Max(s)])]
<1>1. step \in [1..n -> [A -> A]]
  <2>1. \A k \in 1..n, a \in A : PassRule(t, a, list[k]) \in A
    BY OneRule DEF Rulings
  <2> QED BY <2>1
<1>2. NoPass \in A
  <2>1. << >> \in Seq(T) /\ << >> \in Seq(I) /\ Distinct(<< >>)
    BY DEF Distinct
  <2> QED BY <2>1 DEF NoPass, NoOutcome, Passes, Outcomes
<1>3. PICK f : Solves(f, n, A, NoPass, step)
  <2> HIDE DEF step, A
  <2> QED BY <1>1, <1>2, FoldExists
<1>4. ASSUME NEW s \in SUBSET (1..n), s # {}
      PROVE  step[Max(s)][f[s \ {Max(s)}]] = PassRule(t, f[s \ {Max(s)}], list[Max(s)])
  <2>1. Max(s) \in 1..n
    BY <1>4, GreatestPosition
  <2> QED BY <1>3, <2>1 DEF Solves
<1>5. f = [s \in SUBSET DOMAIN list |->
             IF s = {} THEN NoPass ELSE PassRule(t, f[s \ {Max(s)}], list[Max(s)])]
  <2> HIDE DEF step
  <2> QED BY <1>3, <1>4 DEF Solves, Rulings
<1>6. iter = [s \in SUBSET DOMAIN list |->
                IF s = {} THEN NoPass ELSE PassRule(t, iter[s \ {Max(s)}], list[Max(s)])]
  BY <1>5
<1>7. PassRules(t, list) = iter[1..n]
  <2>1. PassRules(t, list) = iter[DOMAIN list]
    BY DEF PassRules, FoldLeft, MapThenFoldSet, iter, NoPass
  <2> QED BY <2>1 DEF Rulings
<1> HIDE DEF iter
<1>8. iter[{}] = NoPass
  BY <1>6
<1>9. ASSUME NEW k \in 1..n, iter[1..(k - 1)] \in A
      PROVE  iter[1..k] = step[k][iter[1..(k - 1)]]
  <2>1. 1..k \in SUBSET DOMAIN list /\ k \in Nat \ {0}
    BY DEF Rulings
  <2>2. Max(1..k) = k /\ (1..k) \ {Max(1..k)} = 1..(k - 1) /\ 1..k # {}
    BY <2>1, LastPosition
  <2>3. iter[1..k] = PassRule(t, iter[1..(k - 1)], list[k])
    BY <1>6, <2>1, <2>2
  <2> QED BY <1>9, <2>3
<1>10. PICK g : Runs(g, n, A, NoPass, step) /\ g[n] = iter[1..n]
  <2> HIDE DEF step, A
  <2> QED BY <1>1, <1>2, <1>8, <1>9, LoopRuns
<1>11. \A k \in 1..n : g[k] = PassRule(t, g[k - 1], list[k])
  <2> SUFFICES ASSUME NEW k \in 1..n PROVE g[k] = PassRule(t, g[k - 1], list[k])
    OBVIOUS
  <2>1. g[k - 1] \in A
    BY <1>10 DEF Runs
  <2> QED BY <1>10, <2>1 DEF Runs
<1> HIDE DEF step
<1> QED BY <1>7, <1>10, <1>11 DEF Runs, Passing

(* Processing has stopped at the k-th rule of the list, and the k-th fires.*)
Stops(t, list, k) == \E i \in 1..k : MatchesRule(t, list[i]) /\ list[i].stopProcessing
Fires(t, list, k) == MatchesRule(t, list[k]) /\ ~Stops(t, list, k - 1)

(* What the last of the first k rules that fire has to say.                *)
LastAnswer(t, list, k, type, value) ==
  \/ value = Absent /\ \A i \in 1..k : Fires(t, list, i) => Silent(list[i].actions, type)
  \/ \E i \in 1..k :
       /\ Fires(t, list, i) /\ Answer(list[i].actions, type, value)
       /\ \A j \in (i + 1)..k : Fires(t, list, j) => Silent(list[j].actions, type)

(* What the variables of the loop are after k rules.                       *)
Passed(t, list, k, acc) ==
  /\ acc.stopped <=> Stops(t, list, k)
  /\ \A x : x \in ToSet(acc.matched) <=> \E i \in 1..k : Fires(t, list, i) /\ list[i].id = x
  /\ \A a, b \in 1..Len(acc.matched) :
       a < b => \E i, j \in 1..k : i < j /\ acc.matched[a] = list[i].id /\ acc.matched[b] = list[j].id
  /\ \A type \in Setters : LastAnswer(t, list, k, type, acc.outcome[FieldSetBy[type]])
  /\ acc.outcome.ignored
       <=> \E i \in 1..k : Fires(t, list, i) /\ ~Silent(list[i].actions, "ignore")
  /\ \A x : x \in ToSet(acc.outcome.tags)
              <=> \E i \in 1..k : Fires(t, list, i) /\ HasTag(list[i].actions, x)

LEMMA PassedOver ==
  ASSUME NEW t, NEW n \in Nat, NEW list, NEW k \in 1..n, NEW acc,
         Passed(t, list, k - 1, acc), ~Fires(t, list, k)
  PROVE  Passed(t, list, k, acc)
<1>1. 1..k = 1..(k - 1) \cup {k} /\ k - 1 \in Nat
  OBVIOUS
<1>2. acc.stopped <=> Stops(t, list, k)
  BY <1>1 DEF Passed, Stops, Fires
<1>3. \A x : x \in ToSet(acc.matched) <=> \E i \in 1..k : Fires(t, list, i) /\ list[i].id = x
  BY <1>1 DEF Passed
<1>4. \A a, b \in 1..Len(acc.matched) :
        a < b => \E i, j \in 1..k :
                   i < j /\ acc.matched[a] = list[i].id /\ acc.matched[b] = list[j].id
  BY <1>1 DEF Passed
<1>5. ASSUME NEW type \in Setters
      PROVE  LastAnswer(t, list, k, type, acc.outcome[FieldSetBy[type]])
  <2>1. LastAnswer(t, list, k - 1, type, acc.outcome[FieldSetBy[type]])
    BY DEF Passed
  <2>2. \A i \in 1..(k - 1) : i \in 1..k /\ \A j \in (i + 1)..k : j = k \/ j \in (i + 1)..(k - 1)
    OBVIOUS
  <2> QED BY <1>1, <2>1, <2>2 DEF LastAnswer
<1>6. acc.outcome.ignored
        <=> \E i \in 1..k : Fires(t, list, i) /\ ~Silent(list[i].actions, "ignore")
  BY <1>1 DEF Passed
<1>7. \A x : x \in ToSet(acc.outcome.tags)
               <=> \E i \in 1..k : Fires(t, list, i) /\ HasTag(list[i].actions, x)
  BY <1>1 DEF Passed
<1> QED BY <1>2, <1>3, <1>4, <1>5, <1>6, <1>7 DEF Passed

LEMMA PassedOn ==
  ASSUME NEW t, NEW n \in Nat, NEW list, NEW k \in 1..n, NEW I, NEW V, NEW T,
         NEW old \in Passes(I, V, T), Ruling(list[k], I, V, T),
         Passed(t, list, k - 1, old), Fires(t, list, k),
         NEW new, Fired(old, list[k], new)
  PROVE  Passed(t, list, k, new)
<1>1. 1..k = 1..(k - 1) \cup {k} /\ k - 1 \in Nat /\ k \in 1..k
  OBVIOUS
<1>2. new.stopped <=> Stops(t, list, k)
  <2>1. ~Stops(t, list, k - 1) /\ MatchesRule(t, list[k])
    BY DEF Fires
  <2>2. new.stopped = list[k].stopProcessing
    BY DEF Fired
  <2> QED BY <1>1, <2>1, <2>2 DEF Stops
<1> DEFINE m == Len(old.matched)
<1>3. /\ m \in Nat /\ Len(new.matched) = m + 1
      /\ DOMAIN old.matched = 1..m /\ DOMAIN new.matched = 1..(m + 1)
      /\ new.matched[m + 1] = list[k].id /\ \A i \in 1..m : new.matched[i] = old.matched[i]
  <2>1. old.matched \in Seq(I) /\ list[k].id \in I
    BY DEF Passes, Ruling
  <2>2. new.matched = Append(old.matched, list[k].id)
    BY DEF Fired
  <2> QED BY <2>1, <2>2
<1>4. ASSUME NEW x
      PROVE  x \in ToSet(new.matched) <=> \E i \in 1..k : Fires(t, list, i) /\ list[i].id = x
  <2>1. x \in ToSet(old.matched) <=> \E i \in 1..(k - 1) : Fires(t, list, i) /\ list[i].id = x
    BY DEF Passed
  <2>2. x \in ToSet(new.matched) <=> x \in ToSet(old.matched) \/ x = list[k].id
    <3>1. \A i \in 1..(m + 1) : i = m + 1 \/ i \in 1..m
      BY <1>3
    <3>2. m + 1 \in 1..(m + 1) /\ \A i \in 1..m : i \in 1..(m + 1)
      BY <1>3
    <3> QED BY <1>3, <3>1, <3>2 DEF ToSet
  <2> QED BY <1>1, <2>1, <2>2
<1>5. ASSUME NEW a \in 1..Len(new.matched), NEW b \in 1..Len(new.matched), a < b
      PROVE  \E i, j \in 1..k :
               i < j /\ new.matched[a] = list[i].id /\ new.matched[b] = list[j].id
  <2>1. a \in 1..m
    BY <1>3, <1>5
  <2>2. CASE b \in 1..m
    BY <1>1, <1>3, <1>5, <2>1, <2>2 DEF Passed
  <2>3. CASE b = m + 1
    <3>1. old.matched[a] \in ToSet(old.matched)
      BY <1>3, <2>1 DEF ToSet
    <3>2. PICK i \in 1..(k - 1) : list[i].id = old.matched[a]
      BY <3>1 DEF Passed
    <3>3. i \in 1..k /\ i < k
      OBVIOUS
    <3> QED BY <1>1, <1>3, <2>1, <2>3, <3>2, <3>3
  <2> QED BY <1>3, <2>2, <2>3
<1>6. ASSUME NEW type \in Setters
      PROVE  LastAnswer(t, list, k, type, new.outcome[FieldSetBy[type]])
  <2>1. CASE Answer(list[k].actions, type, new.outcome[FieldSetBy[type]])
    <3>1. (k + 1)..k = {}
      OBVIOUS
    <3> QED BY <1>1, <2>1, <3>1 DEF LastAnswer
  <2>2. CASE /\ new.outcome[FieldSetBy[type]] = old.outcome[FieldSetBy[type]]
             /\ Silent(list[k].actions, type)
    <3>1. LastAnswer(t, list, k - 1, type, old.outcome[FieldSetBy[type]])
      BY DEF Passed
    <3>2. \A i \in 1..(k - 1) : i \in 1..k /\ \A j \in (i + 1)..k : j = k \/ j \in (i + 1)..(k - 1)
      OBVIOUS
    <3> QED BY <1>1, <2>2, <3>1, <3>2 DEF LastAnswer
  <2> QED BY <2>1, <2>2 DEF Fired
<1>7. new.outcome.ignored
        <=> \E i \in 1..k : Fires(t, list, i) /\ ~Silent(list[i].actions, "ignore")
  <2>1. old.outcome.ignored
          <=> \E i \in 1..(k - 1) : Fires(t, list, i) /\ ~Silent(list[i].actions, "ignore")
    BY DEF Passed
  <2>2. new.outcome.ignored <=> old.outcome.ignored \/ ~Silent(list[k].actions, "ignore")
    BY DEF Fired
  <2> QED BY <1>1, <2>1, <2>2
<1>8. ASSUME NEW x
      PROVE  x \in ToSet(new.outcome.tags)
               <=> \E i \in 1..k : Fires(t, list, i) /\ HasTag(list[i].actions, x)
  <2>1. x \in ToSet(old.outcome.tags)
          <=> \E i \in 1..(k - 1) : Fires(t, list, i) /\ HasTag(list[i].actions, x)
    BY DEF Passed
  <2>2. x \in ToSet(new.outcome.tags)
          <=> x \in ToSet(old.outcome.tags) \/ HasTag(list[k].actions, x)
    BY DEF Fired
  <2> QED BY <1>1, <2>1, <2>2
<1> QED BY <1>2, <1>4, <1>5, <1>6, <1>7, <1>8 DEF Passed

(* What the loop leaves of a list of rules.                                *)
LEMMA RulesPassed ==
  ASSUME NEW I, NEW V, NEW T, Absent \in V, NEW t, NEW n \in Nat, NEW list,
         Rulings(list, n, I, V, T)
  PROVE  PassRules(t, list) \in Passes(I, V, T) /\ Passed(t, list, n, PassRules(t, list))
<1>1. PICK g : Passing(g, n, I, V, T, t, list) /\ PassRules(t, list) = g[n]
  BY RuleLoop
<1> DEFINE Good == {k \in 0..n : Passed(t, list, k, g[k])}
<1>2. 0 \in Good
  <2>1. 1..0 = {} /\ 0 \in 0..n /\ g[0] = NoPass
    BY <1>1 DEF Passing
  <2>2. ToSet(<< >>) = {} /\ Len(<< >>) = 0
    BY DEF ToSet
  <2>3. /\ NoPass.stopped = FALSE /\ NoPass.matched = << >> /\ NoPass.outcome.tags = << >>
        /\ NoPass.outcome.ignored = FALSE
        /\ \A type \in Setters : NoPass.outcome[FieldSetBy[type]] = Absent
    BY DEF NoPass, NoOutcome, Setters, FieldSetBy
  <2>4. Passed(t, list, 0, NoPass)
    BY <2>1, <2>2, <2>3 DEF Passed, Stops, LastAnswer
  <2> QED BY <2>1, <2>4
<1>3. ASSUME NEW k \in 1..n, k - 1 \in Good
      PROVE  k \in Good
  <2>1. /\ k - 1 \in 0..n /\ k \in 0..n
        /\ g[k - 1] \in Passes(I, V, T) /\ g[k] = PassRule(t, g[k - 1], list[k])
        /\ Ruling(list[k], I, V, T)
    BY <1>1 DEF Passing, Rulings
  <2>2. Passed(t, list, k - 1, g[k - 1])
    BY <1>3
  <2>3. g[k - 1].stopped <=> Stops(t, list, k - 1)
    BY <2>2 DEF Passed
  <2>4. CASE Fires(t, list, k)
    <3>1. Fired(g[k - 1], list[k], g[k])
      BY <2>1, <2>3, <2>4, OneRule DEF Fires
    <3>2. Passed(t, list, k, g[k])
      BY <2>1, <2>2, <2>4, <3>1, PassedOn
    <3> QED BY <2>1, <3>2
  <2>5. CASE ~Fires(t, list, k)
    <3>1. g[k] = g[k - 1]
      BY <2>1, <2>3, <2>5, OneRule DEF Fires
    <3>2. Passed(t, list, k, g[k])
      BY <2>2, <2>5, <3>1, PassedOver
    <3> QED BY <2>1, <3>2
  <2> QED BY <2>4, <2>5
<1>4. n \in Good
  <2>1. \A k \in 1..n : k - 1 \in Good => k \in Good
    BY <1>3
  <2> HIDE DEF Good
  <2>2. 0..n \subseteq Good
    BY <1>2, <2>1, IntervalInduction
  <2> QED BY <2>2
<1>5. g[n] \in Passes(I, V, T)
  BY <1>1 DEF Passing
<1> QED BY <1>1, <1>4, <1>5

(* Row j of the list does not belong before row i.                         *)
NotAfter(list, i, j) ==
  \/ list[i].priority < list[j].priority
  \/ list[i].priority = list[j].priority /\ list[i].createdAt <= list[j].createdAt

(* Sorting leaves a list that is in order as it is, ties included: the     *)
(* engine's sort does not undo the order of the query, whose column is the *)
(* finer one.                                                              *)
LEMMA OrderedAlready ==
  ASSUME NEW n \in Nat, NEW list, DOMAIN list = 1..n, list = [k \in 1..n |-> list[k]],
         \A k \in 1..n : list[k].priority \in Int /\ list[k].createdAt \in Int,
         \A i, j \in 1..n : i < j => NotAfter(list, i, j)
  PROVE  Ordered(list) = list
<1> DEFINE before(i, j) ==
             \/ list[i].priority < list[j].priority
             \/ list[i].priority = list[j].priority /\ list[i].createdAt < list[j].createdAt
           sorts(i, j) == before(i, j) \/ ((~before(i, j) /\ ~before(j, i)) /\ i < j)
           InPlace(order) == \A a, b \in 1..Len(order) : a < b => sorts(order[a], order[b])
           order == CHOOSE order \in SetToSeqs(DOMAIN list) : InPlace(order)
           R == {p \in (1..n) \X (1..n) : p[1] <= p[2]}
           same == [k \in 1..n |-> k]
<1>1. Ordered(list) = [k \in DOMAIN order |-> list[order[k]]]
  BY DEF Ordered, IsSorted
<1>2. \A i, j \in 1..n : sorts(i, j) <=> i < j
  <2> SUFFICES ASSUME NEW i \in 1..n, NEW j \in 1..n PROVE sorts(i, j) <=> i < j
    OBVIOUS
  <2>1. /\ list[i].priority \in Int /\ list[i].createdAt \in Int
        /\ list[j].priority \in Int /\ list[j].createdAt \in Int
    OBVIOUS
  <2>2. CASE i < j
    <3>1. NotAfter(list, i, j)
      BY <2>2
    <3> QED BY <2>1, <2>2, <3>1 DEF NotAfter
  <2>3. CASE j < i
    <3>1. NotAfter(list, j, i)
      BY <2>3
    <3> QED BY <2>1, <2>3, <3>1 DEF NotAfter
  <2>4. CASE i = j
    BY <2>1, <2>4
  <2> QED BY <2>2, <2>3, <2>4
<1> HIDE DEF sorts
<1>3. IsFiniteSet(1..n) /\ Cardinality(1..n) = n
  BY Positions
<1>4. Ranks(R, 1..n) /\ \A a, b \in 1..n : <<a, b>> \in R /\ <<b, a>> \in R => a = b
  BY DEF Ranks
<1>5. same \in SetToSeqs(1..n) /\ InOrder(same, R) /\ InPlace(same)
  <2>1. same \in SetToSeqs(1..n)
    BY <1>3 DEF SetToSeqs
  <2>2. DOMAIN same = 1..n /\ Len(same) = n /\ \A k \in 1..n : same[k] = k
    OBVIOUS
  <2> HIDE DEF same
  <2> QED BY <1>2, <2>1, <2>2 DEF InOrder
<1>6. order \in SetToSeqs(1..n) /\ InPlace(order)
  <2> HIDE DEF InPlace, same
  <2> QED BY <1>5
<1> HIDE DEF order
<1>7. InOrder(order, R)
  <2>1. /\ DOMAIN order = 1..Len(order)
        /\ \A k \in DOMAIN order : order[k] \in 1..n
    <3> DEFINE S == 1..n
    <3>1. IsFiniteSet(S) /\ order \in SetToSeqs(S)
      BY <1>3, <1>6
    <3> HIDE DEF S
    <3>2. /\ Cardinality(S) \in Nat /\ Len(order) = Cardinality(S)
          /\ DOMAIN order = 1..Cardinality(S) /\ order \in [1..Cardinality(S) -> S]
      BY <3>1, ListingShowsAll
    <3> QED BY <3>2 DEF S
  <2> QED BY <1>2, <1>6, <2>1 DEF InOrder
<1>8. order = same
  <2> HIDE DEF R, same, InPlace
  <2> QED BY <1>3, <1>4, <1>5, <1>6, <1>7, OneListing
<1> QED BY <1>1, <1>8

-----------------------------------------------------------------------------
(* What a user's transaction is evaluated to                               *)

LEMMA DistinctLength ==
  ASSUME NEW T, NEW tags \in Seq(T), Distinct(tags)
  PROVE  Len(tags) = Cardinality(ToSet(tags))
<1> DEFINE n == Len(tags)
<1>1. n \in Nat /\ DOMAIN tags = 1..n /\ tags = [i \in 1..n |-> tags[i]]
  OBVIOUS
<1>2. IsFiniteSet(1..n) /\ Cardinality(1..n) = n
  BY <1>1, Positions
<1>3. tags \in [1..n -> ToSet(tags)] /\ \A x \in ToSet(tags) : \E i \in 1..n : tags[i] = x
  BY <1>1 DEF ToSet
<1>4. tags \in Injection(1..n, ToSet(tags))
  BY <1>3, Fun_IsInj DEF Distinct
<1>5. tags \in Surjection(1..n, ToSet(tags))
  BY <1>3, Fun_IsSurj
<1> QED BY <1>2, <1>4, <1>5, FS_Surjection

(* The answer of the last of some rules to have one is what LastSet names. *)
LEMMA LastSetIs ==
  ASSUME NEW firing, NEW type, NEW id \in firing, NEW value, Has(id, type),
         Answer(rules[id].actions, type, value), Len(rules[id].actions) \in Nat,
         \A j \in firing : Has(j, type) => j = id \/ (Precedes(j, id) /\ ~Precedes(id, j))
  PROVE  LastSet(firing, type) = value
<1> DEFINE setters == {j \in firing : Has(j, type)}
           last == CHOOSE i \in setters : \A j \in setters : j = i \/ Precedes(j, i)
           actions == rules[id].actions
           said == {i \in 1..Len(actions) : actions[i].type = type}
<1>1. id \in setters /\ \A j \in setters : j = id \/ Precedes(j, id)
  OBVIOUS
<1>2. last \in setters /\ \A j \in setters : j = last \/ Precedes(j, last)
  BY <1>1
<1>3. last = id
  BY <1>1, <1>2
<1>4. PICK p \in 1..Len(actions) :
        /\ actions[p].type = type /\ value = actions[p].value
        /\ \A j \in (p + 1)..Len(actions) : actions[j].type # type
  BY DEF Answer
<1>5. Max(said) = p
  <2>1. said \in SUBSET (1..Len(actions)) /\ p \in said
    BY <1>4
  <2>2. Max(said) \in said /\ \A i \in said : i <= Max(said)
    BY <2>1, GreatestPosition
  <2>3. p <= Max(said) /\ Max(said) \in 1..Len(actions) /\ actions[Max(said)].type = type
    BY <2>1, <2>2
  <2>4. Max(said) \notin (p + 1)..Len(actions)
    BY <1>4, <2>3
  <2> QED BY <2>3, <2>4
<1>6. setters # {} /\ said # {}
  BY <1>1, <1>4
<1>7. LastSet(firing, type)
        = IF setters = {} THEN Absent
          ELSE rules[last].actions[
                 LET I == {i \in 1..Len(rules[last].actions) : rules[last].actions[i].type = type}
                 IN IF I # {} THEN Max(I) ELSE 0].value
  BY DEF LastSet, SelectLastInSeq
<1> HIDE DEF setters, last
<1>8. LastSet(firing, type) = actions[IF said # {} THEN Max(said) ELSE 0].value
  BY <1>3, <1>6, <1>7
<1> HIDE DEF said
<1> QED BY <1>4, <1>5, <1>6, <1>8

(* The rules that evaluation is handed, in the order of the list.          *)
Asked(u) == [k \in DOMAIN List(u, TRUE) |-> ToRule(List(u, TRUE)[k])]

(* Position by position, the list of the enabled rules of a user.          *)
LEMMA EnabledInOrder ==
  ASSUME RulesInv, NEW u \in Users
  PROVE  LET ids == List(u, TRUE)
             n == Len(ids)
         IN /\ n \in Nat /\ DOMAIN ids = 1..n /\ ids \in [1..n -> Enabled(u)]
            /\ \A id \in Enabled(u) : \E k \in 1..n : ids[k] = id
            /\ \A i, j \in 1..n : Precedes(ids[i], ids[j]) <=> i < j
<1> DEFINE ids == List(u, TRUE)
           n == Len(ids)
           S == Rows(u, TRUE)
<1>1. S = Enabled(u)
  BY DEF Rows, Enabled
<1>2. Orderly(u, TRUE)
  BY ListOrderly DEF ListsOrderly
<1>3. /\ IsFiniteSet(S) /\ ids \in SetToSeqs(S) /\ InOrder(ids, ByRank)
      /\ \A i, j \in S : <<i, j>> \in ByRank /\ <<j, i>> \in ByRank => i = j
  BY <1>2 DEF Orderly
<1> HIDE DEF S, ids
<1>4. /\ n \in Nat /\ DOMAIN ids = 1..n /\ ids \in [1..n -> S]
      /\ \A i, j \in 1..n : ids[i] = ids[j] => i = j
      /\ \A id \in S : \E k \in 1..n : ids[k] = id
  BY <1>3, ListingShowsAll
<1>5. \A i \in S : i \in Nat /\ i \in Ids /\ rules[i].priority \in Nat
  BY <1>1 DEF Enabled, Mine, RulesInv, RulesTypeOK, Ids
<1>6. \A i, j \in S : <<i, j>> \in ByRank <=> Precedes(i, j) \/ i = j
  BY <1>5 DEF ByRank
<1>7. ASSUME NEW i \in 1..n, NEW j \in 1..n
      PROVE  Precedes(ids[i], ids[j]) <=> i < j
  <2>1. ids[i] \in S /\ ids[j] \in S
    BY <1>4
  <2>2. ~(Precedes(ids[i], ids[j]) /\ Precedes(ids[j], ids[i])) /\ ~Precedes(ids[i], ids[i])
    BY <1>5, <2>1 DEF Precedes
  <2>3. CASE i < j
    <3>1. <<ids[i], ids[j]>> \in ByRank
      BY <1>3, <1>4, <2>3 DEF InOrder
    <3> QED BY <1>4, <1>6, <2>1, <2>3, <3>1
  <2>4. CASE j < i
    <3>1. <<ids[j], ids[i]>> \in ByRank
      BY <1>3, <1>4, <2>4 DEF InOrder
    <3>2. Precedes(ids[j], ids[i])
      BY <1>4, <1>6, <2>1, <2>4, <3>1
    <3> QED BY <2>2, <2>4, <3>2
  <2>5. CASE i = j
    BY <2>2, <2>5
  <2> QED BY <1>4, <2>3, <2>4, <2>5
<1> QED BY <1>1, <1>4, <1>7 DEF ids

(* The same rows as records: what the engine sorts is sorted already, and  *)
(* the loop's lemmas are about it.                                         *)
AllValues(u) ==
  {Absent} \cup {rules[p[1]].actions[p[2]].value : p \in Enabled(u) \X Nat}
AllTags(u) ==
  {rules[p[1]].actions[p[2]].value[p[3]] : p \in Enabled(u) \X Nat \X Nat}

LEMMA AskedRulings ==
  ASSUME RulesInv, NEW u \in Users
  PROVE  Rulings(Asked(u), Len(List(u, TRUE)), Ids, AllValues(u), AllTags(u))
<1> DEFINE ids == List(u, TRUE)
           n == Len(ids)
           list == Asked(u)
<1>1. DOMAIN ids = 1..n /\ ids \in [1..n -> Enabled(u)]
  BY EnabledInOrder
<1>2. DOMAIN list = 1..n /\ \A k \in 1..n : list[k] = ToRule(ids[k])
  BY <1>1 DEF Asked
<1> HIDE DEF ids, list
<1>3. ASSUME NEW k \in 1..n
      PROVE  Ruling(list[k], Ids, AllValues(u), AllTags(u))
  <2> DEFINE id == ids[k]
             actions == rules[id].actions
  <2>1. id \in Enabled(u) /\ id \in Ids /\ rules[id] # Absent
    BY <1>1 DEF Enabled, Mine
  <2>2. rules[id].stopProcessing \in BOOLEAN /\ AreActions(actions)
    BY <2>1 DEF RulesInv, RulesTypeOK
  <2>3. list[k].id = id /\ list[k].stopProcessing = rules[id].stopProcessing
        /\ list[k].actions = actions
    BY <1>2 DEF ToRule
  <2> HIDE DEF id
  <2>4. Len(actions) \in Nat /\ DOMAIN actions = 1..Len(actions)
    BY <2>2 DEF AreActions
  <2>5. ASSUME NEW i \in 1..Len(actions)
        PROVE  Acts(actions[i], AllValues(u), AllTags(u))
    <3> DEFINE value == actions[i].value
    <3>1. actions[i].type \in ActionTypes
          /\ (actions[i].type = "add_tags" => value \in Seq(ToSet(value)))
      BY <2>2 DEF AreActions
    <3>2. i \in Nat /\ <<id, i>> \in Enabled(u) \X Nat
      BY <2>1, <2>4
    <3>3. value \in AllValues(u)
      BY <3>2 DEF AllValues
    <3>4. ASSUME value \in Seq(ToSet(value))
          PROVE  value \in Seq(AllTags(u))
      <4>1. Len(value) \in Nat /\ DOMAIN value = 1..Len(value)
            /\ value = [j \in 1..Len(value) |-> value[j]]
        BY <3>4
      <4>2. ASSUME NEW j \in 1..Len(value)
            PROVE  value[j] \in AllTags(u)
        <5> DEFINE p == <<id, i, j>>
        <5>1. p \in Enabled(u) \X Nat \X Nat
          BY <2>1, <3>2, <4>1
        <5>2. p[1] = id /\ p[2] = i /\ p[3] = j
          OBVIOUS
        <5>3. rules[p[1]].actions[p[2]].value[p[3]] = value[j]
          BY <5>2
        <5> HIDE DEF p, value
        <5> QED BY <5>1, <5>3 DEF AllTags
      <4> HIDE DEF value
      <4>3. value \in [1..Len(value) -> AllTags(u)]
        BY <4>1, <4>2
      <4> QED BY <4>1, <4>3
    <3> QED BY <3>1, <3>3, <3>4 DEF Acts
  <2> HIDE DEF actions
  <2>6. /\ Len(list[k].actions) \in Nat /\ DOMAIN list[k].actions = 1..Len(list[k].actions)
        /\ \A i \in 1..Len(list[k].actions) : Acts(list[k].actions[i], AllValues(u), AllTags(u))
    <3>1. list[k].actions = actions
      BY <2>3
    <3> QED BY <2>4, <2>5, <3>1
  <2>7. list[k].id \in Ids /\ list[k].stopProcessing \in BOOLEAN
    BY <2>1, <2>2, <2>3
  <2> QED BY <2>6, <2>7 DEF Ruling
<1> QED BY <1>2, <1>3 DEF Rulings, n, ids, list

LEMMA AskedInOrder ==
  ASSUME RulesInv, NEW u \in Users
  PROVE  Ordered(Asked(u)) = Asked(u)
<1> DEFINE ids == List(u, TRUE)
           n == Len(ids)
           list == Asked(u)
<1>1. /\ n \in Nat /\ DOMAIN ids = 1..n /\ ids \in [1..n -> Enabled(u)]
      /\ \A i, j \in 1..n : Precedes(ids[i], ids[j]) <=> i < j
  BY EnabledInOrder
<1>2. /\ DOMAIN list = 1..n /\ list = [k \in 1..n |-> list[k]]
      /\ \A k \in 1..n : list[k] = ToRule(ids[k])
  BY <1>1 DEF Asked
<1> HIDE DEF ids, list
<1>3. \A id \in Enabled(u) : id \in Nat /\ rules[id].priority \in Nat
  BY DEF Enabled, Mine, Ids, RulesInv, RulesTypeOK
<1>4. \A k \in 1..n : list[k].priority = rules[ids[k]].priority /\ list[k].createdAt = ids[k] \div 2
  BY <1>2 DEF ToRule
<1>5. \A k \in 1..n : list[k].priority \in Int /\ list[k].createdAt \in Int
  BY <1>1, <1>3, <1>4
<1>6. ASSUME NEW i \in 1..n, NEW j \in 1..n, i < j
      PROVE  NotAfter(list, i, j)
  <2>1. Precedes(ids[i], ids[j]) /\ ids[i] \in Nat /\ ids[j] \in Nat
    BY <1>1, <1>3, <1>6
  <2>2. ids[i] < ids[j] => ids[i] \div 2 <= ids[j] \div 2
    BY <2>1
  <2> QED BY <1>4, <2>1, <2>2 DEF NotAfter, Precedes
<1> HIDE DEF n
<1> QED BY <1>1, <1>2, <1>5, <1>6, OrderedAlready DEF list

(* The rules that fire in the loop are those that fire by definition.      *)
LEMMA FiresHere ==
  ASSUME RulesInv, NEW u \in Users, NEW t,
         NEW ids, ids = List(u, TRUE), NEW k \in 1..Len(ids)
  PROVE  Fires(ParsedCandidate(t), Asked(u), k) <=> ids[k] \in Firing(u, t)
<1> DEFINE n == Len(ids)
           list == Asked(u)
           c == ParsedCandidate(t)
<1>1. /\ n \in Nat /\ DOMAIN ids = 1..n /\ ids \in [1..n -> Enabled(u)]
      /\ \A id \in Enabled(u) : \E i \in 1..n : ids[i] = id
      /\ \A i, j \in 1..n : Precedes(ids[i], ids[j]) <=> i < j
  BY EnabledInOrder
<1>2. \A i \in 1..n : list[i] = ToRule(ids[i])
  BY <1>1 DEF Asked
<1> HIDE DEF list, c
<1>3. ASSUME NEW i \in 1..n
      PROVE  /\ list[i].stopProcessing = rules[ids[i]].stopProcessing
             /\ MatchesRule(c, list[i]) <=> Matches(ids[i], t)
  <2>1. /\ list[i].stopProcessing = rules[ids[i]].stopProcessing
        /\ list[i].isEnabled = rules[ids[i]].isEnabled
        /\ list[i].conditions = rules[ids[i]].conditions
    <3> DEFINE id == ids[i]
    <3>1. list[i] = ToRule(id)
      BY <1>2
    <3> HIDE DEF id
    <3>2. list[i].stopProcessing = rules[id].stopProcessing
      BY <3>1 DEF ToRule
    <3>3. list[i].isEnabled = rules[id].isEnabled
      BY <3>1 DEF ToRule
    <3>4. list[i].conditions = rules[id].conditions
      BY <3>1 DEF ToRule
    <3> QED BY <3>2, <3>3, <3>4 DEF id
  <2>2. ids[i] \in Enabled(u)
    BY <1>1
  <2>3. rules[ids[i]].isEnabled /\ rules[ids[i]].conditions # {}
    BY <2>2 DEF Enabled, Mine, RulesInv, RulesTypeOK
  <2> QED BY <2>1, <2>3 DEF MatchesRule, Matches, c
<1> DEFINE matching == {id \in Enabled(u) : Matches(id, t)}
<1>4. ids[k] \in Firing(u, t)
        <=> /\ ids[k] \in matching
            /\ \A j \in matching : Precedes(j, ids[k]) => ~rules[j].stopProcessing
  BY DEF Firing
<1>5. ids[k] \in matching <=> MatchesRule(c, list[k])
  BY <1>1, <1>3
<1>6. (\A j \in matching : Precedes(j, ids[k]) => ~rules[j].stopProcessing)
        <=> ~Stops(c, list, k - 1)
  <2>1. k \in 1..n
    OBVIOUS
  <2> HIDE DEF n
  <2>2. /\ \A i \in 1..n : i \in 1..(k - 1) <=> i < k
        /\ \A i \in 1..(k - 1) : i \in 1..n
    BY <1>1, <2>1
  <2>3. ASSUME NEW j \in matching, Precedes(j, ids[k]), rules[j].stopProcessing
        PROVE  Stops(c, list, k - 1)
    <3>1. PICK i \in 1..n : ids[i] = j
      BY <1>1
    <3>2. i \in 1..(k - 1)
      BY <1>1, <2>1, <2>2, <2>3, <3>1
    <3> QED BY <1>3, <2>3, <3>1, <3>2 DEF Stops
  <2>4. ASSUME Stops(c, list, k - 1)
        PROVE  \E j \in matching : Precedes(j, ids[k]) /\ rules[j].stopProcessing
    <3>1. PICK i \in 1..(k - 1) : MatchesRule(c, list[i]) /\ list[i].stopProcessing
      BY <2>4 DEF Stops
    <3>2. i \in 1..n /\ i < k
      BY <2>2
    <3>3. ids[i] \in matching /\ rules[ids[i]].stopProcessing
      BY <1>1, <1>3, <3>1, <3>2
    <3>4. Precedes(ids[i], ids[k])
      BY <1>1, <2>1, <3>2
    <3> QED BY <3>3, <3>4
  <2> QED BY <2>3, <2>4
<1> QED BY <1>4, <1>5, <1>6 DEF Fires, list, c

(* What EvaluationAgrees says of one user and one transaction.             *)
Agrees(u, t) ==
  LET result == Evaluate(u, t)
      out == result.outcome
      firing == Firing(u, t)
  IN /\ ToSet(result.matched) = firing /\ IsSorted(result.matched, Precedes)
     /\ out.category = LastSet(firing, "set_category")
     /\ out.account = LastSet(firing, "set_account")
     /\ out.note = LastSet(firing, "set_note")
     /\ out.ignored <=> \E id \in firing : Has(id, "ignore")
     /\ ToSet(out.tags) = UNION {TagsOf(id) : id \in firing}
     /\ Len(out.tags) = Cardinality(ToSet(out.tags))

LEMMA EvaluationFollows ==
  ASSUME RulesInv, NEW u \in Users, NEW t \in Candidates
  PROVE  Agrees(u, t)
<1> DEFINE ids == List(u, TRUE)
           n == Len(ids)
           list == Asked(u)
           c == ParsedCandidate(t)
           run == PassRules(c, list)
           out == run.outcome
           firing == Firing(u, t)
<1>1. /\ n \in Nat /\ DOMAIN ids = 1..n /\ ids \in [1..n -> Enabled(u)]
      /\ \A id \in Enabled(u) : \E i \in 1..n : ids[i] = id
      /\ \A i, j \in 1..n : Precedes(ids[i], ids[j]) <=> i < j
  BY EnabledInOrder
<1>2. \A i \in 1..n : list[i] = ToRule(ids[i])
  BY <1>1 DEF Asked
<1>3. \A i \in 1..n : Fires(c, list, i) <=> ids[i] \in firing
  BY FiresHere
<1>4. firing \subseteq Enabled(u)
  BY DEF Firing
<1>5. Evaluate(u, t) = [matched |-> run.matched, outcome |-> out]
  <2>1. Ordered(list) = list
    BY AskedInOrder
  <2> QED BY <2>1 DEF Evaluate, EvaluateRules, Asked
<1>6. run \in Passes(Ids, AllValues(u), AllTags(u)) /\ Passed(c, list, n, run)
  <2>1. Rulings(list, n, Ids, AllValues(u), AllTags(u)) /\ Absent \in AllValues(u)
    BY AskedRulings DEF AllValues
  <2> HIDE DEF list, n, c
  <2> QED BY <1>1, <2>1, RulesPassed
<1> HIDE DEF ids, list, c, run, firing
<1>7. \A i \in 1..n : list[i].id = ids[i] /\ list[i].actions = rules[ids[i]].actions
  <2>1. \A id : ToRule(id).id = id /\ ToRule(id).actions = rules[id].actions
    BY DEF ToRule
  <2> QED BY <1>2, <2>1
<1>8. \A id \in Enabled(u) : /\ Len(rules[id].actions) \in Nat
                             /\ DOMAIN rules[id].actions = 1..Len(rules[id].actions)
  BY DEF Enabled, Mine, RulesInv, RulesTypeOK, AreActions
<1>9. ToSet(run.matched) = firing
  <2>1. \A x : x \in ToSet(run.matched) <=> \E i \in 1..n : ids[i] \in firing /\ ids[i] = x
    BY <1>3, <1>6, <1>7 DEF Passed
  <2>2. \A x : x \in ToSet(run.matched) <=> x \in firing
    BY <1>1, <1>4, <2>1
  <2> QED BY <2>2
<1>10. IsSorted(run.matched, Precedes)
  <2> SUFFICES ASSUME NEW a \in 1..Len(run.matched), NEW b \in 1..Len(run.matched), a < b
               PROVE  Precedes(run.matched[a], run.matched[b])
    BY DEF IsSorted
  <2>1. PICK i, j \in 1..n : i < j /\ run.matched[a] = list[i].id /\ run.matched[b] = list[j].id
    BY <1>6 DEF Passed
  <2> QED BY <1>1, <1>7, <2>1
<1>11. ASSUME NEW type \in Setters
       PROVE  out[FieldSetBy[type]] = LastSet(firing, type)
  <2>1. LastAnswer(c, list, n, type, out[FieldSetBy[type]])
    BY <1>6 DEF Passed
  <2>2. \A i \in 1..n : Silent(list[i].actions, type) <=> ~Has(ids[i], type)
    BY <1>1, <1>7, <1>8 DEF Silent, Has
  <2>3. CASE /\ out[FieldSetBy[type]] = Absent
             /\ \A i \in 1..n : Fires(c, list, i) => Silent(list[i].actions, type)
    <3>1. \A id \in firing : ~Has(id, type)
      BY <1>1, <1>3, <1>4, <2>2, <2>3
    <3> QED BY <2>3, <3>1 DEF LastSet
  <2>4. CASE \E i \in 1..n :
               /\ Fires(c, list, i) /\ Answer(list[i].actions, type, out[FieldSetBy[type]])
               /\ \A j \in (i + 1)..n : Fires(c, list, j) => Silent(list[j].actions, type)
    <3>1. PICK i \in 1..n :
            /\ Fires(c, list, i) /\ Answer(list[i].actions, type, out[FieldSetBy[type]])
            /\ \A j \in (i + 1)..n : Fires(c, list, j) => Silent(list[j].actions, type)
      BY <2>4
    <3>2. ids[i] \in firing /\ Answer(rules[ids[i]].actions, type, out[FieldSetBy[type]])
          /\ Len(rules[ids[i]].actions) \in Nat
      BY <1>1, <1>3, <1>7, <1>8, <3>1
    <3>3. Has(ids[i], type)
      <4>1. ~Silent(list[i].actions, type)
        BY <3>1 DEF Answer, Silent
      <4> QED BY <2>2, <4>1
    <3>4. ASSUME NEW id \in firing, Has(id, type)
          PROVE  id = ids[i] \/ (Precedes(id, ids[i]) /\ ~Precedes(ids[i], id))
      <4>1. PICK j \in 1..n : ids[j] = id
        BY <1>1, <1>4
      <4>2. j \notin (i + 1)..n
        BY <1>3, <2>2, <3>1, <3>4, <4>1
      <4>3. j = i \/ j < i
        BY <1>1, <4>2
      <4> QED BY <1>1, <4>1, <4>3
    <3> QED BY <3>2, <3>3, <3>4, LastSetIs
  <2> QED BY <2>1, <2>3, <2>4 DEF LastAnswer
<1>12. out.ignored <=> \E id \in firing : Has(id, "ignore")
  <2>1. \A i \in 1..n : Silent(list[i].actions, "ignore") <=> ~Has(ids[i], "ignore")
    BY <1>1, <1>7, <1>8 DEF Silent, Has
  <2>2. out.ignored <=> \E i \in 1..n : Fires(c, list, i) /\ ~Silent(list[i].actions, "ignore")
    BY <1>6 DEF Passed
  <2> QED BY <1>1, <1>3, <1>4, <2>1, <2>2
<1>13. ToSet(out.tags) = UNION {TagsOf(id) : id \in firing}
  <2>1. ASSUME NEW x
        PROVE  x \in ToSet(out.tags) <=> \E i \in 1..n : ids[i] \in firing /\ HasTag(list[i].actions, x)
    BY <1>3, <1>6 DEF Passed
  <2>2. ASSUME NEW i \in 1..n, NEW x
        PROVE  HasTag(list[i].actions, x) <=> x \in TagsOf(ids[i])
    <3>1. DOMAIN list[i].actions = 1..Len(list[i].actions)
          /\ list[i].actions = rules[ids[i]].actions
      BY <1>1, <1>7, <1>8
    <3> QED BY <3>1 DEF HasTag, TagsIn, TagsOf
  <2>3. ASSUME NEW x
        PROVE  x \in ToSet(out.tags) <=> \E id \in firing : x \in TagsOf(id)
    BY <1>1, <1>4, <2>1, <2>2
  <2>4. ASSUME NEW x
        PROVE  x \in UNION {TagsOf(id) : id \in firing} <=> \E id \in firing : x \in TagsOf(id)
    OBVIOUS
  <2>5. \A x : x \in ToSet(out.tags) <=> x \in UNION {TagsOf(id) : id \in firing}
    BY <2>3, <2>4
  <2> QED BY <2>5
<1>14. Len(out.tags) = Cardinality(ToSet(out.tags))
  <2>1. out \in Outcomes(AllValues(u), AllTags(u))
    BY <1>6 DEF Passes
  <2>2. out.tags \in Seq(AllTags(u)) /\ Distinct(out.tags)
    BY <2>1 DEF Outcomes
  <2> QED BY <2>2, DistinctLength
<1>15. /\ out.category = LastSet(firing, "set_category")
       /\ out.account = LastSet(firing, "set_account")
       /\ out.note = LastSet(firing, "set_note")
  BY <1>11 DEF Setters, FieldSetBy
<1>16. Evaluate(u, t).outcome = out /\ Evaluate(u, t).matched = run.matched
  BY <1>5
<1> HIDE DEF out
<1> QED BY <1>9, <1>10, <1>12, <1>13, <1>14, <1>15, <1>16 DEF Agrees, firing

(* Whatever the rules and their conditions and actions: evaluation answers *)
(* by those that fire, the last of them to set a field wins, and a tag     *)
(* appears once (rules.engine.ts:115-146).                                 *)
THEOREM Evaluation == RulesSpec => []EvaluationAgrees
<1>1. RulesInv => EvaluationAgrees
  BY EvaluationFollows DEF EvaluationAgrees, Agrees
<1> QED BY <1>1, RulesInvariant, PTL
=============================================================================
