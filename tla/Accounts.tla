------------------------------ MODULE Accounts ------------------------------
(***************************************************************************)
(* Reading the account projection, from src/modules/accounts: a filtered   *)
(* list, ordered by name alone, and one row by id.  The module never       *)
(* writes; the rows come and go with the syncs of BankConnections, of      *)
(* which only the outcome matters here: a row appears, is marked           *)
(* disconnected, or reappears.                                             *)
(***************************************************************************)
EXTENDS Integers, SequencesExt, Paging

CONSTANTS
  AccountIds,
  Name,        \* account -> its name, a number for its place in the alphabet
  Type,        \* account -> its type
  Connection,  \* account -> the connection it was read through
  PageSize,    \* the page size of the client that reads the list
  Unfiltered   \* a filter that is not given

ASSUME AccountsAssumption ==
  /\ IsFiniteSet(AccountIds) /\ Name \in [AccountIds -> Int]
  /\ PageSize \in Nat \ {0}

VARIABLES
  status,      \* the table accounts: "absent", "live" or "gone"
  client       \* the client paging through the list

accountVars == <<status, client>>

AccountsInit ==
  /\ status = [a \in AccountIds |-> "absent"]
  /\ client = [at |-> "rest"]

(* The rows a query selects, and the orders Postgres may return them in:   *)
(* each query decides anew how rows of one name follow each other.         *)
Selected(filter) ==
  {a \in AccountIds :
     /\ status[a] # "absent"
     /\ filter.type \in {Unfiltered, Type[a]}
     /\ filter.connectionId \in {Unfiltered, Connection[a]}
     /\ filter.includeDisconnected \/ status[a] = "live"}

(* mutation: the query has no order at all                                 *)
Results_Unordered(filter) == SetToSeqs(Selected(filter))

Results(filter) ==
  {list \in SetToSeqs(Selected(filter)) :
     \A i, j \in DOMAIN list : i < j => Name[list[i]] <= Name[list[j]]}

(* A sync upserts a row it is told of, or marks one that is missing.       *)
Sync(a) ==
  /\ status' \in {[status EXCEPT ![a] = "live"],
                  [status EXCEPT ![a] = IF @ = "live" THEN "gone" ELSE @]}
  /\ status' # status
  /\ client' = IF client.at = "rest" THEN client ELSE [client EXCEPT !.quiet = FALSE]

StartListing(filter) ==
  /\ client.at = "rest"
  /\ client' = [at |-> "next", filter |-> filter, offset |-> 0, seen |-> <<>>,
                quiet |-> TRUE]
  /\ UNCHANGED status

ListPage ==
  /\ client.at = "next"
  /\ \E list \in Results(client.filter) :
       LET page == Paginate(list, client.offset, PageSize)
       IN client' = [client EXCEPT !.at = IF page.hasMore THEN "next" ELSE "done",
                                   !.seen = @ \o page.data,
                                   !.offset = @ + PageSize]
  /\ UNCHANGED status

StopListing ==
  /\ client.at = "done"
  /\ client' = [at |-> "rest"]
  /\ UNCHANGED status

Filters ==
  [type : {Type[a] : a \in AccountIds} \cup {Unfiltered},
   connectionId : {Connection[a] : a \in AccountIds} \cup {Unfiltered},
   includeDisconnected : BOOLEAN]

AccountsNext ==
  \/ \E a \in AccountIds : Sync(a)
  \/ \E filter \in Filters : StartListing(filter)
  \/ ListPage \/ StopListing

AccountsSpec == AccountsInit /\ [][AccountsNext]_accountVars

(* A client that follows hasMore to the end, with no sync in between, has  *)
(* read as many rows as the filter selects, by name, and every account     *)
(* whose name is its own exactly once: an account can be missed or         *)
(* repeated only next to another selected one of the same name             *)
(* (accounts.repository.ts:28-44).                                         *)
OnlyNamesakesSlip ==
  (client.at = "done" /\ client.quiet) =>
    LET selected == Selected(client.filter)
        seen == client.seen
    IN /\ Len(seen) = Cardinality(selected)
       /\ \A i, j \in DOMAIN seen : i < j => Name[seen[i]] <= Name[seen[j]]
       /\ \A a \in selected :
            (\A b \in selected : Name[b] = Name[a] => b = a)
              => \E i \in DOMAIN seen : \A j \in DOMAIN seen : seen[j] = a <=> j = i
=============================================================================
