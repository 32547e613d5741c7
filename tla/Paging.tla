------------------------------- MODULE Paging -------------------------------
(***************************************************************************)
(* Offset pagination, from src/lib/pagination.ts and the .range() of the   *)
(* repositories: a page is cut out of the list as it is at that moment.    *)
(***************************************************************************)
EXTENDS Sequences, Naturals

(* mutation: the range of PostgREST taken for a half-open one              *)
PageOf_HalfOpen(list, offset, limit) ==
  SubSeq(list, offset + 1, IF offset + limit + 1 < Len(list) THEN offset + limit + 1 ELSE Len(list))

(* .range(offset, offset + limit - 1), both ends included, counted from 0. *)
PageOf(list, offset, limit) ==
  SubSeq(list, offset + 1, IF offset + limit < Len(list) THEN offset + limit ELSE Len(list))

Paginate(list, offset, limit) ==
  LET data == PageOf(list, offset, limit)
  IN [data |-> data, total |-> Len(list), hasMore |-> offset + Len(data) < Len(list)]
=============================================================================
